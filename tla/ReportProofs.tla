------------------------------ MODULE ReportProofs ------------------------------
(****************************************************************************)
(* Proofs about the report, for any options, names, messages and texts and  *)
(* for a tree of any size: the tree, its lists and the error log hold what  *)
(* the collectors told, and no sensitive value the user asked to hide; a    *)
(* text that is escaped into a buffer of any size fits there and can be     *)
(* read back as the beginning of itself; and a name that is looked up in a  *)
(* file of any length is found where it belongs.                            *)
(****************************************************************************)
EXTENDS MCReport, SequenceTheorems, NaturalsInduction, WellFoundedInduction, TLAPS

----------------------------------------------------------------------------
(* Sequences.                                                               *)

IsList(seq) == seq \in Seq({ seq[i] : i \in DOMAIN seq })

\* A sequence with one more element.
LEMMA Appending ==
    ASSUME NEW seq, IsList(seq), NEW new
    PROVE  /\ IsList(Append(seq, new))
           /\ Len(seq) \in Nat /\ DOMAIN seq = 1..Len(seq)
           /\ Len(Append(seq, new)) = Len(seq) + 1
           /\ DOMAIN Append(seq, new) = 1..(Len(seq) + 1)
           /\ \A i \in DOMAIN seq : Append(seq, new)[i] = seq[i]
           /\ Append(seq, new)[Len(seq) + 1] = new
<1> DEFINE S == { seq[i] : i \in DOMAIN seq } \cup {new}
           longer == Append(seq, new)
<1>1. seq \in Seq(S)
  BY DEF IsList
<1> HIDE DEF S
<1>2. longer \in Seq(S) /\ Len(longer) = Len(seq) + 1 /\ Len(seq) \in Nat /\ new \in S
  BY <1>1 DEF S
<1>3. /\ DOMAIN seq = 1..Len(seq) /\ DOMAIN longer = 1..(Len(seq) + 1)
      /\ \A i \in DOMAIN seq : longer[i] = seq[i]
      /\ longer[Len(seq) + 1] = new
  BY <1>1, <1>2
<1> HIDE DEF longer
<1>4. longer \in Seq({ longer[i] : i \in DOMAIN longer })
  BY <1>2, <1>3
<1> QED
  BY <1>2, <1>3, <1>4 DEF IsList, longer

LEMMA Listing ==
    ASSUME NEW k \in Nat, NEW seq, seq = [i \in 1..k |-> seq[i]]
    PROVE  IsList(seq) /\ Len(seq) = k
<1> DEFINE S == { seq[i] : i \in DOMAIN seq }
<1>1. DOMAIN seq = 1..k
  OBVIOUS
<1>2. \A i \in 1..k : seq[i] \in S
  BY <1>1
<1> HIDE DEF S
<1>3. seq \in [1..k -> S]
  BY <1>2
<1>4. seq \in Seq(S) /\ Len(seq) = k
  BY <1>3
<1> QED
  BY <1>4 DEF IsList, S

\* Among some of the first lines there is a first one and a last one.
LEMMA FirstOf ==
    ASSUME NEW lines \in SUBSET Nat, lines # {}
    PROVE  \E i \in lines : \A j \in lines : i <= j
<1> DEFINE R == OpToRel(<, Nat)
<1>1. R = { pair \in Nat \X Nat : pair[1] < pair[2] }
  BY DEF OpToRel
<1>2. \E i \in lines : \A j \in lines : ~(<<j, i>> \in R)
  BY WFMin, NatLessThanWellFounded
<1> HIDE DEF R
<1>3. PICK i \in lines : \A j \in lines : ~(<<j, i>> \in R)
  BY <1>2
<1>4. ASSUME NEW j \in lines PROVE i <= j
  <2>1. i \in Nat /\ j \in Nat /\ ~(<<j, i>> \in R)
    BY <1>3
  <2> QED
    BY <1>1, <2>1
<1> QED
  BY <1>4

----------------------------------------------------------------------------
(* The report: multistrings.                                                *)

\* Characters; the NUL is listed for the provers.
Char == STRING \cup {T!NUL}

\* A text that ends where the multistring it is put into goes on.
Word == { s \in Seq(Char) : s # <<>> /\ \A i \in 1..Len(s) : s[i] # T!NUL }

Before(ends, k) == IF k = 1 THEN 0 ELSE ends[k - 1]

\* The strings of the list are where "ends" says.
Laid(memory, list, ends) ==
    /\ ends \in [1..Len(list) -> T!NULs(memory)]
    /\ \A k \in 1..Len(list) :
          /\ ends[k] = Before(ends, k) + Len(list[k]) + 1
          /\ \A i \in 1..Len(list[k]) : memory[Before(ends, k) + i] = list[k][i]
    /\ Len(memory) = Before(ends, Len(list) + 1) + 1
    /\ memory[Before(ends, Len(list) + 1) + 1] = T!NUL

LEMMA HoldsLaid == ASSUME NEW memory, NEW list
                   PROVE  T!Holds(memory, list) <=> \E ends : Laid(memory, list, ends)
  BY DEF T!Holds, Laid, Before

\* Where two NULs follow each other the multistring ends.
LEMMA OneDouble ==
    ASSUME NEW memory \in Seq(Char), NEW list \in Seq(Word), NEW ends, Laid(memory, list, ends),
           list # <<>>
    PROVE  /\ Len(memory) \in Nat /\ Len(memory) >= 3
           /\ ends[Len(list)] = Len(memory) - 1 /\ \A k \in 1..Len(list) : ends[k] \in 1..Len(memory) - 1
           /\ memory[1] # T!NUL
           /\ \A p \in 1..Len(memory) - 1 :
                 memory[p] = T!NUL /\ memory[p + 1] = T!NUL <=> p = Len(memory) - 1
<1> DEFINE n == Len(list)
<1>1. n \in Nat /\ n >= 1 /\ Len(memory) \in Nat
  OBVIOUS
<1>2. \A k \in 1..n : /\ list[k] \in Seq(Char) /\ Len(list[k]) \in Nat /\ Len(list[k]) >= 1
                      /\ \A i \in 1..Len(list[k]) : list[k][i] # T!NUL
  <2> SUFFICES ASSUME NEW k \in 1..n
               PROVE  /\ list[k] \in Seq(Char) /\ Len(list[k]) \in Nat /\ Len(list[k]) >= 1
                      /\ \A i \in 1..Len(list[k]) : list[k][i] # T!NUL
    OBVIOUS
  <2>1. list[k] \in Word
    OBVIOUS
  <2> QED
    BY <2>1 DEF Word
<1>3. \A k \in 1..n : ends[k] \in 1..Len(memory) /\ memory[ends[k]] = T!NUL
  BY DEF Laid, T!NULs
<1>4. \A k \in 1..n : /\ ends[k] = Before(ends, k) + Len(list[k]) + 1
                      /\ \A i \in 1..Len(list[k]) : memory[Before(ends, k) + i] = list[k][i]
  BY DEF Laid
<1>5. ends[n] = Len(memory) - 1 /\ memory[Len(memory)] = T!NUL
  <2>1. Before(ends, n + 1) = ends[n]
    BY <1>1 DEF Before
  <2> QED
    BY <1>1, <1>3, <2>1 DEF Laid
<1> HIDE DEF n
<1>6. \A k \in 1..n : Before(ends, k) \in 0..Len(memory)
  BY <1>1, <1>3 DEF Before
<1>7. ASSUME NEW k \in 1..n PROVE memory[Before(ends, k) + 1] # T!NUL
  <2>1. 1 \in 1..Len(list[k])
    BY <1>2
  <2> QED
    BY <1>2, <1>4, <2>1
<1>8. memory[1] # T!NUL
  <2>1. 1 \in 1..n /\ Before(ends, 1) = 0
    BY <1>1 DEF Before
  <2>2. memory[Before(ends, 1) + 1] # T!NUL
    BY <1>7, <2>1
  <2> QED
    BY <2>1, <2>2
<1>9. Len(memory) >= 3
  <2>1. ends[n] = Before(ends, n) + Len(list[n]) + 1 /\ Len(list[n]) >= 1 /\ Before(ends, n) \in Nat
        /\ Len(list[n]) \in Nat
    BY <1>1, <1>2, <1>4, <1>6
  <2> QED
    BY <1>1, <1>5, <2>1
<1>10. ASSUME NEW p \in 1..Len(memory) - 1, memory[p] = T!NUL, memory[p + 1] = T!NUL
       PROVE  p = Len(memory) - 1
  <2> DEFINE after == { k \in 1..n : p <= ends[k] }
  <2>1. n \in after
    BY <1>1, <1>3, <1>5
  <2>2. PICK k \in after : \A l \in after : k <= l
    <3>1. after \in SUBSET Nat /\ after # {}
      BY <2>1
    <3> HIDE DEF after
    <3> QED
      BY <3>1, FirstOf
  <2>3. k \in 1..n /\ p <= ends[k] /\ ends[k] \in Nat /\ p \in Nat
    BY <1>3, <2>2
  <2>4. Before(ends, k) < p /\ Before(ends, k) \in Nat
    <3>1. CASE k = 1
      BY <3>1 DEF Before
    <3>2. CASE k # 1
      <4>1. k - 1 \in 1..n
        BY <1>1, <2>3, <3>2
      <4>2. ~(k - 1 \in after)
        <5>1. ~(k <= k - 1)
          BY <2>3
        <5> QED
          BY <2>2, <5>1
      <4>3. ~(p <= ends[k - 1]) /\ ends[k - 1] \in Nat
        BY <1>3, <4>1, <4>2
      <4> QED
        BY <2>3, <3>2, <4>3 DEF Before
    <3> QED
      BY <3>1, <3>2
  <2>5. CASE p # ends[k]
    <3> DEFINE i == p - Before(ends, k)
    <3>1. Len(list[k]) \in Nat /\ ends[k] = Before(ends, k) + Len(list[k]) + 1
      BY <1>2, <1>4, <2>3
    <3>2. i \in 1..Len(list[k]) /\ p = Before(ends, k) + i
      <4>1. \A b, e, l \in Nat : e = b + l + 1 /\ b < p /\ p <= e /\ p # e =>
                                p - b \in 1..l /\ p = b + (p - b)
        <5>1. p \in Nat
          BY <2>3
        <5> QED
          BY ONLY <5>1
      <4> QED
        BY <2>3, <2>4, <2>5, <3>1, <4>1
    <3> HIDE DEF i
    <3>3. memory[p] # T!NUL
      BY <1>2, <1>4, <2>3, <3>2
    <3> QED
      BY <1>10, <3>3
  <2>6. CASE p = ends[k] /\ k = n
    BY <1>5, <2>6
  <2>7. CASE p = ends[k] /\ k # n
    <3>1. k + 1 \in 1..n /\ Before(ends, k + 1) = p
      BY <1>1, <2>3, <2>7 DEF Before
    <3>2. memory[p + 1] # T!NUL
      BY <1>7, <3>1
    <3> QED
      BY <1>10, <3>2
  <2> QED
    BY <2>5, <2>6, <2>7
<1>11. memory[Len(memory) - 1] = T!NUL /\ memory[Len(memory) - 1 + 1] = T!NUL
  BY <1>1, <1>3, <1>5
<1>12. ASSUME NEW k \in 1..n PROVE ends[k] \in 1..Len(memory) - 1
  <2> SUFFICES ASSUME ends[k] = Len(memory) PROVE FALSE
    BY <1>1, <1>3
  <2>1. Len(list[k]) \in 1..Len(list[k]) /\ Before(ends, k) + Len(list[k]) = Len(memory) - 1
    <3>1. Len(list[k]) \in Nat /\ Len(list[k]) >= 1 /\ Before(ends, k) \in Nat
      BY <1>1, <1>2, <1>6
    <3>2. Len(memory) = Before(ends, k) + Len(list[k]) + 1
      BY <1>4
    <3> QED
      BY <1>1, <3>1, <3>2
  <2>2. memory[Before(ends, k) + Len(list[k])] # T!NUL
    <3>1. memory[Before(ends, k) + Len(list[k])] = list[k][Len(list[k])]
      BY <1>4, <2>1
    <3>2. list[k][Len(list[k])] # T!NUL
      BY <1>2, <2>1
    <3> QED
      BY ONLY <3>1, <3>2
  <2> QED
    BY <1>11, <2>1, <2>2
<1> QED
  BY <1>1, <1>5, <1>8, <1>9, <1>10, <1>11, <1>12 DEF n

\* Two pieces of memory, one after the other, and the NULs that end one.
LEMMA Joining ==
    \A a, b \in Seq(Char) : \A n \in Nat :
        n = Len(a) => /\ a \o b \in Seq(Char) /\ Len(a \o b) = n + Len(b) /\ Len(b) \in Nat
                      /\ \A i \in 1..n : (a \o b)[i] = a[i]
                      /\ \A i \in 1..Len(b) : (a \o b)[n + i] = b[i]
  OBVIOUS

LEMMA Ending ==
    ASSUME NEW a \in Seq(Char), NEW n \in Nat, n = Len(a)
    PROVE  LET ended == a \o <<T!NUL, T!NUL>>
           IN  /\ ended \in Seq(Char) /\ Len(ended) = n + 2
               /\ \A i \in 1..n : ended[i] = a[i]
               /\ ended[n + 1] = T!NUL /\ ended[n + 2] = T!NUL
<1> DEFINE two == <<T!NUL, T!NUL>>
<1>1. two \in Seq(Char)
  <2>1. T!NUL \in Char
    BY DEF Char
  <2> QED
    BY <2>1
<1>2. Len(two) = 2 /\ two[1] = T!NUL /\ two[2] = T!NUL
  OBVIOUS
<1> HIDE DEF two
<1>3. /\ a \o two \in Seq(Char) /\ Len(a \o two) = n + Len(two)
      /\ \A i \in 1..n : (a \o two)[i] = a[i]
      /\ \A i \in 1..Len(two) : (a \o two)[n + i] = two[i]
  BY <1>1, Joining
<1>4. 1 \in 1..Len(two) /\ 2 \in 1..Len(two)
  BY <1>2
<1> QED
  BY <1>2, <1>3, <1>4 DEF two

\* A multistring that is appended to holds one string more.
LEMMA OneStringMore ==
    ASSUME NEW memory \in Seq(Char), NEW list \in Seq(Word), T!Holds(memory, list),
           list # <<>>, NEW new \in Word
    PROVE  LET longer == T!AppendMultiSz(memory, new)
           IN  longer \in Seq(Char) /\ T!Holds(longer, Append(list, new))
<1>1. PICK ends : Laid(memory, list, ends)
  BY HoldsLaid
<1> DEFINE n == Len(list)
           m == Len(memory)
           longer == SubSeq(memory, 1, m - 1) \o new \o <<T!NUL, T!NUL>>
           more == [k \in 1..n + 1 |-> IF k = n + 1 THEN m + Len(new) ELSE ends[k]]
<1>2. /\ n \in Nat /\ n >= 1 /\ m \in Nat /\ m >= 3 /\ ends[n] = m - 1
      /\ \A p \in 1..m - 1 : memory[p] = T!NUL /\ memory[p + 1] = T!NUL <=> p = m - 1
  BY <1>1, OneDouble
<1>3. T!AppendMultiSz(memory, new) = longer
  <2> DEFINE IsEnd(i) == /\ memory[i] = T!NUL /\ memory[i + 1] = T!NUL
                         /\ \A k \in 1..i - 1 : memory[k] # T!NUL \/ memory[k + 1] # T!NUL
             end == CHOOSE i \in 1..m - 1 : IsEnd(i)
  <2>1. \A i \in 1..m - 1 : IsEnd(i) => i = m - 1
    BY <1>2
  <2>2. IsEnd(m - 1)
    <3>1. m - 1 \in 1..m - 1
      BY <1>2
    <3>2. ASSUME NEW k \in 1..m - 1 - 1 PROVE memory[k] # T!NUL \/ memory[k + 1] # T!NUL
      <4>1. k \in 1..m - 1 /\ k # m - 1
        BY <1>2
      <4> QED
        BY <1>2, <4>1
    <3> QED
      BY <1>2, <3>1, <3>2
  <2>3. m - 1 \in 1..m - 1
    BY <1>2
  <2> HIDE DEF IsEnd
  <2>4. end = m - 1
    BY <2>1, <2>2, <2>3
  <2>5. memory # <<>>
    BY <1>2
  <2> QED
    BY <2>4, <2>5 DEF T!AppendMultiSz, IsEnd
<1>4. new \in Seq(Char) /\ Len(new) \in Nat /\ Len(new) >= 1
  BY DEF Word
<1>5. /\ SubSeq(memory, 1, m - 1) \in Seq(Char) /\ Len(SubSeq(memory, 1, m - 1)) = m - 1
      /\ \A i \in 1..m - 1 : SubSeq(memory, 1, m - 1)[i] = memory[i]
  BY <1>2
<1>6. /\ longer \in Seq(Char) /\ Len(longer) = m + Len(new) + 1
      /\ \A i \in 1..m - 1 : longer[i] = memory[i]
      /\ \A i \in 1..Len(new) : longer[m - 1 + i] = new[i]
      /\ longer[m + Len(new)] = T!NUL /\ longer[m + Len(new) + 1] = T!NUL
  <2> DEFINE front == SubSeq(memory, 1, m - 1)
             two == front \o new
             l == m - 1 + Len(new)
  <2>1. m - 1 \in Nat /\ l \in Nat
    BY <1>2, <1>4
  <2>2. /\ two \in Seq(Char) /\ Len(two) = l
        /\ \A i \in 1..m - 1 : two[i] = front[i]
        /\ \A i \in 1..Len(new) : two[m - 1 + i] = new[i]
    <3>1. front \in Seq(Char) /\ Len(front) = m - 1
      BY <1>5
    <3> HIDE DEF front
    <3>2. m - 1 = Len(front)
      BY ONLY <3>1
    <3> DEFINE before == m - 1
    <3>3. before \in Nat /\ before = Len(front)
      BY <2>1, <3>2
    <3> HIDE DEF before
    <3>4. /\ front \o new \in Seq(Char) /\ Len(front \o new) = before + Len(new)
          /\ \A i \in 1..before : (front \o new)[i] = front[i]
          /\ \A i \in 1..Len(new) : (front \o new)[before + i] = new[i]
      <4>1. front \in Seq(Char) /\ new \in Seq(Char) /\ before \in Nat /\ before = Len(front)
        BY ONLY <1>4, <3>1, <3>3
      <4> QED
        BY ONLY <4>1, Joining
    <3> QED
      BY <3>4 DEF before
  <2> HIDE DEF m, two
  <2>3. longer = two \o <<T!NUL, T!NUL>>
    BY DEF two
  <2> HIDE DEF l, longer
  <2>4. /\ longer \in Seq(Char) /\ Len(longer) = l + 2
        /\ \A i \in 1..l : longer[i] = two[i]
        /\ longer[l + 1] = T!NUL /\ longer[l + 2] = T!NUL
    BY <2>1, <2>2, <2>3, Ending
  <2>5. /\ l + 2 = m + Len(new) + 1 /\ l + 1 = m + Len(new)
        /\ \A i \in 1..m - 1 : i \in 1..l
        /\ \A i \in 1..Len(new) : m - 1 + i \in 1..l
    BY <1>2, <1>4 DEF l
  <2>6. \A i \in 1..m - 1 : longer[i] = memory[i]
    BY <1>5, <2>2, <2>4, <2>5 DEF m
  <2>7. \A i \in 1..Len(new) : longer[m - 1 + i] = new[i]
    BY <2>2, <2>4, <2>5
  <2> QED
    BY <2>4, <2>5, <2>6, <2>7
<1> HIDE DEF longer
<1>7. /\ Append(list, new) \in Seq(Word) /\ Len(Append(list, new)) = n + 1
      /\ \A k \in 1..n : Append(list, new)[k] = list[k]
      /\ Append(list, new)[n + 1] = new
  BY <1>2
<1>8. \A k \in 1..n : /\ ends[k] \in 1..m - 1 /\ memory[ends[k]] = T!NUL
                      /\ ends[k] = Before(ends, k) + Len(list[k]) + 1
                      /\ \A i \in 1..Len(list[k]) : memory[Before(ends, k) + i] = list[k][i]
  <2>1. ASSUME NEW k \in 1..n PROVE ends[k] \in 1..m - 1
    BY <1>1, OneDouble
  <2>2. ASSUME NEW k \in 1..n PROVE memory[ends[k]] = T!NUL
    BY <1>1 DEF Laid, T!NULs
  <2>3. ASSUME NEW k \in 1..n
        PROVE  /\ ends[k] = Before(ends, k) + Len(list[k]) + 1
               /\ \A i \in 1..Len(list[k]) : memory[Before(ends, k) + i] = list[k][i]
    BY <1>1 DEF Laid
  <2> HIDE DEF n, m
  <2> QED
    BY <2>1, <2>2, <2>3
<1> HIDE DEF n, m
<1>9. \A k \in 1..n : Before(ends, k) \in 0..m - 1 /\ Len(list[k]) \in Nat
  <2>1. \A k \in 1..n : list[k] \in Word
    BY DEF n
  <2>2. ASSUME NEW k \in 1..n PROVE Len(list[k]) \in Nat
    <3>1. list[k] \in Word
      BY <2>1
    <3> QED
      BY ONLY <3>1 DEF Word
  <2>3. ASSUME NEW k \in 1..n PROVE Before(ends, k) \in 0..m - 1
    <3>1. CASE k = 1
      BY <1>2, <3>1 DEF Before
    <3>2. CASE k # 1
      <4>1. k - 1 \in 1..n
        BY <1>2, <3>2
      <4>2. ends[k - 1] \in 1..m - 1
        BY <1>8, <4>1
      <4> QED
        BY <1>2, <3>2, <4>2 DEF Before
    <3> QED
      BY <3>1, <3>2
  <2> QED
    BY <2>2, <2>3
<1>10. /\ DOMAIN more = 1..n + 1 /\ more[n + 1] = m + Len(new)
       /\ \A k \in 1..n : more[k] = ends[k] /\ Before(more, k) = Before(ends, k)
       /\ Before(more, n + 1) = m - 1 /\ Before(more, n + 2) = m + Len(new)
  BY <1>2 DEF Before
<1>11. more = [k \in 1..n + 1 |-> more[k]]
  OBVIOUS
<1> HIDE DEF more
<1>12. ASSUME NEW k \in 1..n
       PROVE  /\ more[k] \in T!NULs(longer)
              /\ more[k] = Before(more, k) + Len(Append(list, new)[k]) + 1
              /\ \A i \in 1..Len(Append(list, new)[k]) :
                    longer[Before(more, k) + i] = Append(list, new)[k][i]
  <2>1. Append(list, new)[k] = list[k] /\ more[k] = ends[k] /\ Before(more, k) = Before(ends, k)
    BY <1>7, <1>10
  <2>2. ends[k] \in DOMAIN longer /\ longer[ends[k]] = T!NUL
    <3>1. ends[k] \in 1..m - 1 /\ ends[k] \in 1..Len(longer)
      BY <1>2, <1>4, <1>6, <1>8
    <3>2. memory[ends[k]] = T!NUL /\ DOMAIN longer = 1..Len(longer)
      BY <1>6, <1>8
    <3> QED
      BY <1>6, <3>1, <3>2
  <2>3. ASSUME NEW i \in 1..Len(list[k]) PROVE longer[Before(ends, k) + i] = list[k][i]
    <3>1. Before(ends, k) + i \in 1..m - 1
      <4>1. /\ ends[k] = Before(ends, k) + Len(list[k]) + 1 /\ ends[k] <= m - 1 /\ m \in Nat
            /\ ends[k] \in Nat
        BY <1>2, <1>8
      <4>2. Before(ends, k) \in Nat /\ Len(list[k]) \in Nat
        BY <1>2, <1>9
      <4>3. i \in Nat /\ 1 <= i /\ i <= Len(list[k])
        BY <4>2
      <4> QED
        BY ONLY <4>1, <4>2, <4>3
    <3>2. longer[Before(ends, k) + i] = memory[Before(ends, k) + i]
      BY <1>6, <3>1
    <3>3. memory[Before(ends, k) + i] = list[k][i]
      BY <1>8
    <3> QED
      BY ONLY <3>2, <3>3
  <2> QED
    BY <1>8, <2>1, <2>2, <2>3 DEF T!NULs
<1>13. /\ more[n + 1] \in T!NULs(longer)
       /\ more[n + 1] = Before(more, n + 1) + Len(Append(list, new)[n + 1]) + 1
       /\ \A i \in 1..Len(Append(list, new)[n + 1]) :
             longer[Before(more, n + 1) + i] = Append(list, new)[n + 1][i]
  <2>1. m + Len(new) \in DOMAIN longer
    BY <1>2, <1>4, <1>6
  <2>2. m + Len(new) \in T!NULs(longer)
    BY <1>6, <2>1 DEF T!NULs
  <2>3. m + Len(new) = m - 1 + Len(new) + 1
    BY <1>2, <1>4
  <2>4. /\ more[n + 1] = m + Len(new) /\ Before(more, n + 1) = m - 1
        /\ Append(list, new)[n + 1] = new
    BY <1>7, <1>10
  <2> QED
    BY <1>6, <2>2, <2>3, <2>4
<1>14. \A k \in 1..n + 1 : k \in 1..n \/ k = n + 1
  BY <1>2
<1>15. Laid(longer, Append(list, new), more)
  <2>1. more \in [1..n + 1 -> T!NULs(longer)]
    BY <1>10, <1>11, <1>12, <1>13, <1>14
  <2>2. n + 1 + 1 = n + 2
    BY <1>2
  <2> QED
    BY <1>6, <1>7, <1>10, <1>12, <1>13, <1>14, <2>1, <2>2 DEF Laid
<1> QED
  BY <1>3, <1>6, <1>15, HoldsLaid

\* A multistring that is begun holds its string.
LEMMA FirstString ==
    ASSUME NEW new \in Word
    PROVE  LET memory == T!AppendMultiSz(<<>>, new)
           IN  memory \in Seq(Char) /\ T!Holds(memory, <<new>>)
<1> DEFINE memory == new \o <<T!NUL, T!NUL>>
           n == Len(new)
           ends == [k \in 1..1 |-> n + 1]
<1>1. new \in Seq(Char) /\ n \in Nat
  BY DEF Word
<1>2. /\ memory \in Seq(Char) /\ Len(memory) = n + 2
      /\ \A i \in 1..n : memory[i] = new[i]
      /\ memory[n + 1] = T!NUL /\ memory[n + 2] = T!NUL
  BY <1>1, Ending
<1>3. T!AppendMultiSz(<<>>, new) = memory
  BY DEF T!AppendMultiSz
<1> HIDE DEF memory
<1>4. n + 1 \in T!NULs(memory)
  BY <1>1, <1>2 DEF T!NULs
<1>5. ends[1] = n + 1 /\ Before(ends, 1) = 0 /\ Before(ends, 2) = n + 1
  BY DEF Before
<1>6. Len(<<new>>) = 1 /\ <<new>>[1] = new
  OBVIOUS
<1>7. ends \in [1..1 -> T!NULs(memory)]
  BY <1>4
<1> HIDE DEF ends
<1>8. Laid(memory, <<new>>, ends)
  <2>1. \A k \in 1..1 : k = 1
    OBVIOUS
  <2> QED
    BY <1>1, <1>2, <1>5, <1>6, <1>7, <2>1 DEF Laid
<1> QED
  BY <1>2, <1>3, <1>8, HoldsLaid

\* A multistring is copied up to its end, and one without strings is its end.
LEMMA Copied ==
    ASSUME NEW memory \in Seq(Char), NEW list \in Seq(Word), T!Holds(memory, list), list # <<>>
    PROVE  T!CopyMulti(memory) = memory
<1> DEFINE m == Len(memory)
           EndsIn(i) == memory[i] = T!NUL /\ (i > 1 => memory[i - 1] = T!NUL)
           IsEnd(i) == EndsIn(i) /\ \A k \in 1..i - 1 : ~EndsIn(k)
           end == CHOOSE i \in DOMAIN memory : IsEnd(i)
<1>1. /\ m \in Nat /\ m >= 3 /\ memory[1] # T!NUL
      /\ \A p \in 1..m - 1 : memory[p] = T!NUL /\ memory[p + 1] = T!NUL <=> p = m - 1
  BY OneDouble, HoldsLaid
<1>2. memory # <<>> /\ DOMAIN memory = 1..m
  BY <1>1
<1>3. SubSeq(memory, 1, m) = memory
  OBVIOUS
<1> HIDE DEF m
<1>4. \A i \in 1..m : EndsIn(i) <=> i = m
  <2> SUFFICES ASSUME NEW i \in 1..m PROVE EndsIn(i) <=> i = m
    OBVIOUS
  <2>1. CASE i = 1
    BY <1>1, <2>1
  <2>2. CASE i # 1
    <3>1. i - 1 \in 1..m - 1 /\ i - 1 + 1 = i /\ (i - 1 = m - 1 <=> i = m)
      BY <1>1, <2>2
    <3>2. memory[i - 1] = T!NUL /\ memory[i] = T!NUL <=> i = m
      BY <1>1, <3>1
    <3> QED
      BY <1>1, <2>2, <3>2
  <2> QED
    BY <2>1, <2>2
<1> HIDE DEF EndsIn
<1>5. \A i \in DOMAIN memory : IsEnd(i) => i = m
  BY <1>4, <1>2
<1>6. m \in DOMAIN memory /\ IsEnd(m)
  <2>1. ASSUME NEW k \in 1..m - 1 PROVE ~EndsIn(k)
    BY <1>1, <1>4
  <2> QED
    BY <1>1, <1>4, <1>2, <2>1
<1> HIDE DEF IsEnd
<1>7. end = m
  BY <1>5, <1>6
<1>8. T!CopyMulti(memory) = SubSeq(memory, 1, end)
  BY <1>2 DEF T!CopyMulti, IsEnd, EndsIn
<1> QED
  BY <1>7, <1>8, <1>3

LEMMA NothingCopied == T!CopyMulti(<<>>) = <<T!NUL>> /\ T!Holds(T!CopyMulti(<<>>), <<>>)
<1> DEFINE memory == <<T!NUL>>
           ends == [k \in 1..0 |-> 0]
<1>1. T!CopyMulti(<<>>) = memory
  BY DEF T!CopyMulti
<1>2. Len(memory) = 1 /\ memory[1] = T!NUL
  OBVIOUS
<1> HIDE DEF memory
<1>3. ends \in [1..0 -> T!NULs(memory)] /\ Len(<<>>) = 0 /\ Before(ends, 1) = 0
  BY DEF Before
<1> HIDE DEF ends
<1>4. Laid(memory, <<>>, ends)
  BY <1>2, <1>3 DEF Laid
<1> QED
  BY <1>1, <1>4, HoldsLaid DEF memory

\* FoldLeft is one of the functions that satisfy the equation it is defined by; there is
\* one where a function is known to satisfy it.
LEMMA FoldedIsFixed ==
    ASSUME NEW list, NEW folded,
           folded = [s \in SUBSET DOMAIN list |->
                       IF s = {} THEN <<>>
                       ELSE T!AppendMultiSz(folded[s \ {T!Max(s)}], list[T!Max(s)])]
    PROVE  \E it : /\ it = [s \in SUBSET DOMAIN list |->
                              IF s = {} THEN <<>>
                              ELSE T!AppendMultiSz(it[s \ {T!Max(s)}], list[T!Max(s)])]
                   /\ T!FoldLeft(T!AppendMultiSz, <<>>, list) = it[DOMAIN list]
<1> DEFINE Fixed(it) == it = [s \in SUBSET DOMAIN list |->
                                IF s = {} THEN <<>>
                                ELSE T!AppendMultiSz(it[s \ {T!Max(s)}], list[T!Max(s)])]
<1>1. T!FoldLeft(T!AppendMultiSz, <<>>, list)
        = T!MapThenFoldSet(LAMBDA x, y : T!AppendMultiSz(y, x), <<>>, LAMBDA i : list[i],
                           LAMBDA S : T!Max(S), DOMAIN list)
  BY DEF T!FoldLeft
<1>2. @ = (CHOOSE it : Fixed(it))[DOMAIN list]
  BY DEF T!MapThenFoldSet
<1>3. Fixed(folded)
  OBVIOUS
<1>4. \E it : Fixed(it)
  BY <1>3
<1> HIDE DEF Fixed
<1>5. Fixed(CHOOSE it : Fixed(it))
  BY <1>4
<1> QED
  BY <1>1, <1>2, <1>5 DEF Fixed

\* The last of one position, and of two.
LEMMA MaxOfOne == ASSUME NEW i \in Nat PROVE T!Max({i}) = i
  BY DEF T!Max

LEMMA MaxOfTwo == T!Max({1, 2}) = 2
<1>1. \A x \in {1, 2} : (\A y \in {1, 2} : x >= y) <=> x = 2
  OBVIOUS
<1> QED
  BY <1>1 DEF T!Max

\* A list of at most two strings is put together from the first one on.
LEMMA FoldedNone == T!FoldLeft(T!AppendMultiSz, <<>>, <<>>) = <<>>
<1> DEFINE Sets == SUBSET DOMAIN <<>>
           folded == [s \in Sets |-> <<>>]
<1>1. Sets = {{}}
  OBVIOUS
<1> HIDE DEF Sets
<1>2. folded = [s \in Sets |-> IF s = {} THEN <<>>
                               ELSE T!AppendMultiSz(folded[s \ {T!Max(s)}], <<>>[T!Max(s)])]
  BY <1>1
<1> HIDE DEF folded
<1>3. PICK it : /\ it = [s \in Sets |-> IF s = {} THEN <<>>
                              ELSE T!AppendMultiSz(it[s \ {T!Max(s)}], <<>>[T!Max(s)])]
                /\ T!FoldLeft(T!AppendMultiSz, <<>>, <<>>) = it[DOMAIN <<>>]
  BY <1>2, FoldedIsFixed DEF Sets
<1>4. DOMAIN <<>> = {}
  OBVIOUS
<1> QED
  BY <1>1, <1>3, <1>4

LEMMA FoldedOne ==
    ASSUME NEW a
    PROVE  T!FoldLeft(T!AppendMultiSz, <<>>, <<a>>) = T!AppendMultiSz(<<>>, a)
<1> DEFINE list == <<a>>
           Sets == SUBSET DOMAIN list
           folded == [s \in Sets |-> IF s = {} THEN <<>> ELSE T!AppendMultiSz(<<>>, a)]
<1>1. Sets = {{}, {1}} /\ DOMAIN list = {1} /\ list[1] = a /\ {1} # {}
  <2>1. DOMAIN list = {1}
    OBVIOUS
  <2>2. \A s \in SUBSET {1} : s = {} \/ s = {1}
    OBVIOUS
  <2> QED
    BY <2>1, <2>2
<1>2. {1} \ {T!Max({1})} = {} /\ T!Max({1}) = 1
  BY MaxOfOne
<1> HIDE DEF list, Sets
<1>3. folded[{}] = <<>> /\ folded[{1}] = T!AppendMultiSz(<<>>, a)
  BY <1>1
<1>4. folded = [s \in Sets |-> IF s = {} THEN <<>>
                               ELSE T!AppendMultiSz(folded[s \ {T!Max(s)}], list[T!Max(s)])]
  BY <1>1, <1>2, <1>3
<1> HIDE DEF folded
<1>5. PICK it : /\ it = [s \in Sets |-> IF s = {} THEN <<>>
                              ELSE T!AppendMultiSz(it[s \ {T!Max(s)}], list[T!Max(s)])]
                /\ T!FoldLeft(T!AppendMultiSz, <<>>, list) = it[DOMAIN list]
  BY <1>4, FoldedIsFixed DEF Sets
<1>6. it[{}] = <<>>
  BY <1>1, <1>5
<1>7. it[{1}] = T!AppendMultiSz(<<>>, a)
  BY <1>1, <1>2, <1>5, <1>6
<1> QED
  BY <1>1, <1>5, <1>7 DEF list

LEMMA FoldedPair ==
    ASSUME NEW a, NEW b
    PROVE  T!FoldLeft(T!AppendMultiSz, <<>>, <<a, b>>) = T!AppendMultiSz(T!AppendMultiSz(<<>>, a), b)
<1> DEFINE list == <<a, b>>
           Sets == SUBSET DOMAIN list
           once == T!AppendMultiSz(<<>>, a)
           folded == [s \in Sets |-> IF s = {} THEN <<>>
                                     ELSE IF s = {1} THEN once
                                     ELSE IF s = {2} THEN T!AppendMultiSz(<<>>, b)
                                     ELSE T!AppendMultiSz(once, b)]
<1>1. Sets = {{}, {1}, {2}, {1, 2}} /\ DOMAIN list = {1, 2} /\ list[1] = a /\ list[2] = b
  <2>1. DOMAIN list = {1, 2}
    OBVIOUS
  <2>2. \A s \in SUBSET {1, 2} : s = {} \/ s = {1} \/ s = {2} \/ s = {1, 2}
    OBVIOUS
  <2> QED
    BY <2>1, <2>2
<1>2. {1} \ {T!Max({1})} = {} /\ {2} \ {T!Max({2})} = {} /\ {1, 2} \ {T!Max({1, 2})} = {1}
      /\ T!Max({1}) = 1 /\ T!Max({2}) = 2 /\ T!Max({1, 2}) = 2
  BY MaxOfOne, MaxOfTwo
<1> HIDE DEF list, Sets, once
<1>3. {1} # {} /\ {2} # {} /\ {1, 2} # {} /\ {2} # {1} /\ {1, 2} # {1} /\ {1, 2} # {2}
  OBVIOUS
<1>4. /\ folded[{}] = <<>> /\ folded[{1}] = once /\ folded[{2}] = T!AppendMultiSz(<<>>, b)
      /\ folded[{1, 2}] = T!AppendMultiSz(once, b)
  BY <1>1, <1>3
<1>5. ASSUME NEW s \in Sets
      PROVE  folded[s] = IF s = {} THEN <<>>
                         ELSE T!AppendMultiSz(folded[s \ {T!Max(s)}], list[T!Max(s)])
  BY <1>1, <1>2, <1>4 DEF once
<1>6. folded = [s \in Sets |-> IF s = {} THEN <<>>
                                   ELSE T!AppendMultiSz(folded[s \ {T!Max(s)}], list[T!Max(s)])]
  BY <1>5
<1> HIDE DEF folded
<1>7. PICK it : /\ it = [s \in Sets |-> IF s = {} THEN <<>>
                              ELSE T!AppendMultiSz(it[s \ {T!Max(s)}], list[T!Max(s)])]
                /\ T!FoldLeft(T!AppendMultiSz, <<>>, list) = it[DOMAIN list]
  BY <1>6, FoldedIsFixed DEF Sets
<1>8. it[{}] = <<>>
  BY <1>1, <1>7
<1>9. it[{1}] = once
  BY <1>1, <1>2, <1>7, <1>8 DEF once
<1>10. it[{1, 2}] = T!AppendMultiSz(once, b)
  BY <1>1, <1>2, <1>7, <1>9
<1> QED
  BY <1>1, <1>7, <1>10 DEF list, once

\* An error or a string of a list is a text.
LEMMA MessagesAreWords == Messages \subseteq Word
<1> SUFFICES ASSUME NEW m \in Messages PROVE m \in Word
  OBVIOUS
<1>1. m \in Seq(STRING) /\ m # <<>> /\ \A i \in DOMAIN m : m[i] # T!NUL
  BY MessagesAssumption
<1>2. m \in Seq(Char) /\ DOMAIN m = 1..Len(m)
  <2>1. DOMAIN m = 1..Len(m) /\ Len(m) \in Nat /\ \A i \in 1..Len(m) : m[i] \in STRING
    BY <1>1
  <2>2. \A i \in 1..Len(m) : m[i] \in Char
    BY <2>1 DEF Char
  <2>3. m = [i \in 1..Len(m) |-> m[i]]
    BY <1>1
  <2>4. m \in [1..Len(m) -> Char]
    BY <2>2, <2>3
  <2> QED
    BY <2>1, <2>4
<1> QED
  BY <1>1, <1>2 DEF Word

\* Two strings.
LEMMA AppendPair ==
    ASSUME NEW S, NEW a \in S, NEW b \in S
    PROVE  Append(<<a>>, b) = <<a, b>>
<1>1. <<a>> \in Seq(S) /\ Len(<<a>>) = 1 /\ <<a>>[1] = a
  OBVIOUS
<1>2. <<a, b>> \in Seq(S) /\ Len(<<a, b>>) = 2 /\ <<a, b>>[1] = a /\ <<a, b>>[2] = b
  OBVIOUS
<1>3. Append(<<a>>, b) \in Seq(S) /\ Len(Append(<<a>>, b)) = 2 /\ Append(<<a>>, b)[1] = a /\ Append(<<a>>, b)[2] = b
  BY <1>1
<1> DEFINE one == Append(<<a>>, b)
           two == <<a, b>>
<1>4. /\ one \in Seq(S) /\ two \in Seq(S) /\ Len(one) = Len(two)
      /\ \A i \in 1..Len(one) : one[i] = two[i]
  BY <1>2, <1>3
<1> HIDE DEF one, two
<1>5. one = two
  BY <1>4, SeqEqual
<1> QED
  BY <1>5 DEF one, two

LEMMA ErrorsAreWords == ASSUME NEW errors \in Seq(Messages) PROVE errors \in Seq(Word)
<1>1. DOMAIN errors = 1..Len(errors) /\ Len(errors) \in Nat
      /\ \A i \in 1..Len(errors) : errors[i] \in Messages
  OBVIOUS
<1>2. \A i \in 1..Len(errors) : errors[i] \in Word
  BY <1>1, MessagesAreWords
<1>3. errors = [i \in 1..Len(errors) |-> errors[i]]
  BY <1>1
<1>4. errors \in [1..Len(errors) -> Word]
  BY <1>2, <1>3
<1> QED
  BY <1>1, <1>4

\* One string.
LEMMA AppendFirst == ASSUME NEW a PROVE Append(<<>>, a) = <<a>>
<1> DEFINE S == {a}
           one == Append(<<>>, a)
           two == <<a>>
<1>1. two \in Seq(S) /\ Len(two) = 1 /\ two[1] = a
  OBVIOUS
<1>2. <<>> \in Seq(S) /\ Len(<<>>) = 0 /\ a \in S
  OBVIOUS
<1>3. one \in Seq(S) /\ Len(one) = 1 /\ one[1] = a
  BY <1>2
<1>4. /\ one \in Seq(S) /\ two \in Seq(S) /\ Len(one) = Len(two)
      /\ \A i \in 1..Len(one) : one[i] = two[i]
  BY <1>1, <1>3
<1> HIDE DEF one, two
<1>5. one = two
  BY <1>4, SeqEqual
<1> QED
  BY <1>5 DEF one, two

\* The attribute made of a list holds the list.
LEMMA ListsAreHeld ==
    ASSUME NEW list \in T!Lists
    PROVE  T!Holds(T!CopyMulti(T!FoldLeft(T!AppendMultiSz, <<>>, list)), list)
<1>1. CASE list = <<>>
  BY <1>1, FoldedNone, NothingCopied
<1>2. ASSUME NEW a \in Messages, list = <<a>>
      PROVE  T!Holds(T!CopyMulti(T!FoldLeft(T!AppendMultiSz, <<>>, list)), list)
  <2> DEFINE memory == T!AppendMultiSz(<<>>, a)
  <2>1. memory \in Seq(Char) /\ T!Holds(memory, list)
    BY <1>2, FirstString, MessagesAreWords
  <2> HIDE DEF memory
  <2>2. list \in Seq(Word) /\ list # <<>>
    BY <1>2, MessagesAreWords
  <2>3. T!CopyMulti(memory) = memory
    BY <2>1, <2>2, Copied
  <2> QED
    BY <1>2, <2>1, <2>3, FoldedOne DEF memory
<1>3. ASSUME NEW a \in Messages, NEW b \in Messages, list = <<a, b>>
      PROVE  T!Holds(T!CopyMulti(T!FoldLeft(T!AppendMultiSz, <<>>, list)), list)
  <2> DEFINE once == T!AppendMultiSz(<<>>, a)
             memory == T!AppendMultiSz(once, b)
  <2>1. once \in Seq(Char) /\ T!Holds(once, <<a>>)
    BY FirstString, MessagesAreWords
  <2> HIDE DEF once
  <2>2. <<a>> \in Seq(Word) /\ <<a>> # <<>> /\ Append(<<a>>, b) = list /\ b \in Word
    <3>1. a \in Word /\ b \in Word
      BY MessagesAreWords
    <3>2. <<a>> \in Seq(Word) /\ <<a>> # <<>>
      BY <3>1
    <3>3. Append(<<a>>, b) = <<a, b>>
      BY AppendPair
    <3> QED
      BY <1>3, <3>1, <3>2, <3>3
  <2>3. memory \in Seq(Char) /\ T!Holds(memory, list)
    BY <2>1, <2>2, OneStringMore
  <2> HIDE DEF memory
  <2>4. list \in Seq(Word) /\ list # <<>>
    BY <1>3, MessagesAreWords
  <2>5. T!CopyMulti(memory) = memory
    BY <2>3, <2>4, Copied
  <2> QED
    BY <1>3, <2>3, <2>5, FoldedPair DEF memory, once
<1> QED
  BY <1>1, <1>2, <1>3 DEF T!Lists

----------------------------------------------------------------------------
(* The report: the tree.                                                    *)

Shaped(node) ==
    /\ node = [name |-> node.name, kind |-> node.kind,
               children |-> node.children, attributes |-> node.attributes]
    /\ IsList(node.attributes) /\ IsList(node.children)

IsTree(tree) == IsList(tree) /\ Len(tree) >= 1 /\ \A n \in DOMAIN tree : Shaped(tree[n])

\* A child is made after its parent, and has no other one.
Linked(tree) ==
    /\ \A n \in DOMAIN tree : \A i \in DOMAIN tree[n].children :
          tree[n].children[i] \in n + 1..Len(tree)
    /\ \A m \in DOMAIN tree \ {1} :
          \E n \in 1..m - 1 : \E i \in DOMAIN tree[n].children : tree[n].children[i] = m
    /\ \A n, k \in DOMAIN tree : \A i \in DOMAIN tree[n].children, j \in DOMAIN tree[k].children :
          tree[n].children[i] = tree[k].children[j] => n = k /\ i = j

\* A child is a table of devices.
IsDevices(tree, n, i) == tree[tree[n].children[i]].name = "Devices"

\* A table of devices is a table, and the only one of its parent unless that is a table.
DevicesApart(tree) ==
    \A n \in DOMAIN tree :
        /\ tree[n].name = "Devices" => tree[n].kind = "table"
        /\ tree[n].kind # "table" =>
              \A i, j \in DOMAIN tree[n].children :
                  IsDevices(tree, n, i) /\ IsDevices(tree, n, j) => i = j

TreeInv(tree) == IsTree(tree) /\ Linked(tree) /\ DevicesApart(tree)

\* A new node is one more child of its parent, and changes nothing else.
LEMMA TreeGrows ==
    ASSUME NEW tree, IsTree(tree), NEW n \in DOMAIN tree, NEW name, NEW kind
    PROVE  LET new == T!AppendNew(tree, n, name, kind)
           IN  /\ IsTree(new) /\ Len(new) = Len(tree) + 1
               /\ Len(tree) \in Nat /\ DOMAIN tree = 1..Len(tree) /\ DOMAIN new = 1..Len(tree) + 1
               /\ new[Len(tree) + 1] = T!Node(name, kind)
               /\ \A i \in DOMAIN tree :
                     /\ new[i].attributes = tree[i].attributes
                     /\ new[i].name = tree[i].name /\ new[i].kind = tree[i].kind
                     /\ i # n => new[i].children = tree[i].children
               /\ new[n].children = Append(tree[n].children, Len(tree) + 1)
<1> DEFINE linked == [tree EXCEPT ![n].children = Append(@, Len(tree) + 1)]
           new == Append(linked, T!Node(name, kind))
<1>1. /\ DOMAIN tree = 1..Len(tree) /\ Len(tree) \in Nat /\ Len(tree) >= 1
      /\ DOMAIN linked = DOMAIN tree
  BY DEF IsTree, IsList
<1>2. ASSUME NEW i \in DOMAIN tree
      PROVE  /\ Shaped(linked[i]) /\ linked[i].attributes = tree[i].attributes
             /\ linked[i].name = tree[i].name /\ linked[i].kind = tree[i].kind
             /\ i # n => linked[i].children = tree[i].children
             /\ i = n => linked[i].children = Append(tree[i].children, Len(tree) + 1)
  <2>1. Shaped(tree[i])
    BY DEF IsTree
  <2>2. CASE i = n
    <3>1. linked[i] = [tree[i] EXCEPT !.children = Append(@, Len(tree) + 1)]
      BY <2>2
    <3>2. IsList(Append(tree[i].children, Len(tree) + 1))
      BY <2>1, Appending DEF Shaped
    <3> QED
      BY <2>1, <2>2, <3>1, <3>2 DEF Shaped
  <2>3. CASE i # n
    BY <2>1, <2>3
  <2> QED
    BY <2>2, <2>3
<1>3. linked = [i \in 1..Len(tree) |-> linked[i]]
  BY <1>1
<1> HIDE DEF linked
<1>4. IsList(linked) /\ Len(linked) = Len(tree)
  BY <1>1, <1>3, Listing
<1>5. /\ IsList(new) /\ Len(new) = Len(tree) + 1 /\ DOMAIN new = 1..(Len(tree) + 1)
      /\ \A i \in DOMAIN tree : new[i] = linked[i]
      /\ new[Len(tree) + 1] = T!Node(name, kind)
  BY <1>1, <1>4, Appending
<1>6. Shaped(T!Node(name, kind))
  BY DEF Shaped, T!Node, IsList
<1>7. new = T!AppendNew(tree, n, name, kind)
  BY DEF T!AppendNew, linked
<1> HIDE DEF new
<1>8. ASSUME NEW i \in DOMAIN new PROVE Shaped(new[i])
  <2>1. i \in DOMAIN tree \/ i = Len(tree) + 1
    BY <1>1, <1>5
  <2> QED
    BY <1>2, <1>5, <1>6, <2>1
<1>9. IsTree(new)
  BY <1>1, <1>5, <1>8 DEF IsTree
<1>10. \A i \in DOMAIN tree :
          /\ new[i].attributes = tree[i].attributes
          /\ new[i].name = tree[i].name /\ new[i].kind = tree[i].kind
          /\ i # n => new[i].children = tree[i].children
  BY <1>2, <1>5
<1>11. new[n].children = Append(tree[n].children, Len(tree) + 1)
  BY <1>2, <1>5
<1> QED
  BY <1>1, <1>5, <1>7, <1>9, <1>10, <1>11

\* Where a new node may go: anywhere, unless it is a second table of devices.
MayJoin(tree, n, name, kind) ==
    /\ name = "Devices" => kind = "table"
    /\ tree[n].kind # "table" /\ name = "Devices" =>
          \A i \in DOMAIN tree[n].children : ~IsDevices(tree, n, i)

\* A child of the tree before the new node is one, in its place, after.
LEMMA ChildrenGrow ==
    ASSUME NEW tree, IsTree(tree), NEW n \in DOMAIN tree, NEW name, NEW kind,
           NEW k \in 1..Len(tree) + 1
    PROVE  LET new == T!AppendNew(tree, n, name, kind)
           IN  IF k = n
               THEN /\ DOMAIN new[k].children = 1..Len(tree[k].children) + 1
                    /\ Len(tree[k].children) \in Nat /\ DOMAIN tree[k].children = 1..Len(tree[k].children)
                    /\ \A i \in DOMAIN tree[k].children : new[k].children[i] = tree[k].children[i]
                    /\ new[k].children[Len(tree[k].children) + 1] = Len(tree) + 1
               ELSE IF k = Len(tree) + 1 THEN new[k].children = <<>>
               ELSE k \in DOMAIN tree /\ new[k].children = tree[k].children
<1> DEFINE new == T!AppendNew(tree, n, name, kind)
<1>1. /\ Len(tree) \in Nat /\ DOMAIN tree = 1..Len(tree)
      /\ new[Len(tree) + 1] = T!Node(name, kind)
      /\ \A i \in DOMAIN tree : i # n => new[i].children = tree[i].children
      /\ new[n].children = Append(tree[n].children, Len(tree) + 1)
  BY TreeGrows
<1> HIDE DEF new
<1>2. IsList(tree[n].children)
  BY DEF IsTree, Shaped
<1>3. CASE k = n
  <2> DEFINE old == tree[n].children
             more == Append(old, Len(tree) + 1)
  <2>1. /\ Len(old) \in Nat /\ DOMAIN old = 1..Len(old) /\ DOMAIN more = 1..Len(old) + 1
        /\ \A i \in DOMAIN old : more[i] = old[i]
        /\ more[Len(old) + 1] = Len(tree) + 1
    <3> HIDE DEF old
    <3>1. IsList(old)
      BY <1>2 DEF old
    <3> QED
      BY <3>1, Appending
  <2>2. new[k].children = more /\ tree[k].children = old
    BY <1>1, <1>3
  <2> HIDE DEF old, more
  <2>3. /\ DOMAIN new[k].children = 1..Len(tree[k].children) + 1
        /\ Len(tree[k].children) \in Nat /\ DOMAIN tree[k].children = 1..Len(tree[k].children)
        /\ \A i \in DOMAIN tree[k].children : new[k].children[i] = tree[k].children[i]
        /\ new[k].children[Len(tree[k].children) + 1] = Len(tree) + 1
    BY ONLY <2>1, <2>2
  <2> QED
    BY <1>3, <2>3 DEF new
<1>4. CASE k # n /\ k = Len(tree) + 1
  BY <1>1, <1>4 DEF T!Node, new
<1>5. CASE k # n /\ k # Len(tree) + 1
  BY <1>1, <1>5 DEF new
<1> QED
  BY <1>3, <1>4, <1>5

\* A new node is the child of its parent alone.
LEMMA LinksGrow ==
    ASSUME NEW tree, IsTree(tree), Linked(tree), NEW n \in DOMAIN tree, NEW name, NEW kind
    PROVE  Linked(T!AppendNew(tree, n, name, kind))
<1> DEFINE new == T!AppendNew(tree, n, name, kind)
           N == Len(tree)
           place == Len(tree[n].children) + 1
<1>1. /\ N \in Nat /\ DOMAIN tree = 1..N /\ DOMAIN new = 1..N + 1 /\ Len(new) = N + 1
  BY TreeGrows
<1>2. /\ DOMAIN new[n].children = 1..place /\ place \in Nat /\ place >= 1
      /\ DOMAIN tree[n].children = 1..place - 1
      /\ \A i \in 1..place - 1 : new[n].children[i] = tree[n].children[i]
      /\ new[n].children[place] = N + 1
  <2>1. n \in 1..Len(tree) + 1
    BY <1>1
  <2>2. /\ DOMAIN new[n].children = 1..Len(tree[n].children) + 1
        /\ Len(tree[n].children) \in Nat /\ DOMAIN tree[n].children = 1..Len(tree[n].children)
        /\ \A i \in DOMAIN tree[n].children : new[n].children[i] = tree[n].children[i]
        /\ new[n].children[Len(tree[n].children) + 1] = Len(tree) + 1
    BY <2>1, ChildrenGrow
  <2> HIDE DEF new
  <2> QED
    BY <2>2
<1>3. new[N + 1].children = <<>>
  <2>1. N + 1 \in 1..Len(tree) + 1 /\ N + 1 # n
    BY <1>1
  <2> QED
    BY <2>1, ChildrenGrow
<1>4. \A k \in DOMAIN tree : k # n => new[k].children = tree[k].children
  BY TreeGrows
<1> HIDE DEF new, N, place
<1>5. ASSUME NEW k \in DOMAIN new, NEW i \in DOMAIN new[k].children
      PROVE  \/ k = n /\ i = place /\ new[k].children[i] = N + 1
             \/ /\ k \in DOMAIN tree /\ i \in DOMAIN tree[k].children
                /\ new[k].children[i] = tree[k].children[i]
                /\ new[k].children[i] \in k + 1..N
  <2>1. CASE k = n
    <3>1. i \in 1..place - 1 \/ i = place
      BY <1>2, <2>1
    <3>2. CASE i \in 1..place - 1
      <4>1. i \in DOMAIN tree[n].children /\ tree[n].children[i] \in n + 1..N
        BY <1>2, <3>2 DEF Linked, N
      <4> QED
        BY <1>2, <2>1, <3>2, <4>1
    <3> QED
      BY <1>2, <2>1, <3>1, <3>2
  <2>2. CASE k = N + 1 /\ k # n
    BY <1>3, <2>2
  <2>3. CASE k \in DOMAIN tree /\ k # n
    BY <1>4, <2>3 DEF Linked, N
  <2> QED
    BY <1>1, <2>1, <2>2, <2>3
<1>6. ASSUME NEW k \in DOMAIN tree, NEW i \in DOMAIN tree[k].children
      PROVE  i \in DOMAIN new[k].children /\ new[k].children[i] = tree[k].children[i]
  BY <1>2, <1>4
<1>7. ASSUME NEW k \in DOMAIN new, NEW i \in DOMAIN new[k].children
      PROVE  new[k].children[i] \in k + 1..Len(new)
  BY <1>1, <1>5
<1>8. ASSUME NEW m \in DOMAIN new \ {1}
      PROVE  \E k \in 1..m - 1 : \E i \in DOMAIN new[k].children : new[k].children[i] = m
  <2>1. CASE m = N + 1
    <3>1. n \in 1..m - 1 /\ place \in DOMAIN new[n].children /\ new[n].children[place] = m
      BY <1>1, <1>2, <2>1
    <3> QED
      BY <3>1
  <2>2. CASE m # N + 1
    <3>1. m \in DOMAIN tree \ {1}
      BY <1>1, <2>2
    <3>2. PICK k \in 1..m - 1 : \E i \in DOMAIN tree[k].children : tree[k].children[i] = m
      BY <3>1 DEF Linked
    <3>3. k \in DOMAIN tree
      BY <1>1, <3>1
    <3> QED
      BY <1>6, <3>2, <3>3
  <2> QED
    BY <2>1, <2>2
<1>9. ASSUME NEW k \in DOMAIN new, NEW l \in DOMAIN new, NEW i \in DOMAIN new[k].children,
             NEW j \in DOMAIN new[l].children, new[k].children[i] = new[l].children[j]
      PROVE  k = l /\ i = j
  <2>1. CASE new[k].children[i] = N + 1
    <3>1. k = n /\ i = place
      BY <1>1, <1>5, <2>1
    <3>2. l = n /\ j = place
      <4>1. new[l].children[j] = N + 1
        BY <1>9, <2>1
      <4>2. ~(new[l].children[j] \in l + 1..N)
        BY <1>1, <4>1
      <4> QED
        BY <1>5, <4>2
    <3> QED
      BY <3>1, <3>2
  <2>2. CASE new[k].children[i] # N + 1
    <3>1. /\ k \in DOMAIN tree /\ i \in DOMAIN tree[k].children
          /\ new[k].children[i] = tree[k].children[i]
      BY <1>5, <2>2
    <3>2. /\ l \in DOMAIN tree /\ j \in DOMAIN tree[l].children
          /\ new[l].children[j] = tree[l].children[j]
      BY <1>5, <1>9, <2>2
    <3>3. tree[k].children[i] = tree[l].children[j]
      BY <1>9, <3>1, <3>2
    <3> QED
      BY <3>1, <3>2, <3>3 DEF Linked
  <2> QED
    BY <2>1, <2>2
<1>10. Linked(new)
  BY <1>7, <1>8, <1>9 DEF Linked
<1> QED
  BY <1>10 DEF new

\* A new node that may join its parent leaves the tables of devices apart.
LEMMA NamesGrow ==
    ASSUME NEW tree, TreeInv(tree), NEW n \in DOMAIN tree, NEW name, NEW kind,
           MayJoin(tree, n, name, kind)
    PROVE  DevicesApart(T!AppendNew(tree, n, name, kind))
<1> DEFINE new == T!AppendNew(tree, n, name, kind)
           N == Len(tree)
           NameOf(k, i) == new[new[k].children[i]].name
<1>1. /\ N \in Nat /\ DOMAIN tree = 1..N /\ DOMAIN new = 1..N + 1
      /\ new[N + 1] = T!Node(name, kind)
      /\ \A i \in DOMAIN tree : new[i].name = tree[i].name /\ new[i].kind = tree[i].kind
  BY TreeGrows DEF TreeInv
<1>2. new[N + 1].name = name /\ new[N + 1].kind = kind /\ new[N + 1].children = <<>>
  BY <1>1 DEF T!Node
<1>3. Linked(tree) /\ DevicesApart(tree) /\ IsTree(tree)
  BY DEF TreeInv
<1>4. ASSUME NEW k \in DOMAIN tree, k # n, NEW i \in DOMAIN new[k].children
      PROVE  /\ i \in DOMAIN tree[k].children /\ new[k].children = tree[k].children
             /\ NameOf(k, i) = tree[tree[k].children[i]].name
  <2>1. new[k].children = tree[k].children
    BY <1>3, <1>4, TreeGrows
  <2>2. tree[k].children[i] \in DOMAIN tree
    BY <1>1, <1>3, <1>4, <2>1 DEF Linked
  <2> HIDE DEF new
  <2> QED
    BY <1>1, <1>4, <2>1, <2>2
<1>5. ASSUME NEW i \in DOMAIN new[n].children
      PROVE  \/ i = Len(tree[n].children) + 1 /\ NameOf(n, i) = name
             \/ i \in DOMAIN tree[n].children /\ NameOf(n, i) = tree[tree[n].children[i]].name
  <2>1. n \in 1..Len(tree) + 1
    BY <1>1
  <2>2. /\ DOMAIN new[n].children = 1..Len(tree[n].children) + 1
        /\ Len(tree[n].children) \in Nat /\ DOMAIN tree[n].children = 1..Len(tree[n].children)
        /\ \A j \in DOMAIN tree[n].children : new[n].children[j] = tree[n].children[j]
        /\ new[n].children[Len(tree[n].children) + 1] = Len(tree) + 1
    BY <1>3, <2>1, ChildrenGrow
  <2> HIDE DEF new
  <2>3. CASE i = Len(tree[n].children) + 1
    BY <1>2, <2>2, <2>3
  <2>4. CASE i \in DOMAIN tree[n].children
    <3>1. tree[n].children[i] \in DOMAIN tree
      BY <1>1, <1>3, <2>4 DEF Linked
    <3> QED
      BY <1>1, <2>2, <2>4, <3>1
  <2> QED
    BY <2>2, <2>3, <2>4
<1> HIDE DEF new, N
<1>6. ASSUME NEW k \in DOMAIN new
      PROVE  new[k].name = "Devices" => new[k].kind = "table"
  <2>1. CASE k \in DOMAIN tree
    BY <1>1, <1>3, <2>1 DEF DevicesApart
  <2>2. CASE k = N + 1
    BY <1>2, <2>2 DEF MayJoin
  <2> QED
    BY <1>1, <2>1, <2>2
<1>7. ASSUME NEW k \in DOMAIN new, new[k].kind # "table"
      PROVE  \A i, j \in DOMAIN new[k].children :
                NameOf(k, i) = "Devices" /\ NameOf(k, j) = "Devices" => i = j
  <2>1. CASE k \in DOMAIN tree /\ k # n
    <3> HIDE DEF NameOf
    <3>1. tree[k].kind # "table"
      BY <1>1, <1>7, <2>1
    <3> QED
      BY <1>3, <1>4, <2>1, <3>1 DEF DevicesApart, IsDevices
  <2>2. CASE k = n
    <3> HIDE DEF NameOf
    <3>1. tree[n].kind # "table"
      BY <1>1, <1>7, <2>2
    <3>2. name = "Devices" =>
             \A i \in DOMAIN tree[n].children : tree[tree[n].children[i]].name # "Devices"
      BY <3>1 DEF MayJoin, IsDevices
    <3>3. \A i, j \in DOMAIN tree[n].children :
             /\ tree[tree[n].children[i]].name = "Devices"
             /\ tree[tree[n].children[j]].name = "Devices"
             => i = j
      BY <1>3, <3>1 DEF DevicesApart, IsDevices
    <3> QED
      BY <1>5, <2>2, <3>2, <3>3
  <2>3. CASE k = N + 1
    BY <1>2, <2>3
  <2> QED
    BY <1>1, <2>1, <2>2, <2>3
<1>8. DevicesApart(new)
  BY <1>6, <1>7 DEF DevicesApart, IsDevices
<1> QED
  BY <1>8 DEF new

\* A new node in a place it may have leaves the tree a tree.
LEMMA TreeGrown ==
    ASSUME NEW tree, TreeInv(tree), NEW n \in DOMAIN tree, NEW name, NEW kind,
           MayJoin(tree, n, name, kind)
    PROVE  LET new == T!AppendNew(tree, n, name, kind)
           IN  /\ TreeInv(new) /\ Len(new) = Len(tree) + 1
               /\ Len(tree) \in Nat /\ DOMAIN tree = 1..Len(tree) /\ DOMAIN new = 1..Len(tree) + 1
               /\ new[Len(tree) + 1] = T!Node(name, kind)
               /\ \A i \in DOMAIN tree :
                     new[i].attributes = tree[i].attributes /\ new[i].kind = tree[i].kind
<1> DEFINE new == T!AppendNew(tree, n, name, kind)
<1>1. /\ IsTree(new) /\ Len(new) = Len(tree) + 1
      /\ Len(tree) \in Nat /\ DOMAIN tree = 1..Len(tree) /\ DOMAIN new = 1..Len(tree) + 1
      /\ new[Len(tree) + 1] = T!Node(name, kind)
      /\ \A i \in DOMAIN tree :
            new[i].attributes = tree[i].attributes /\ new[i].kind = tree[i].kind
  BY TreeGrows DEF TreeInv
<1>2. Linked(new)
  BY LinksGrow DEF TreeInv
<1>3. DevicesApart(new)
  BY NamesGrow
<1> HIDE DEF new
<1>4. TreeInv(new)
  BY <1>1, <1>2, <1>3 DEF TreeInv
<1> QED
  BY <1>1, <1>4 DEF new

\* Other attributes of a node leave the tree a tree.
LEMMA TreeKept ==
    ASSUME NEW tree, TreeInv(tree), NEW n \in DOMAIN tree, NEW atts, IsList(atts)
    PROVE  LET new == [tree EXCEPT ![n].attributes = atts]
           IN  /\ TreeInv(new) /\ Len(new) = Len(tree) /\ DOMAIN new = DOMAIN tree
               /\ new[n].attributes = atts
               /\ \A i \in DOMAIN tree : i # n => new[i].attributes = tree[i].attributes
<1> DEFINE new == [tree EXCEPT ![n].attributes = atts]
<1>1. /\ IsTree(tree) /\ Linked(tree) /\ DevicesApart(tree)
      /\ DOMAIN tree = 1..Len(tree) /\ Len(tree) \in Nat /\ Len(tree) >= 1
      /\ \A i \in DOMAIN tree : Shaped(tree[i])
  BY DEF TreeInv, IsTree, IsList
<1>2. /\ DOMAIN new = DOMAIN tree
      /\ new[n] = [tree[n] EXCEPT !.attributes = atts]
      /\ \A i \in DOMAIN tree : i # n => new[i] = tree[i]
  OBVIOUS
<1>3. /\ Shaped(new[n]) /\ new[n].attributes = atts
      /\ new[n].name = tree[n].name /\ new[n].kind = tree[n].kind
      /\ new[n].children = tree[n].children
  <2> HIDE DEF new
  <2> QED
    BY <1>1, <1>2 DEF Shaped
<1>4. new = [i \in 1..Len(tree) |-> new[i]]
  BY <1>1, <1>2
<1> HIDE DEF new
<1>5. IsList(new) /\ Len(new) = Len(tree)
  BY <1>1, <1>4, Listing
<1>6. IsTree(new)
  BY <1>1, <1>2, <1>3, <1>5 DEF IsTree
<1>7. \A i \in DOMAIN tree :
         /\ new[i].children = tree[i].children /\ new[i].name = tree[i].name
         /\ new[i].kind = tree[i].kind
  BY <1>2, <1>3
<1>8. Linked(new)
  <2>1. \A i \in DOMAIN new : new[i].children = tree[i].children
    BY <1>2, <1>7
  <2>2. \A m \in DOMAIN new : \A k \in 1..m - 1 : k \in DOMAIN new
    BY <1>1, <1>2
  <2>3. ASSUME NEW m \in DOMAIN new \ {1}
        PROVE  \E k \in 1..m - 1 : \E i \in DOMAIN new[k].children : new[k].children[i] = m
    <3>1. PICK k \in 1..m - 1 : \E i \in DOMAIN tree[k].children : tree[k].children[i] = m
      BY <1>1, <1>2 DEF Linked
    <3> QED
      BY <2>1, <2>2, <3>1
  <2>4. \A k \in DOMAIN new : \A i \in DOMAIN new[k].children : new[k].children[i] \in k + 1..Len(new)
    BY <1>1, <1>2, <1>5, <2>1 DEF Linked
  <2>5. \A k, l \in DOMAIN new : \A i \in DOMAIN new[k].children, j \in DOMAIN new[l].children :
           new[k].children[i] = new[l].children[j] => k = l /\ i = j
    BY <1>1, <1>2, <2>1 DEF Linked
  <2> QED
    BY <2>3, <2>4, <2>5 DEF Linked
<1>9. DevicesApart(new)
  <2>1. ASSUME NEW k \in DOMAIN tree, NEW i \in DOMAIN tree[k].children
        PROVE  tree[k].children[i] \in DOMAIN tree
    BY <1>1 DEF Linked
  <2>2. ASSUME NEW k \in DOMAIN tree, NEW i \in DOMAIN tree[k].children
        PROVE  new[new[k].children[i]].name = tree[tree[k].children[i]].name
    BY <1>7, <2>1
  <2> QED
    BY <1>1, <1>2, <1>7, <2>2 DEF DevicesApart, IsDevices
<1>10. TreeInv(new)
  BY <1>6, <1>8, <1>9 DEF TreeInv
<1>11. \A i \in DOMAIN tree : i # n => new[i].attributes = tree[i].attributes
  BY <1>2
<1> QED
  BY <1>2, <1>3, <1>5, <1>10, <1>11 DEF new

----------------------------------------------------------------------------
(* The report: attributes.                                                  *)

KeptOf(hide, value, secret) == IF hide /\ secret THEN T!Mask(value) ELSE value

\* Shows of ReportTree, whatever the options.
ShowsOf(hide, att, v) ==
    /\ att.form = v.form
    /\ IF v.form = "array" THEN T!Holds(att.value, v.texts)
       ELSE v.texts = <<v.texts[1]>> /\ att.value = KeptOf(hide, v.texts[1], v.secret)

\* The attributes of node n are the values told about it.
Attributed(hide, atts, n, values) ==
    /\ \A key : <<n, key>> \in DOMAIN values <=> \E i \in DOMAIN atts : atts[i].key = key
    /\ \A i, j \in DOMAIN atts : atts[i].key = atts[j].key => i = j
    /\ \A i \in DOMAIN atts : ShowsOf(hide, atts[i], values[<<n, atts[i].key>>])

\* An attribute that is set has the form and the value given, or its mask, whatever it had,
\* and the others have what they had.
LEMMA AttributeSet ==
    ASSUME NEW atts, IsList(atts), NEW key, NEW given, NEW form, NEW sensitive \in BOOLEAN
    PROVE  LET new == T!SetAttribute(atts, key, given, form, sensitive)
           IN  /\ IsList(new)
               /\ \A i \in DOMAIN new :
                     IF new[i].key = key
                     THEN new[i].value = T!Kept(given, sensitive) /\ new[i].form = form
                     ELSE i \in DOMAIN atts /\ new[i] = atts[i]
               /\ \E i \in DOMAIN new : new[i].key = key
               /\ \A i \in DOMAIN atts : atts[i].key # key => i \in DOMAIN new /\ new[i] = atts[i]
               /\ (\A i, j \in DOMAIN atts : atts[i].key = atts[j].key => i = j)
                     => \A i, j \in DOMAIN new : new[i].key = new[j].key => i = j
<1> DEFINE new == T!SetAttribute(atts, key, given, form, sensitive)
<1>1. DOMAIN atts = 1..Len(atts) /\ Len(atts) \in Nat
  BY DEF IsList
<1>2. ~sensitive => T!Kept(given, sensitive) = given
  BY DEF T!Kept
<1> DEFINE made == T!Attribute(key, T!Kept(given, sensitive), form)
<1>3. made.key = key /\ made.value = T!Kept(given, sensitive) /\ made.form = form
  BY DEF T!Attribute
<1>4. CASE T!HasAttribute(atts, key)
  <2>1. new = [i \in 1..Len(atts) |->
                 IF atts[i].key # key THEN atts[i]
                 ELSE T!Attribute(key, IF atts[i].value = given /\ ~sensitive THEN given
                                       ELSE T!Kept(given, sensitive), form)]
    BY <1>1, <1>4 DEF T!SetAttribute
  <2> HIDE DEF new
  <2>2. /\ DOMAIN new = 1..Len(atts)
        /\ \A i \in 1..Len(atts) : new[i] = IF atts[i].key # key THEN atts[i] ELSE made
    BY <1>2, <2>1
  <2> HIDE DEF made
  <2>3. IsList(new)
    BY <1>1, <2>1 DEF IsList
  <2>4. PICK i \in 1..Len(atts) : atts[i].key = key
    BY <1>1, <1>4 DEF T!HasAttribute
  <2>5. \A j \in 1..Len(atts) : new[j].key = atts[j].key
    BY <1>3, <2>2
  <2> QED
    BY <1>1, <1>3, <2>2, <2>3, <2>4, <2>5 DEF new
<1>5. CASE ~T!HasAttribute(atts, key)
  <2>1. new = Append(atts, made)
    BY <1>5 DEF T!SetAttribute
  <2> HIDE DEF new, made
  <2>2. /\ IsList(new) /\ DOMAIN new = 1..(Len(atts) + 1)
        /\ \A i \in DOMAIN atts : new[i] = atts[i]
        /\ new[Len(atts) + 1] = made
    BY <2>1, Appending
  <2>3. \A i \in DOMAIN atts : atts[i].key # key
    BY <1>5 DEF T!HasAttribute
  <2>4. \A i \in DOMAIN new : i \in DOMAIN atts \/ i = Len(atts) + 1
    BY <1>1, <2>2
  <2>5. Len(atts) + 1 \in DOMAIN new /\ \A i \in DOMAIN atts : i \in DOMAIN new
    BY <1>1, <2>2
  <2> QED
    BY <1>3, <2>2, <2>3, <2>4, <2>5 DEF new
<1> QED
  BY <1>4, <1>5

\* The values when node n was told one more under a key, or another one.
OneMoreTold(values, before, n, key) ==
    /\ DOMAIN values = DOMAIN before \cup {<<n, key>>}
    /\ \A at \in DOMAIN before : at # <<n, key>> => values[at] = before[at]

\* What Tell does to the history.
LEMMA Telling ==
    ASSUME told = [errors |-> told.errors, values |-> told.values],
           NEW n, NEW key, NEW form, NEW texts, NEW secret
    PROVE  LET new == T!Tell(n, key, form, texts, secret)
           IN  /\ new = [errors |-> new.errors, values |-> new.values] /\ new.errors = told.errors
               /\ OneMoreTold(new.values, told.values, n, key)
               /\ new.values[<<n, key>>].form = form
               /\ new.values[<<n, key>>].texts = texts
               /\ new.values[<<n, key>>].secret = secret
<1> DEFINE v == [form |-> form, texts |-> texts, secret |-> secret]
           values == [at \in DOMAIN told.values \cup {<<n, key>>} |->
                         IF at = <<n, key>> THEN v ELSE told.values[at]]
           new == T!Tell(n, key, form, texts, secret)
<1>1. new = [told EXCEPT !.values = values]
  BY DEF T!Tell
<1>2. v.form = form /\ v.texts = texts /\ v.secret = secret
  OBVIOUS
<1> HIDE DEF v
<1>3. /\ DOMAIN values = DOMAIN told.values \cup {<<n, key>>} /\ values[<<n, key>>] = v
      /\ \A at \in DOMAIN told.values : at # <<n, key>> => values[at] = told.values[at]
  OBVIOUS
<1> HIDE DEF values, new
<1>4. new = [errors |-> told.errors, values |-> values]
  BY <1>1
<1> QED
  BY <1>2, <1>3, <1>4 DEF OneMoreTold, new

\* The node whose attribute is set shows what was told.
LEMMA AttributeShown ==
    ASSUME NEW atts, IsList(atts), NEW n, NEW values, Attributed(options.hide, atts, n, values),
           NEW key, NEW given, NEW form, NEW sensitive \in BOOLEAN, NEW newValues,
           OneMoreTold(newValues, values, n, key),
           \A att : att.value = T!Kept(given, sensitive) /\ att.form = form
                       => ShowsOf(options.hide, att, newValues[<<n, key>>])
    PROVE  Attributed(options.hide, T!SetAttribute(atts, key, given, form, sensitive), n, newValues)
<1> DEFINE new == T!SetAttribute(atts, key, given, form, sensitive)
<1>1. /\ \A i \in DOMAIN new :
            IF new[i].key = key
            THEN new[i].value = T!Kept(given, sensitive) /\ new[i].form = form
            ELSE i \in DOMAIN atts /\ new[i] = atts[i]
      /\ \E i \in DOMAIN new : new[i].key = key
      /\ \A i \in DOMAIN atts : atts[i].key # key => i \in DOMAIN new /\ new[i] = atts[i]
      /\ \A i, j \in DOMAIN new : new[i].key = new[j].key => i = j
  BY AttributeSet DEF Attributed
<1> HIDE DEF new
<1>2. ASSUME NEW other
      PROVE  <<n, other>> \in DOMAIN newValues <=> \E i \in DOMAIN new : new[i].key = other
  <2>1. CASE other = key
    BY <1>1, <2>1 DEF OneMoreTold
  <2>2. CASE other # key
    <3>1. <<n, other>> \in DOMAIN newValues <=> <<n, other>> \in DOMAIN values
      BY <2>2 DEF OneMoreTold
    <3>2. <<n, other>> \in DOMAIN values <=> \E i \in DOMAIN atts : atts[i].key = other
      BY DEF Attributed
    <3>3. (\E i \in DOMAIN atts : atts[i].key = other) <=> \E i \in DOMAIN new : new[i].key = other
      BY <1>1, <2>2
    <3> QED
      BY <3>1, <3>2, <3>3
  <2> QED
    BY <2>1, <2>2
<1>3. ASSUME NEW i \in DOMAIN new
      PROVE  ShowsOf(options.hide, new[i], newValues[<<n, new[i].key>>])
  <2>1. CASE new[i].key = key
    BY <1>1, <2>1
  <2>2. CASE new[i].key # key
    <3>1. i \in DOMAIN atts /\ new[i] = atts[i]
      BY <1>1, <2>2
    <3>2. <<n, new[i].key>> \in DOMAIN values /\ <<n, new[i].key>> # <<n, key>>
      BY <2>2, <3>1 DEF Attributed
    <3>3. newValues[<<n, new[i].key>>] = values[<<n, new[i].key>>]
      BY <3>2 DEF OneMoreTold
    <3> QED
      BY <3>1, <3>3 DEF Attributed
  <2> QED
    BY <2>1, <2>2
<1>4. Attributed(options.hide, new, n, newValues)
  BY <1>1, <1>2, <1>3 DEF Attributed
<1> QED
  BY <1>4 DEF new

\* The other nodes are told nothing.
LEMMA OthersShown ==
    ASSUME NEW hide, NEW atts, NEW m, NEW values, Attributed(hide, atts, m, values),
           NEW n, NEW key, NEW newValues, n # m,
           OneMoreTold(newValues, values, n, key)
    PROVE  Attributed(hide, atts, m, newValues)
<1>1. \A other : <<m, other>> # <<n, key>>
  OBVIOUS
<1>2. \A other : <<m, other>> \in DOMAIN newValues <=> <<m, other>> \in DOMAIN values
  BY <1>1 DEF OneMoreTold
<1>3. \A other : <<m, other>> \in DOMAIN values <=> \E i \in DOMAIN atts : atts[i].key = other
  BY DEF Attributed
<1>4. ASSUME NEW i \in DOMAIN atts
      PROVE  ShowsOf(hide, atts[i], newValues[<<m, atts[i].key>>])
  <2>1. <<m, atts[i].key>> \in DOMAIN values
    BY <1>3
  <2>2. newValues[<<m, atts[i].key>>] = values[<<m, atts[i].key>>]
    BY <1>1, <2>1 DEF OneMoreTold
  <2> QED
    BY <2>2 DEF Attributed
<1>5. \A other : <<m, other>> \in DOMAIN newValues <=> \E i \in DOMAIN atts : atts[i].key = other
  BY <1>2, <1>3
<1> QED
  BY <1>4, <1>5 DEF Attributed

----------------------------------------------------------------------------
(* The report: the inductive invariant.                                     *)

\* What was told was told to nodes of the tree.
Told ==
    /\ told = [errors |-> told.errors, values |-> told.values]
    /\ \A at \in DOMAIN told.values :
          /\ at = <<at[1], at[2]>> /\ at[1] \in DOMAIN nodes
          /\ told.values[at].secret => told.values[at].form # "array"

\* The error log holds the errors, and the root of a report that is written shows them.
Logged ==
    /\ told.errors \in Seq(Messages)
    /\ IF told.errors = <<>> THEN errLog = <<>>
       ELSE errLog \in Seq(Char) /\ T!Holds(errLog, told.errors)
    /\ output # "none" => /\ <<1, "Error">> \in DOMAIN told.values
                          /\ told.values[<<1, "Error">>].texts = told.errors

Shown(tree) == \A n \in DOMAIN tree : Attributed(options.hide, tree[n].attributes, n, told.values)

ReportInv == TreeInv(nodes) /\ Told /\ Shown(nodes) /\ Logged

\* The operators of ReportTree, with the option they read.
LEMMA KeptBy == ASSUME NEW value, NEW secret
                PROVE  T!Kept(value, secret) = KeptOf(options.hide, value, secret)
  BY DEF T!Kept, KeptOf

LEMMA ShowsBy == ASSUME NEW att, NEW v PROVE T!Shows(att, v) <=> ShowsOf(options.hide, att, v)
  BY DEF T!Shows, ShowsOf, T!Kept, KeptOf

----------------------------------------------------------------------------
(* The report: the inductive steps.                                         *)

\* More nodes, without attributes.
LEMMA NodesStay ==
    ASSUME ReportInv, UNCHANGED <<options, errLog, told, output>>,
           TreeInv(nodes'), Len(nodes') >= Len(nodes),
           \A i \in DOMAIN nodes : nodes'[i].attributes = nodes[i].attributes,
           \A i \in DOMAIN nodes' : i \notin DOMAIN nodes => nodes'[i].attributes = <<>>
    PROVE  ReportInv'
<1>1. /\ DOMAIN nodes = 1..Len(nodes) /\ Len(nodes) \in Nat
      /\ DOMAIN nodes' = 1..Len(nodes') /\ Len(nodes') \in Nat
  BY DEF ReportInv, TreeInv, IsTree, IsList
<1>2. DOMAIN nodes \subseteq DOMAIN nodes'
  BY <1>1
<1>3. Told'
  BY <1>2 DEF ReportInv, Told
<1>4. Logged'
  BY DEF ReportInv, Logged
<1>5. ASSUME NEW n \in DOMAIN nodes'
      PROVE  Attributed(options'.hide, nodes'[n].attributes, n, told'.values)
  <2>1. CASE n \in DOMAIN nodes
    BY <2>1 DEF ReportInv, Shown
  <2>2. CASE n \notin DOMAIN nodes
    <3>1. nodes'[n].attributes = <<>>
      BY <2>2
    <3>2. \A key : <<n, key>> \notin DOMAIN told.values
      BY <2>2 DEF ReportInv, Told
    <3> QED
      BY <3>1, <3>2 DEF Attributed
  <2> QED
    BY <2>1, <2>2
<1> QED
  BY <1>3, <1>4, <1>5 DEF ReportInv, Shown

\* A value set and told.
LEMMA ValueStays ==
    ASSUME ReportInv, UNCHANGED <<options, errLog>>, NEW n \in DOMAIN nodes,
           NEW key, NEW given, NEW form, NEW sensitive \in BOOLEAN, NEW texts,
           sensitive => form # "array",
           nodes' = [nodes EXCEPT ![n].attributes = T!SetAttribute(@, key, given, form, sensitive)],
           told' = T!Tell(n, key, form, texts, sensitive),
           IF form = "array" THEN T!Holds(T!Kept(given, sensitive), texts) ELSE texts = <<given>>,
           output' # "none" => n = 1 /\ key = "Error" /\ texts = told.errors
    PROVE  ReportInv'
<1> DEFINE new == T!SetAttribute(nodes[n].attributes, key, given, form, sensitive)
<1>1. /\ TreeInv(nodes) /\ Told /\ Shown(nodes) /\ Logged
      /\ IsList(nodes[n].attributes)
  BY DEF ReportInv, TreeInv, IsTree, Shaped
<1>2. IsList(new)
  BY <1>1, AttributeSet
<1>3. nodes' = [nodes EXCEPT ![n].attributes = new]
  OBVIOUS
<1> HIDE DEF new
<1>4. /\ TreeInv(nodes') /\ DOMAIN nodes' = DOMAIN nodes
      /\ nodes'[n].attributes = new
      /\ \A i \in DOMAIN nodes : i # n => nodes'[i].attributes = nodes[i].attributes
  <2> DEFINE kept == [nodes EXCEPT ![n].attributes = new]
  <2>1. /\ TreeInv(kept) /\ DOMAIN kept = DOMAIN nodes
        /\ kept[n].attributes = new
        /\ \A i \in DOMAIN nodes : i # n => kept[i].attributes = nodes[i].attributes
    <3>1. IsTree(nodes) /\ n \in DOMAIN nodes
      BY <1>1 DEF TreeInv
    <3> QED
      BY ONLY <1>1, <1>2, <3>1, TreeKept
  <2> HIDE DEF kept
  <2>2. nodes' = kept
    BY <1>3 DEF kept
  <2> QED
    BY <2>1, <2>2
<1>5. told = [errors |-> told.errors, values |-> told.values]
  BY <1>1 DEF Told
<1>6. /\ told' = [errors |-> told'.errors, values |-> told'.values] /\ told'.errors = told.errors
      /\ OneMoreTold(told'.values, told.values, n, key)
      /\ told'.values[<<n, key>>].form = form
      /\ told'.values[<<n, key>>].texts = texts
      /\ told'.values[<<n, key>>].secret = sensitive
  BY <1>5, Telling
<1>7. Told'
  <2>1. ASSUME NEW at \in DOMAIN told'.values
        PROVE  /\ at = <<at[1], at[2]>> /\ at[1] \in DOMAIN nodes'
               /\ told'.values[at].secret => told'.values[at].form # "array"
    <3>1. CASE at = <<n, key>>
      <4>1. at[1] = n /\ at[2] = key /\ at = <<at[1], at[2]>>
        BY <3>1
      <4> QED
        BY <1>4, <1>6, <3>1, <4>1
    <3>2. CASE at # <<n, key>>
      BY <1>1, <1>4, <1>6, <3>2 DEF Told, OneMoreTold
    <3> QED
      BY <3>1, <3>2
  <2>2. told' = [errors |-> told'.errors, values |-> told'.values]
    BY <1>6
  <2> QED
    BY <2>1, <2>2 DEF Told
<1>8. Logged'
  <2>1. told'.errors = told.errors
    BY <1>6
  <2> QED
    BY <1>1, <1>6, <2>1 DEF Logged, OneMoreTold
<1>9. ASSUME NEW att, att.value = T!Kept(given, sensitive), att.form = form
      PROVE  ShowsOf(options.hide, att, told'.values[<<n, key>>])
  <2>1. CASE form = "array"
    BY <1>6, <1>9, <2>1 DEF ShowsOf
  <2>2. CASE form # "array"
    <3>1. texts = <<given>>
      BY <2>2
    <3>2. texts[1] = given
      BY <3>1
    <3> QED
      BY <1>6, <1>9, <2>2, <3>1, <3>2, KeptBy DEF ShowsOf
  <2> QED
    BY <2>1, <2>2
<1>10. Attributed(options.hide, nodes[n].attributes, n, told.values)
  BY <1>1 DEF Shown
<1>11. Attributed(options.hide, new, n, told'.values)
  BY <1>1, <1>6, <1>9, <1>10, AttributeShown DEF new
<1>12. ASSUME NEW m \in DOMAIN nodes'
       PROVE  Attributed(options'.hide, nodes'[m].attributes, m, told'.values)
  <2>1. CASE m = n
    BY <1>4, <1>11, <2>1
  <2>2. CASE m # n
    <3>1. Attributed(options.hide, nodes[m].attributes, m, told.values)
      BY <1>1, <1>4 DEF Shown
    <3>2. Attributed(options.hide, nodes[m].attributes, m, told'.values)
      BY <1>6, <2>2, <3>1, OthersShown
    <3> QED
      BY <1>4, <2>2, <3>2
  <2> QED
    BY <2>1, <2>2
<1>13. TreeInv(nodes')
  BY <1>4
<1> QED
  BY <1>7, <1>8, <1>12, <1>13 DEF ReportInv, Shown

\* NWL_NodeAttrSetRaw with HexBin: a new group that comes with its texts.
LEMMA RawStays ==
    ASSUME ReportInv, NEW n \in DOMAIN nodes, UNCHANGED <<options, errLog, output>>, output = "none",
           nodes' = [T!AppendNew(nodes, n, "raw", "object") EXCEPT
                       ![Len(nodes) + 1].attributes =
                           <<T!Attribute("00000000", <<"hex">>, "text")>>],
           told' = T!Tell(Len(nodes) + 1, "00000000", "text", <<<<"hex">>>>, FALSE)
    PROVE  ReportInv'
<1> DEFINE grown == T!AppendNew(nodes, n, "raw", "object")
           m == Len(nodes) + 1
           att == T!Attribute("00000000", <<"hex">>, "text")
           raw == <<att>>
<1>1. TreeInv(nodes) /\ Told /\ Shown(nodes) /\ Logged
  BY DEF ReportInv
<1>2. /\ TreeInv(grown) /\ Len(nodes) \in Nat
      /\ DOMAIN nodes = 1..Len(nodes) /\ DOMAIN grown = 1..m
      /\ \A i \in DOMAIN nodes : grown[i].attributes = nodes[i].attributes
  <2>1. MayJoin(nodes, n, "raw", "object")
    BY DEF MayJoin
  <2> QED
    BY <1>1, <2>1, TreeGrown
<1>3. IsList(raw) /\ DOMAIN raw = {1} /\ raw[1] = att
  BY DEF IsList
<1>4. att.key = "00000000" /\ att.value = <<"hex">> /\ att.form = "text"
  BY DEF T!Attribute
<1>5. nodes' = [grown EXCEPT ![m].attributes = raw]
  OBVIOUS
<1>6. m \in DOMAIN grown /\ m \notin DOMAIN nodes
  BY <1>2
<1> HIDE DEF grown, raw, att
<1>7. /\ TreeInv(nodes') /\ DOMAIN nodes' = DOMAIN grown
      /\ nodes'[m].attributes = raw
      /\ \A i \in DOMAIN grown : i # m => nodes'[i].attributes = grown[i].attributes
  <2> DEFINE kept == [grown EXCEPT ![m].attributes = raw]
  <2> HIDE DEF m
  <2>1. TreeInv(grown) /\ IsList(raw) /\ m \in DOMAIN grown
    BY <1>2, <1>3, <1>6
  <2>2. /\ TreeInv(kept) /\ DOMAIN kept = DOMAIN grown
        /\ kept[m].attributes = raw
        /\ \A i \in DOMAIN grown : i # m => kept[i].attributes = grown[i].attributes
    BY ONLY <2>1, TreeKept
  <2> HIDE DEF kept
  <2>3. nodes' = kept
    BY <1>5 DEF kept
  <2> QED
    BY <2>2, <2>3
<1>8. told = [errors |-> told.errors, values |-> told.values]
  BY <1>1 DEF Told
<1>9. /\ told' = [errors |-> told'.errors, values |-> told'.values] /\ told'.errors = told.errors
      /\ OneMoreTold(told'.values, told.values, m, "00000000")
      /\ told'.values[<<m, "00000000">>].form = "text"
      /\ told'.values[<<m, "00000000">>].texts = <<<<"hex">>>>
      /\ told'.values[<<m, "00000000">>].secret = FALSE
  <2> DEFINE texts == <<<<"hex">>>>
             no == FALSE
             new == T!Tell(m, "00000000", "text", texts, no)
  <2>1. told' = new
    OBVIOUS
  <2> HIDE DEF texts, no, m
  <2>2. /\ new = [errors |-> new.errors, values |-> new.values] /\ new.errors = told.errors
        /\ OneMoreTold(new.values, told.values, m, "00000000")
        /\ new.values[<<m, "00000000">>].form = "text"
        /\ new.values[<<m, "00000000">>].texts = texts
        /\ new.values[<<m, "00000000">>].secret = no
    BY <1>8, Telling
  <2> HIDE DEF new
  <2> QED
    BY <2>1, <2>2 DEF texts, no
<1>10. DOMAIN nodes \subseteq DOMAIN nodes' /\ m \in DOMAIN nodes'
       /\ \A i \in DOMAIN nodes' : i = m \/ (i # m /\ i \in DOMAIN nodes)
  BY <1>2, <1>6, <1>7
<1> HIDE DEF m
<1>11. Told'
  <2>1. ASSUME NEW at \in DOMAIN told'.values
        PROVE  /\ at = <<at[1], at[2]>> /\ at[1] \in DOMAIN nodes'
               /\ told'.values[at].secret => told'.values[at].form # "array"
    <3>1. CASE at = <<m, "00000000">>
      <4>1. at[1] = m /\ at[2] = "00000000" /\ at = <<at[1], at[2]>>
        BY <3>1
      <4> QED
        BY <1>9, <1>10, <3>1, <4>1
    <3>2. CASE at # <<m, "00000000">>
      BY <1>1, <1>9, <1>10, <3>2 DEF Told, OneMoreTold
    <3> QED
      BY <3>1, <3>2
  <2>2. told' = [errors |-> told'.errors, values |-> told'.values]
    BY <1>9
  <2> QED
    BY <2>1, <2>2 DEF Told
<1>12. Logged'
  <2>1. told'.errors = told.errors
    BY <1>9
  <2> QED
    BY <1>1, <2>1 DEF Logged
<1>13. Attributed(options.hide, raw, m, told'.values)
  <2>1. ASSUME NEW key
        PROVE  <<m, key>> \in DOMAIN told'.values <=> key = "00000000"
    <3>1. <<m, key>> \notin DOMAIN told.values
      BY <1>1, <1>6 DEF Told
    <3> QED
      BY <1>9, <3>1 DEF OneMoreTold
  <2>2. ShowsOf(options.hide, att, told'.values[<<m, "00000000">>])
    <3> DEFINE v == told'.values[<<m, "00000000">>]
               texts == <<<<"hex">>>>
    <3>1. v.form = "text" /\ v.texts = texts /\ v.secret = FALSE
      BY <1>9
    <3>2. texts[1] = <<"hex">> /\ texts = <<texts[1]>>
      OBVIOUS
    <3> HIDE DEF v, texts
    <3>3. KeptOf(options.hide, v.texts[1], v.secret) = <<"hex">>
      BY <3>1, <3>2 DEF KeptOf
    <3>4. ShowsOf(options.hide, att, v)
      BY <1>4, <3>1, <3>2, <3>3 DEF ShowsOf
    <3> QED
      BY <3>4 DEF v
  <2> QED
    BY <1>3, <1>4, <2>1, <2>2 DEF Attributed
<1>14. ASSUME NEW k \in DOMAIN nodes'
       PROVE  Attributed(options'.hide, nodes'[k].attributes, k, told'.values)
  <2>1. CASE k = m
    BY <1>7, <1>13, <2>1
  <2>2. CASE k # m
    <3>1. k \in DOMAIN nodes /\ k \in DOMAIN grown
      BY <1>7, <1>10, <2>2
    <3>2. Attributed(options.hide, nodes[k].attributes, k, told.values)
      BY <1>1, <3>1 DEF Shown
    <3>3. Attributed(options.hide, nodes[k].attributes, k, told'.values)
      BY <1>9, <2>2, <3>2, OthersShown
    <3> QED
      BY <1>2, <1>7, <2>2, <3>1, <3>3
  <2> QED
    BY <2>1, <2>2
<1> QED
  BY <1>7, <1>11, <1>12, <1>14 DEF ReportInv, Shown

\* Where GetChild finds no table of devices there is none.
LEMMA NoDevices ==
    ASSUME NEW n, T!GetChild(n, "Devices") = {}
    PROVE  \A i \in DOMAIN nodes[n].children : ~IsDevices(nodes, n, i)
  BY DEF T!GetChild, IsDevices

\* One more node.
LEMMA NodeStays ==
    ASSUME ReportInv, UNCHANGED <<options, errLog, told, output>>, NEW n \in DOMAIN nodes,
           NEW name, NEW kind, MayJoin(nodes, n, name, kind),
           nodes' = T!AppendNew(nodes, n, name, kind)
    PROVE  ReportInv'
<1>1. /\ TreeInv(nodes') /\ Len(nodes') = Len(nodes) + 1
      /\ Len(nodes) \in Nat /\ DOMAIN nodes = 1..Len(nodes) /\ DOMAIN nodes' = 1..Len(nodes) + 1
      /\ nodes'[Len(nodes) + 1] = T!Node(name, kind)
      /\ \A i \in DOMAIN nodes : nodes'[i].attributes = nodes[i].attributes
  BY TreeGrown DEF ReportInv
<1>2. T!Node(name, kind).attributes = <<>>
  BY DEF T!Node
<1>3. \A i \in DOMAIN nodes' : i \notin DOMAIN nodes => nodes'[i].attributes = <<>>
  BY <1>1, <1>2
<1> QED
  BY <1>1, <1>3, NodesStay

\* The first device below another one, with its table.
LEMMA DevicesStay ==
    ASSUME ReportInv, UNCHANGED <<options, errLog, told, output>>, NEW n \in DOMAIN nodes,
           T!GetChild(n, "Devices") = {},
           nodes' = T!AppendNew(T!AppendNew(nodes, n, "Devices", "table"), Len(nodes) + 1, "Device", "row")
    PROVE  ReportInv'
<1> DEFINE once == T!AppendNew(nodes, n, "Devices", "table")
           m == Len(nodes) + 1
<1>1. MayJoin(nodes, n, "Devices", "table")
  BY NoDevices DEF MayJoin
<1>2. /\ TreeInv(once) /\ Len(once) = m
      /\ Len(nodes) \in Nat /\ DOMAIN nodes = 1..Len(nodes) /\ DOMAIN once = 1..m
      /\ once[m] = T!Node("Devices", "table")
      /\ \A i \in DOMAIN nodes : once[i].attributes = nodes[i].attributes
  BY <1>1, TreeGrown DEF ReportInv
<1>3. nodes' = T!AppendNew(once, m, "Device", "row")
  OBVIOUS
<1> HIDE DEF once
<1>4. m \in DOMAIN once /\ m \in Nat
  BY <1>2
<1>5. once[m].kind = "table" /\ once[m].attributes = <<>>
  BY <1>2 DEF T!Node
<1>6. MayJoin(once, m, "Device", "row")
  BY <1>5 DEF MayJoin
<1> HIDE DEF m
<1>7. /\ TreeInv(nodes') /\ Len(nodes') = m + 1 /\ DOMAIN nodes' = 1..m + 1
      /\ nodes'[m + 1] = T!Node("Device", "row")
      /\ \A i \in DOMAIN once : nodes'[i].attributes = once[i].attributes
  <2> DEFINE twice == T!AppendNew(once, m, "Device", "row")
  <2>1. TreeInv(once) /\ m \in DOMAIN once
    BY <1>2, <1>4
  <2>2. /\ TreeInv(twice) /\ Len(twice) = Len(once) + 1 /\ DOMAIN twice = 1..Len(once) + 1
        /\ twice[Len(once) + 1] = T!Node("Device", "row")
        /\ \A i \in DOMAIN once : twice[i].attributes = once[i].attributes
    BY ONLY <1>6, <2>1, TreeGrown
  <2> HIDE DEF twice
  <2>3. nodes' = twice
    BY <1>3 DEF twice
  <2> QED
    BY <1>2, <2>2, <2>3
<1>8. T!Node("Device", "row").attributes = <<>>
  BY DEF T!Node
<1>9. /\ \A i \in DOMAIN nodes : i \in DOMAIN once
      /\ \A i \in DOMAIN nodes' : i \in DOMAIN nodes \/ i = m \/ i = m + 1
      /\ Len(nodes') >= Len(nodes) /\ m \in DOMAIN once
  <2>1. m = Len(nodes) + 1
    BY DEF m
  <2>2. DOMAIN nodes' = 1..m + 1 /\ Len(nodes') = m + 1
    BY <1>7
  <2>3. DOMAIN nodes = 1..Len(nodes) /\ DOMAIN once = 1..m /\ Len(nodes) \in Nat
    BY <1>2
  <2> QED
    BY ONLY <1>4, <2>1, <2>2, <2>3
<1>10. \A i \in DOMAIN nodes : nodes'[i].attributes = nodes[i].attributes
  BY <1>2, <1>7, <1>9
<1>11. \A i \in DOMAIN nodes' : i \notin DOMAIN nodes => nodes'[i].attributes = <<>>
  BY <1>5, <1>7, <1>8, <1>9
<1> QED
  BY <1>7, <1>9, <1>10, <1>11, NodesStay

\* What the collectors put below node n.
LEMMA GrowthStays ==
    ASSUME ReportInv, NEW n \in DOMAIN nodes,
           \/ \E name \in Names, kind \in {"object", "table"} : T!AppendGroup(n, name, kind)
           \/ T!AppendRow(n)
           \/ T!AppendDevice(n)
    PROVE  ReportInv'
<1>1. UNCHANGED <<options, errLog, told, output>>
  BY DEF T!AppendGroup, T!AppendRow, T!AppendDevice, T!Called
<1>2. ASSUME NEW name \in Names, NEW kind \in {"object", "table"}, T!AppendGroup(n, name, kind)
      PROVE  ReportInv'
  <2>1. nodes' = T!AppendNew(nodes, n, name, kind)
    BY <1>2 DEF T!AppendGroup
  <2>2. MayJoin(nodes, n, name, kind)
    BY NamesAssumption DEF MayJoin
  <2> QED
    BY <1>1, <2>1, <2>2, NodeStays
<1>3. CASE T!AppendRow(n)
  <2>1. nodes[n].kind = "table" /\ nodes' = T!AppendNew(nodes, n, "Device", "row")
    BY <1>3 DEF T!AppendRow
  <2>2. MayJoin(nodes, n, "Device", "row")
    BY <2>1 DEF MayJoin
  <2> QED
    BY <1>1, <2>1, <2>2, NodeStays
<1>4. CASE T!AppendDevice(n) /\ T!GetChild(n, "Devices") # {}
  <2> DEFINE t == CHOOSE t \in T!GetChild(n, "Devices") : TRUE
  <2>1. t \in T!GetChild(n, "Devices")
    BY <1>4
  <2>2. nodes' = T!AppendNew(nodes, t, "Device", "row")
    BY <1>4 DEF T!AppendDevice
  <2> HIDE DEF t
  <2>3. PICK i \in DOMAIN nodes[n].children : t = nodes[n].children[i] /\ nodes[t].name = "Devices"
    BY <2>1 DEF T!GetChild
  <2>4. t \in DOMAIN nodes
    <3>1. t \in n + 1..Len(nodes)
      BY <2>3 DEF ReportInv, TreeInv, Linked
    <3>2. DOMAIN nodes = 1..Len(nodes) /\ Len(nodes) \in Nat
      BY DEF ReportInv, TreeInv, IsTree, IsList
    <3> QED
      BY <3>1, <3>2
  <2>5. nodes[t].kind = "table"
    BY <2>3, <2>4 DEF ReportInv, TreeInv, DevicesApart
  <2>6. MayJoin(nodes, t, "Device", "row")
    BY <2>5 DEF MayJoin
  <2> QED
    BY <1>1, <2>2, <2>4, <2>6, NodeStays
<1>5. CASE T!AppendDevice(n) /\ T!GetChild(n, "Devices") = {}
  <2>1. nodes' = T!AppendNew(T!AppendNew(nodes, n, "Devices", "table"), Len(nodes) + 1, "Device", "row")
    BY <1>5 DEF T!AppendDevice
  <2> QED
    BY <1>1, <1>5, <2>1, DevicesStay
<1> QED
  BY <1>2, <1>3, <1>4, <1>5

\* The invariant holds at the start and in every step.
LEMMA ReportStarts == T!Init => ReportInv
<1> SUFFICES ASSUME T!Init PROVE ReportInv
  OBVIOUS
<1> DEFINE root == T!Node("NWinfo", "object")
<1>1. nodes = <<root>> /\ told = [errors |-> <<>>, values |-> <<>>] /\ errLog = <<>> /\ output = "none"
  BY DEF T!Init
<1>2. /\ Shaped(root) /\ root.children = <<>> /\ root.attributes = <<>>
      /\ root.name = "NWinfo"
  BY DEF Shaped, T!Node, IsList
<1> HIDE DEF root
<1>3. DOMAIN nodes = {1} /\ nodes[1] = root /\ Len(nodes) = 1 /\ IsList(nodes)
  BY <1>1 DEF IsList
<1>4. IsTree(nodes)
  BY <1>2, <1>3 DEF IsTree
<1>5. Linked(nodes)
  BY <1>2, <1>3 DEF Linked
<1>6. DevicesApart(nodes)
  BY <1>2, <1>3 DEF DevicesApart
<1>7. told.values = <<>> /\ DOMAIN told.values = {} /\ told.errors = <<>>
      /\ told = [errors |-> told.errors, values |-> told.values]
  BY <1>1
<1>8. Told
  BY <1>7 DEF Told
<1>9. Shown(nodes)
  BY <1>2, <1>3, <1>7 DEF Shown, Attributed
<1>10. Logged
  BY <1>1, <1>7 DEF Logged
<1> QED
  BY <1>4, <1>5, <1>6, <1>8, <1>9, <1>10 DEF ReportInv, TreeInv

\* A plain value is told as a list of one.
LEMMA PlainStays ==
    ASSUME ReportInv, NEW n \in DOMAIN nodes, NEW key, NEW value, NEW form,
           NEW sensitive \in BOOLEAN, form # "array",
           T!SetPlain(n, key, value, form, sensitive)
    PROVE  ReportInv'
<1>1. /\ UNCHANGED <<options, errLog>> /\ output' = "none"
      /\ nodes' = [nodes EXCEPT ![n].attributes = T!SetAttribute(@, key, value, form, sensitive)]
      /\ told' = T!Tell(n, key, form, <<value>>, sensitive)
  BY DEF T!SetPlain, T!Called, T!Collecting
<1> DEFINE texts == <<value>>
<1> HIDE DEF texts
<1>2. told' = T!Tell(n, key, form, texts, sensitive) /\ texts = <<value>>
  BY <1>1 DEF texts
<1> QED
  BY <1>1, <1>2, ValueStays

\* A list is kept as it is.
LEMMA ListStays ==
    ASSUME ReportInv, NEW n \in DOMAIN nodes, NEW key, NEW memory, NEW list,
           UNCHANGED <<options, errLog>>,
           nodes' = [nodes EXCEPT ![n].attributes = T!SetAttribute(@, key, memory, "array", FALSE)],
           told' = T!Tell(n, key, "array", list, FALSE),
           T!Holds(memory, list),
           output' # "none" => n = 1 /\ key = "Error" /\ list = told.errors
    PROVE  ReportInv'
<1> DEFINE no == FALSE
           form == "array"
<1>1. no \in BOOLEAN /\ ~no /\ form = "array"
  OBVIOUS
<1>2. /\ nodes' = [nodes EXCEPT ![n].attributes = T!SetAttribute(@, key, memory, form, no)]
      /\ told' = T!Tell(n, key, form, list, no)
  OBVIOUS
<1>3. T!Kept(memory, no) = memory
  BY DEF T!Kept
<1> HIDE DEF no, form
<1>4. IF form = "array" THEN T!Holds(T!Kept(memory, no), list) ELSE list = <<memory>>
  BY <1>1, <1>3
<1>5. no => form # "array"
  BY <1>1
<1>6. /\ ReportInv /\ UNCHANGED <<options, errLog>> /\ n \in DOMAIN nodes
      /\ output' # "none" => n = 1 /\ key = "Error" /\ list = told.errors
  OBVIOUS
<1> QED
  BY ONLY <1>1, <1>2, <1>4, <1>5, <1>6, ValueStays

\* An error more.
LEMMA ErrorStays ==
    ASSUME ReportInv, NEW message \in Messages, T!LogError(message)
    PROVE  ReportInv'
<1>1. /\ UNCHANGED <<options, nodes>> /\ output' = "none"
      /\ told' = [told EXCEPT !.errors = Append(@, message)]
      /\ errLog' = T!AppendMultiSz(errLog, message)
  BY DEF T!LogError, T!Called, T!Collecting
<1>2. TreeInv(nodes) /\ Told /\ Shown(nodes) /\ Logged
  BY DEF ReportInv
<1>3. told'.values = told.values /\ told'.errors = Append(told.errors, message)
      /\ told' = [errors |-> told'.errors, values |-> told'.values]
  BY <1>1, <1>2 DEF Told
<1>4. Told'
  BY <1>1, <1>2, <1>3 DEF Told
<1>5. Shown(nodes)'
  BY <1>1, <1>2, <1>3 DEF Shown
<1>6. Logged'
  <2>1. told.errors \in Seq(Messages) /\ message \in Word
    BY <1>2, MessagesAreWords DEF Logged
  <2>2. told'.errors \in Seq(Messages) /\ told'.errors # <<>>
    BY <1>3, <2>1
  <2>3. errLog' \in Seq(Char) /\ T!Holds(errLog', told'.errors)
    <3>1. CASE told.errors = <<>>
      <4>1. errLog = <<>>
        BY <1>2, <3>1 DEF Logged
      <4>2. errLog' \in Seq(Char) /\ T!Holds(errLog', <<message>>)
        BY <1>1, <2>1, <4>1, FirstString
      <4>3. told'.errors = <<message>>
        BY <1>3, <3>1, AppendFirst
      <4> QED
        BY <4>2, <4>3
    <3>2. CASE told.errors # <<>>
      <4>1. errLog \in Seq(Char) /\ T!Holds(errLog, told.errors)
        BY <1>2, <3>2 DEF Logged
      <4>2. told.errors \in Seq(Word)
        BY <2>1, ErrorsAreWords
      <4>3. T!AppendMultiSz(errLog, message) \in Seq(Char)
            /\ T!Holds(T!AppendMultiSz(errLog, message), Append(told.errors, message))
        BY <2>1, <3>2, <4>1, <4>2, OneStringMore
      <4> QED
        BY <1>1, <1>3, <4>3
    <3> QED
      BY <3>1, <3>2
  <2> QED
    BY <1>1, <2>2, <2>3 DEF Logged
<1> QED
  BY <1>1, <1>2, <1>4, <1>5, <1>6 DEF ReportInv

\* The errors as they are written.
LEMMA PrintStays ==
    ASSUME ReportInv, NEW f, T!NW_Print(f)
    PROVE  ReportInv'
<1>1. /\ UNCHANGED <<options, errLog>>
      /\ nodes' = [nodes EXCEPT ![1].attributes = T!SetAttribute(@, "Error", T!CopyMulti(errLog), "array", FALSE)]
      /\ told' = T!Tell(1, "Error", "array", told.errors, FALSE)
  BY DEF T!NW_Print, T!Root
<1>2. told.errors \in Seq(Messages) /\ 1 \in DOMAIN nodes
  BY DEF ReportInv, Logged, TreeInv, IsTree, IsList
<1>3. T!Holds(T!CopyMulti(errLog), told.errors)
  <2>1. CASE told.errors = <<>>
    <3>1. errLog = <<>>
      BY <2>1 DEF ReportInv, Logged
    <3> QED
      BY <2>1, <3>1, NothingCopied
  <2>2. CASE told.errors # <<>>
    <3>1. errLog \in Seq(Char) /\ T!Holds(errLog, told.errors)
      BY <2>2 DEF ReportInv, Logged
    <3>2. told.errors \in Seq(Word)
      BY <1>2, ErrorsAreWords
    <3>3. T!CopyMulti(errLog) = errLog
      BY <2>2, <3>1, <3>2, Copied
    <3> QED
      BY <3>1, <3>3
  <2> QED
    BY <2>1, <2>2
<1> DEFINE memory == T!CopyMulti(errLog)
           list == told.errors
           key == "Error"
<1>4. /\ nodes' = [nodes EXCEPT ![1].attributes = T!SetAttribute(@, key, memory, "array", FALSE)]
      /\ told' = T!Tell(1, key, "array", list, FALSE)
      /\ T!Holds(memory, list)
  BY <1>1, <1>3
<1> QED
  BY <1>1, <1>2, <1>4, ListStays

LEMMA ReportStays == ReportInv /\ [T!Next]_T!vars => ReportInv'
<1> SUFFICES ASSUME ReportInv, [T!Next]_T!vars PROVE ReportInv'
  OBVIOUS
<1>1. ASSUME UNCHANGED <<options, nodes, errLog, told, output>> PROVE ReportInv'
  <2>1. Len(nodes') >= Len(nodes)
    BY <1>1 DEF ReportInv, TreeInv, IsTree, IsList
  <2> QED
    BY <1>1, <2>1, NodesStay DEF ReportInv
<1>2. ASSUME NEW n \in DOMAIN nodes,
             \/ \E name \in Names, kind \in {"object", "table"} : T!AppendGroup(n, name, kind)
             \/ T!AppendRow(n) \/ T!AppendDevice(n)
      PROVE  ReportInv'
  BY <1>2, GrowthStays
<1>3. ASSUME NEW n \in DOMAIN nodes, NEW value, NEW sensitive \in BOOLEAN, T!SetText(n, value, sensitive)
      PROVE  ReportInv'
  <2>1. "text" # "array"
    OBVIOUS
  <2> QED
    BY <1>3, <2>1, PlainStays DEF T!SetText
<1>4. ASSUME NEW n \in DOMAIN nodes, NEW value, T!SetBool(n, value) PROVE ReportInv'
  <2> DEFINE no == FALSE
  <2>1. "boolean" # "array" /\ no \in BOOLEAN
    OBVIOUS
  <2>2. T!SetPlain(n, "bool", value, "boolean", no)
    BY <1>4 DEF T!SetBool
  <2> HIDE DEF no
  <2> QED
    BY <2>1, <2>2, PlainStays
<1>5. ASSUME NEW n \in DOMAIN nodes, T!SetSize(n) PROVE ReportInv'
  <2> DEFINE no == FALSE
             value == IF options.human THEN <<"1", "KB">> ELSE <<"1024">>
             form == T!SizeForm
  <2>1. form # "array" /\ no \in BOOLEAN
    BY DEF T!SizeForm
  <2>2. T!SetPlain(n, "size", value, form, no)
    BY <1>5 DEF T!SetSize
  <2> HIDE DEF no, value, form
  <2> QED
    BY <2>1, <2>2, PlainStays
<1>6. ASSUME NEW n \in DOMAIN nodes, NEW list \in T!Lists, T!SetList(n, list) PROVE ReportInv'
  <2> DEFINE memory == T!CopyMulti(T!FoldLeft(T!AppendMultiSz, <<>>, list))
  <2>1. /\ UNCHANGED <<options, errLog>> /\ output' = "none"
        /\ nodes' = [nodes EXCEPT ![n].attributes = T!SetAttribute(@, "list", memory, "array", FALSE)]
        /\ told' = T!Tell(n, "list", "array", list, FALSE)
    BY <1>6 DEF T!SetList, T!Called, T!Collecting
  <2>2. T!Holds(memory, list)
    BY ListsAreHeld
  <2> HIDE DEF memory
  <2> QED
    BY <2>1, <2>2, ListStays
<1>7. ASSUME NEW n \in DOMAIN nodes, T!SetRaw(n) PROVE ReportInv'
  <2>1. CASE UNCHANGED <<options, nodes, errLog, told, output>>
    BY <1>1, <2>1
  <2>2. CASE options.binary = "base64" /\ T!SetPlain(n, "raw", <<"base64">>, "text", FALSE)
    <3> DEFINE no == FALSE
               value == <<"base64">>
    <3>1. "text" # "array" /\ no \in BOOLEAN
      OBVIOUS
    <3>2. T!SetPlain(n, "raw", value, "text", no)
      BY <2>2
    <3> HIDE DEF no, value
    <3> QED
      BY <2>2, <3>1, <3>2, PlainStays
  <2>3. CASE /\ UNCHANGED <<options, errLog, output>> /\ output = "none"
             /\ nodes' = [T!AppendNew(nodes, n, "raw", "object") EXCEPT
                            ![Len(nodes) + 1].attributes =
                                <<T!Attribute("00000000", <<"hex">>, "text")>>]
             /\ told' = T!Tell(Len(nodes) + 1, "00000000", "text", <<<<"hex">>>>, FALSE)
    BY <2>3, RawStays
  <2> QED
    BY <1>7, <2>1, <2>2, <2>3 DEF T!SetRaw, T!Called, T!Collecting
<1>8. ASSUME NEW message \in Messages, T!LogError(message) PROVE ReportInv'
  BY <1>8, ErrorStays
<1>9. ASSUME NEW f, T!NW_Print(f) PROVE ReportInv'
  BY <1>9, PrintStays
<1>10. CASE T!Done \/ UNCHANGED T!vars
  BY <1>1, <1>10 DEF T!Done, T!vars
<1> QED
  BY <1>2, <1>3, <1>4, <1>5, <1>6, <1>7, <1>8, <1>9, <1>10 DEF T!Next

----------------------------------------------------------------------------
(* The report: the theorems.                                                *)

LEMMA ToldKeysAre ==
    ASSUME Told, NEW n
    PROVE  \A key : key \in T!ToldKeys(n) <=> <<n, key>> \in DOMAIN told.values
<1>1. ASSUME NEW key, key \in T!ToldKeys(n) PROVE <<n, key>> \in DOMAIN told.values
  BY <1>1 DEF T!ToldKeys, Told
<1>2. ASSUME NEW key, <<n, key>> \in DOMAIN told.values PROVE key \in T!ToldKeys(n)
  <2> DEFINE at == <<n, key>>
  <2>1. at \in { a \in DOMAIN told.values : a[1] = n } /\ at[2] = key
    BY <1>2
  <2> QED
    BY <2>1 DEF T!ToldKeys
<1> QED
  BY <1>1, <1>2

\* The invariant says what the properties say.
LEMMA ReportHolds == ReportInv => T!HoldsWhatWasTold
<1> SUFFICES ASSUME ReportInv PROVE T!HoldsWhatWasTold
  OBVIOUS
<1>1. IsTree(nodes) /\ Linked(nodes) /\ DevicesApart(nodes) /\ Told /\ Shown(nodes) /\ Logged
  BY DEF ReportInv, TreeInv
<1>2. DOMAIN nodes = 1..Len(nodes) /\ Len(nodes) \in Nat
  BY <1>1 DEF IsTree, IsList
<1>3. ASSUME NEW m \in DOMAIN nodes \ {1} PROVE T!IsChildOnce(m)
  <2>1. PICK n \in 1..m - 1 : \E i \in DOMAIN nodes[n].children : nodes[n].children[i] = m
    BY <1>1 DEF Linked
  <2>2. PICK i \in DOMAIN nodes[n].children : nodes[n].children[i] = m
    BY <2>1
  <2>3. n \in DOMAIN nodes
    BY <1>2
  <2>4. \A k \in DOMAIN nodes : \A j \in DOMAIN nodes[k].children :
           nodes[k].children[j] = m => k = n /\ j = i
    BY <1>1, <2>2, <2>3 DEF Linked
  <2> QED
    BY <2>2, <2>4 DEF T!IsChildOnce
<1>4. ASSUME NEW n \in DOMAIN nodes
      PROVE  LET atts == nodes[n].attributes
             IN  /\ T!ToldKeys(n) = { atts[i].key : i \in DOMAIN atts }
                 /\ \A i, j \in DOMAIN atts : atts[i].key = atts[j].key => i = j
                 /\ \A i \in DOMAIN atts : T!Shows(atts[i], told.values[<<n, atts[i].key>>])
                 /\ nodes[n].kind = "row" => \A t, u \in T!GetChild(n, "Devices") : t = u
  <2> DEFINE atts == nodes[n].attributes
             keys == { atts[i].key : i \in DOMAIN atts }
  <2>1. Attributed(options.hide, atts, n, told.values)
    BY <1>1 DEF Shown
  <2>2. \A key : key \in T!ToldKeys(n) <=> <<n, key>> \in DOMAIN told.values
    BY <1>1, ToldKeysAre
  <2>3. T!ToldKeys(n) = keys
    <3>1. \A key : key \in T!ToldKeys(n) <=> \E i \in DOMAIN atts : atts[i].key = key
      BY <2>1, <2>2 DEF Attributed
    <3>2. \A key : key \in keys <=> \E i \in DOMAIN atts : atts[i].key = key
      OBVIOUS
    <3> HIDE DEF keys, atts
    <3> QED
      BY <3>1, <3>2
  <2>4. \A i, j \in DOMAIN atts : atts[i].key = atts[j].key => i = j
    BY <2>1 DEF Attributed
  <2>5. \A i \in DOMAIN atts : T!Shows(atts[i], told.values[<<n, atts[i].key>>])
    BY <2>1, ShowsBy DEF Attributed
  <2>6. ASSUME nodes[n].kind = "row", NEW t \in T!GetChild(n, "Devices"),
               NEW u \in T!GetChild(n, "Devices")
        PROVE  t = u
    <3>1. PICK i \in DOMAIN nodes[n].children : t = nodes[n].children[i] /\ IsDevices(nodes, n, i)
      BY DEF T!GetChild, IsDevices
    <3>2. PICK j \in DOMAIN nodes[n].children : u = nodes[n].children[j] /\ IsDevices(nodes, n, j)
      BY DEF T!GetChild, IsDevices
    <3>3. i = j
      BY <1>1, <2>6, <3>1, <3>2 DEF DevicesApart
    <3> QED
      BY <3>1, <3>2, <3>3
  <2> HIDE DEF keys
  <2> QED
    BY <2>3, <2>4, <2>5, <2>6 DEF keys
<1>5. IF told.errors = <<>> THEN errLog = <<>> ELSE T!Holds(errLog, told.errors)
  BY <1>1 DEF Logged
<1>6. output # "none" => told.values[<<1, "Error">>].texts = told.errors
  BY <1>1 DEF Logged
<1> QED
  BY <1>3, <1>4, <1>5, <1>6 DEF T!HoldsWhatWasTold, T!Root

LEMMA ReportMasks == ReportInv => T!SecretsMasked
<1> SUFFICES ASSUME ReportInv, options.hide, NEW at \in DOMAIN told.values, told.values[at].secret,
                    NEW i \in DOMAIN nodes[at[1]].attributes,
                    nodes[at[1]].attributes[i].key = at[2]
             PROVE  T!ToSet(nodes[at[1]].attributes[i].value) \subseteq {"*"}
  BY DEF T!SecretsMasked
<1> DEFINE att == nodes[at[1]].attributes[i]
           v == told.values[at]
<1>1. at = <<at[1], at[2]>> /\ at[1] \in DOMAIN nodes /\ v.form # "array"
  BY DEF ReportInv, Told
<1>2. ShowsOf(options.hide, att, v)
  <2>1. Attributed(options.hide, nodes[at[1]].attributes, at[1], told.values)
    BY <1>1 DEF ReportInv, Shown
  <2>2. ShowsOf(options.hide, att, told.values[<<at[1], nodes[at[1]].attributes[i].key>>])
    BY <2>1 DEF Attributed
  <2>3. <<at[1], nodes[at[1]].attributes[i].key>> = at
    BY <1>1
  <2> QED
    BY <2>2, <2>3
<1>3. att.value = T!Mask(v.texts[1])
  <2> HIDE DEF att, v
  <2>1. v.secret
    BY DEF v
  <2> QED
    BY <1>1, <1>2, <2>1 DEF ShowsOf, KeptOf
<1> HIDE DEF att
<1>4. T!ToSet(att.value) \subseteq {"*"}
  BY <1>3 DEF T!ToSet, T!Mask
<1> QED
  BY <1>4 DEF att

\* HoldsWhatWasTold (node.c:103, 126, 196, 264; devtree.c:214): whatever the options, the names and
\* the errors, and however large the report grows, every node is once in the tree, every
\* attribute shows the value told last under its key, masked where it has to be, every list
\* and the error log hold the strings they were made of, and the devices below another one
\* are in one table, though groups may be called alike.
THEOREM ReportHoldsWhatWasTold == T!Spec => []HoldsWhatWasTold
<1>1. ReportInv => HoldsWhatWasTold
  BY ReportHolds DEF HoldsWhatWasTold
<1> QED
  BY ReportStarts, ReportStays, <1>1, PTL DEF T!Spec

\* With HideSensitive no attribute last set as a sensitive one shows anything of its value,
\* though it was set before as a plain one (node.c:126, 196).
THEOREM SecretsStayMasked == T!Spec => []SecretsMasked
<1>1. ReportInv => SecretsMasked
  BY ReportMasks DEF SecretsMasked
<1> QED
  BY ReportStarts, ReportStays, <1>1, PTL DEF T!Spec

----------------------------------------------------------------------------
(* The escapes: their lengths.                                              *)

\* Characters; those that escapes are made of are listed for the provers.
Letter ==
    (STRING \ {""})
    \cup {" ", "\\", "'", "&", ";", "a", "b", "g", "l", "m", "n", "o", "p", "q", "r", "s", "t", "u"}
Fits(seq, room) == seq \in Seq(Letter) /\ Len(seq) \in 1..room

LEMMA Letters ==
    {" ", "\\", "'", "&", ";", "a", "b", "g", "l", "m", "n", "o", "p", "q", "r", "s", "t", "u"}
        \subseteq Letter
  BY DEF Letter

LEMMA TuplesFit ==
    ASSUME NEW a \in Letter, NEW b \in Letter
    PROVE  /\ Fits(<<a>>, 2) /\ Fits(<<a>>, 6) /\ Fits(<<a, b>>, 2)
           /\ \A c, d \in Letter :
                 /\ Fits(<<a, b, c, d>>, 6)
                 /\ \A e \in Letter :
                       /\ Fits(<<a, b, c, d, e>>, 6)
                       /\ \A f \in Letter : Fits(<<a, b, c, d, e, f>>, 6)
  BY DEF Fits

\* A space or the character itself, and what three formats make of a character.
LEMMA PlainFits ==
    ASSUME NEW c \in Letter
    PROVE  /\ Fits(E!Plain(c), 2) /\ Fits(E!Plain(c), 6) /\ Fits(E!Lettered(c), 2)
           /\ Fits(<<"\\", c>>, 2)
<1>1. E!Plain(c) = <<" ">> \/ E!Plain(c) = <<c>>
  BY DEF E!Plain
<1>2. \/ E!Lettered(c) = <<"\\", "n">> \/ E!Lettered(c) = <<"\\", "r">>
      \/ E!Lettered(c) = <<"\\", "t">> \/ E!Lettered(c) = <<" ">> \/ E!Lettered(c) = <<c>>
  BY <1>1 DEF E!Lettered
<1>3. Fits(<<" ">>, 2) /\ Fits(<<c>>, 2) /\ Fits(<<" ">>, 6) /\ Fits(<<c>>, 6)
  BY Letters, TuplesFit
<1>4. /\ Fits(<<"\\", "n">>, 2) /\ Fits(<<"\\", "r">>, 2) /\ Fits(<<"\\", "t">>, 2)
      /\ Fits(<<"\\", c>>, 2)
  BY Letters, TuplesFit
<1> QED
  BY <1>1, <1>2, <1>3, <1>4, Zenon

\* What a character becomes is never longer than the room wanted before it.
LEMMA EscapeFits ==
    ASSUME NEW c \in Letter, format \in E!Formats
    PROVE  Fits(E!Escape(c), E!Room) /\ E!Room \in 2..6
<1>1. CASE format = "HTML"
  <2>1. E!Escape(c) = E!HtmlEscape(c) /\ E!Room = 6
    BY <1>1 DEF E!Escape, E!Room
  <2>2. \/ E!HtmlEscape(c) = <<"&", "a", "m", "p", ";">>
        \/ E!HtmlEscape(c) = <<"&", "q", "u", "o", "t", ";">>
        \/ E!HtmlEscape(c) = <<"&", "a", "p", "o", "s", ";">>
        \/ E!HtmlEscape(c) = <<"&", "l", "t", ";">>
        \/ E!HtmlEscape(c) = <<"&", "g", "t", ";">>
        \/ E!HtmlEscape(c) = <<"&", "n", "b", "s", "p", ";">>
        \/ E!HtmlEscape(c) = E!Plain(c)
    BY DEF E!HtmlEscape
  <2>3. /\ Fits(<<"&", "a", "m", "p", ";">>, 6) /\ Fits(<<"&", "l", "t", ";">>, 6)
        /\ Fits(<<"&", "g", "t", ";">>, 6)
    BY Letters, TuplesFit
  <2>4. /\ Fits(<<"&", "q", "u", "o", "t", ";">>, 6) /\ Fits(<<"&", "a", "p", "o", "s", ";">>, 6)
        /\ Fits(<<"&", "n", "b", "s", "p", ";">>, 6)
    BY Letters, TuplesFit
  <2>5. Fits(E!HtmlEscape(c), 6)
    BY PlainFits, <2>2, <2>3, <2>4, Zenon
  <2> QED
    BY <2>1, <2>5
<1>2. CASE format # "HTML"
  <2>1. E!Room = 2
    BY <1>2 DEF E!Room
  <2>2. \/ E!Escape(c) = E!JsonEscape(c) \/ E!Escape(c) = E!LuaEscape(c)
        \/ E!Escape(c) = E!YamlEscape(c) \/ E!Escape(c) = E!Plain(c)
    BY <1>2 DEF E!Formats, E!Escape
  <2>3. /\ E!JsonEscape(c) = E!Lettered(c) \/ E!JsonEscape(c) = <<"\\", c>>
        /\ E!LuaEscape(c) = E!Lettered(c) \/ E!LuaEscape(c) = <<"\\", c>>
        /\ E!YamlEscape(c) = E!Lettered(c) \/ E!YamlEscape(c) = <<"'", "'">>
    BY DEF E!JsonEscape, E!LuaEscape, E!YamlEscape
  <2>4. Fits(<<"'", "'">>, 2)
    BY Letters, TuplesFit
  <2>5. Fits(E!Escape(c), 2)
    BY PlainFits, <2>2, <2>3, <2>4, Zenon
  <2> QED
    BY <2>1, <2>5
<1> QED
  BY <1>1, <1>2

----------------------------------------------------------------------------
(* The escapes: reading them back.                                          *)

Sofar(read, pending) == [read |-> read, pending |-> pending, sound |-> TRUE]

\* A character that is read as it is.
Clear(c) == c \in Letter /\ c # E!Starter /\ c \notin E!Forbidden /\ ~E!Control(c)

\* An escape a reader takes for c, and not before it has all of it.
Stands(escape, c) ==
    /\ escape \in Seq(Letter) /\ Len(escape) \in 2..6
    /\ escape[1] = E!Starter
    /\ E!IsKnown(escape) /\ E!Meaning(escape) = c
    /\ \A k \in 1..Len(escape) - 1 : ~E!IsKnown(SubSeq(escape, 1, k))

\* Escapes begin with their starter, have more characters than that, and other lines of
\* the table begin otherwise.
LEMMA OneMeaning ==
    ASSUME NEW escape, NEW c, <<escape, c>> \in E!Known,
           \A other \in E!Known : other[1] = escape => other[2] = c
    PROVE  E!IsKnown(escape) /\ E!Meaning(escape) = c
  BY DEF E!IsKnown, E!Meaning

LEMMA NoShortEscape ==
    ASSUME NEW c, format \in E!Formats
    PROVE  ~E!IsKnown(<<c>>)
<1> SUFFICES ASSUME NEW known \in E!Known, known[1] = <<c>> PROVE FALSE
  BY DEF E!IsKnown
<1>1. known \in E!LuaKnown \/ known \in E!YamlKnown \/ known \in E!HtmlKnown
  BY Zenon DEF E!Known, E!Formats, E!LuaKnown
<1>2. CASE known \in E!LuaKnown
  <2>1. PICK a, b, d : known = <<<<a, b>>, d>>
    BY <1>2, Zenon DEF E!LuaKnown, E!JsonKnown
  <2> QED
    BY <2>1
<1>3. CASE known \in E!YamlKnown
  <2>1. known[1] = <<"'", "'">>
    BY <1>3 DEF E!YamlKnown
  <2> QED
    BY <2>1
<1>4. CASE known \in E!HtmlKnown
  <2>1. \/ \E a, b, d, e, f, g : known = <<<<a, b, d, e>>, f>>
        \/ \E a, b, d, e, f, g : known = <<<<a, b, d, e, f>>, g>>
        \/ \E a, b, d, e, f, g, h : known = <<<<a, b, d, e, f, g>>, h>>
    BY <1>4, Zenon DEF E!HtmlKnown
  <2> QED
    BY <2>1
<1> QED
  BY <1>1, <1>2, <1>3, <1>4

LEMMA ClearRead ==
    ASSUME format \in E!Formats, NEW read \in Seq(Letter), NEW c, Clear(c)
    PROVE  E!Read(Sofar(read, <<>>), c) = Sofar(Append(read, c), <<>>)
<1>1. Append(<<>>, c) = <<c>>
  OBVIOUS
<1> QED
  BY <1>1, NoShortEscape DEF E!Read, Sofar, Clear

\* The beginning of a sequence, and one more element of it.
LEMMA OneMore ==
    ASSUME NEW e \in Seq(Letter), NEW i \in 0..Len(e) - 1
    PROVE  /\ SubSeq(e, 1, i) \in Seq(Letter) /\ Len(SubSeq(e, 1, i)) = i
           /\ e[i + 1] \in Letter
           /\ Append(SubSeq(e, 1, i), e[i + 1]) = SubSeq(e, 1, i + 1)
<1> DEFINE less == SubSeq(e, 1, i)
           more == SubSeq(e, 1, i + 1)
           new == e[i + 1]
<1>1. less \in Seq(Letter) /\ Len(less) = i
  OBVIOUS
<1>2. \A k \in 1..i : less[k] = e[k]
  OBVIOUS
<1>3. more \in Seq(Letter) /\ Len(more) = i + 1
  OBVIOUS
<1>4. \A k \in 1..i + 1 : more[k] = e[k]
  OBVIOUS
<1>5. new \in Letter
  OBVIOUS
<1> HIDE DEF less, more, new
<1>6. Append(less, new) \in Seq(Letter) /\ Len(Append(less, new)) = i + 1
  BY <1>1, <1>5, AppendProperties
<1>7. \A k \in 1..i + 1 : Append(less, new)[k] = e[k]
  <2>1. Append(less, new)[i + 1] = new
    BY <1>1, <1>5, AppendProperties
  <2>2. \A k \in 1..i : Append(less, new)[k] = less[k]
    BY <1>1, <1>5, AppendProperties
  <2>3. Append(less, new)[i + 1] = e[i + 1]
    BY <2>1 DEF new
  <2>4. \A k \in 1..i : Append(less, new)[k] = e[k]
    BY <1>2, <2>2
  <2>5. \A k \in 1..i + 1 : k \in 1..i \/ k = i + 1
    OBVIOUS
  <2> QED
    BY <2>3, <2>4, <2>5, Zenon
<1>8. Append(less, new) = more
  BY <1>3, <1>4, <1>6, <1>7, SeqEqual
<1> QED
  BY <1>1, <1>5, <1>8 DEF less, more, new

LEMMA EscapeRead ==
    ASSUME format \in E!Formats, NEW read \in Seq(Letter), NEW escape, NEW c, Stands(escape, c),
           NEW q, q[0] = Sofar(read, <<>>),
           \A i \in 1..Len(escape) : q[i] = E!Read(q[i - 1], escape[i])
    PROVE  q[Len(escape)] = Sofar(Append(read, c), <<>>)
<1> DEFINE n == Len(escape)
           Part(i) == SubSeq(escape, 1, i)
<1>1. escape \in Seq(Letter) /\ n \in 2..6 /\ DOMAIN escape = 1..n
  BY DEF Stands
<1>2. ASSUME NEW i \in 0..n - 1 PROVE Append(Part(i), escape[i + 1]) = Part(i + 1)
  BY <1>1, OneMore
<1>3. Part(0) = <<>> /\ Part(n) = escape
  BY <1>1, SubSeqFull, SubSeqEmpty
<1>4. ASSUME NEW i \in 1..n - 1 PROVE Part(i) # <<>> /\ ~E!IsKnown(Part(i))
  <2>1. Len(Part(i)) = i
    BY <1>1
  <2> QED
    BY <2>1 DEF Stands
<1> HIDE DEF Part, n
<1>5. ASSUME NEW i \in 0..n - 2, q[i] = Sofar(read, Part(i))
      PROVE  q[i + 1] = Sofar(read, Part(i + 1))
  <2>1. q[i + 1] = E!Read(Sofar(read, Part(i)), escape[i + 1])
    <3>1. i + 1 \in 1..Len(escape) /\ (i + 1) - 1 = i
      BY <1>1 DEF n
    <3> QED
      BY <1>5, <3>1
  <2>2. Append(Part(i), escape[i + 1]) = Part(i + 1) /\ ~E!IsKnown(Part(i + 1))
    BY <1>1, <1>2, <1>4
  <2>3. Part(i) # <<>> \/ escape[i + 1] = E!Starter
    <3>1. CASE i = 0
      BY <3>1 DEF Stands
    <3>2. CASE i # 0
      BY <1>1, <1>4, <3>2
    <3> QED
      BY <3>1, <3>2
  <2> QED
    BY <2>1, <2>2, <2>3 DEF E!Read, Sofar
<1>6. \A i \in 0..5 : i <= n - 1 => q[i] = Sofar(read, Part(i))
  <2>0. q[0] = Sofar(read, Part(0))
    BY <1>3
  <2>1. q[1] = Sofar(read, Part(1))
    BY <1>1, <1>5, <2>0, 0 \in 0..n - 2
  <2>2. 2 <= n - 1 => q[2] = Sofar(read, Part(2))
    BY <1>1, <1>5, <2>1, 2 <= n - 1 => 1 \in 0..n - 2
  <2>3. 3 <= n - 1 => q[3] = Sofar(read, Part(3))
    BY <1>1, <1>5, <2>2, 3 <= n - 1 => 2 \in 0..n - 2
  <2>4. 4 <= n - 1 => q[4] = Sofar(read, Part(4))
    BY <1>1, <1>5, <2>3, 4 <= n - 1 => 3 \in 0..n - 2
  <2>5. 5 <= n - 1 => q[5] = Sofar(read, Part(5))
    BY <1>1, <1>5, <2>4, 5 <= n - 1 => 4 \in 0..n - 2
  <2> QED
    BY <2>0, <2>1, <2>2, <2>3, <2>4, <2>5
<1>7. q[n - 1] = Sofar(read, Part(n - 1))
  BY <1>1, <1>6
<1>8. q[n] = E!Read(q[n - 1], escape[n])
  BY <1>1 DEF n
<1>9. Append(Part(n - 1), escape[n]) = escape
  <2>1. n - 1 \in 0..n - 1 /\ (n - 1) + 1 = n
    BY <1>1
  <2> QED
    BY <1>2, <1>3, <2>1
<1>10. q[n] = Sofar(Append(read, c), <<>>)
  <2>1. E!IsKnown(escape) /\ E!Meaning(escape) = c
    BY DEF Stands
  <2>2. q[n] = E!Read(Sofar(read, Part(n - 1)), escape[n])
    BY <1>7, <1>8
  <2>3. E!Read(Sofar(read, Part(n - 1)), escape[n]) = Sofar(Append(read, c), <<>>)
    BY <1>9, <2>1 DEF E!Read, Sofar
  <2> QED
    BY <2>2, <2>3
<1> QED
  BY <1>10 DEF n

\* An escape of two characters.
LEMMA PairStands ==
    ASSUME format \in E!Formats, NEW a \in Letter, NEW b \in Letter, NEW c, a = E!Starter,
           <<<<a, b>>, c>> \in E!Known,
           \A other \in E!Known : other[1] = <<a, b>> => other[2] = c
    PROVE  Stands(<<a, b>>, c)
<1>1. E!IsKnown(<<a, b>>) /\ E!Meaning(<<a, b>>) = c
  BY OneMeaning
<1>2. <<a, b>> \in Seq(Letter) /\ Len(<<a, b>>) = 2 /\ <<a, b>>[1] = a
  OBVIOUS
<1>3. SubSeq(<<a, b>>, 1, 1) = <<a>>
  <2>1. /\ SubSeq(<<a, b>>, 1, 1) \in Seq(Letter) /\ Len(SubSeq(<<a, b>>, 1, 1)) = 1
        /\ SubSeq(<<a, b>>, 1, 1)[1] = a
    BY <1>2
  <2>2. <<a>> \in Seq(Letter) /\ Len(<<a>>) = 1 /\ <<a>>[1] = a
    OBVIOUS
  <2> DEFINE cut == SubSeq(<<a, b>>, 1, 1)
             one == <<a>>
  <2> HIDE DEF cut, one
  <2>3. \A i \in 1..Len(cut) : cut[i] = one[i]
    BY <2>1, <2>2 DEF cut, one
  <2>4. cut = one
    BY <2>1, <2>2, <2>3, SeqEqual DEF cut, one
  <2> QED
    BY <2>4 DEF cut, one
<1>4. \A k \in 1..Len(<<a, b>>) - 1 : k = 1
  BY <1>2
<1>5. \A k \in 1..Len(<<a, b>>) - 1 : ~E!IsKnown(SubSeq(<<a, b>>, 1, k))
  BY <1>3, <1>4, NoShortEscape
<1> QED
  BY <1>1, <1>2, <1>5 DEF Stands

\* The second character of an escape of JSON or Lua, and what it stands for.
Slashed(b, c) ==
    \/ b = "n" /\ c = "nl"
    \/ b = "r" /\ c = "cr"
    \/ b = "t" /\ c = "tab"
    \/ b \in {"\"", "\\", "'"} /\ c = b

LEMMA SlashStands ==
    ASSUME format \in {"JSON", "Lua"}, NEW b \in Letter, NEW c, Slashed(b, c),
           b = "'" => format = "Lua"
    PROVE  Stands(<<"\\", b>>, c)
<1>1. /\ format = "JSON" => E!Known = E!JsonKnown
      /\ format = "Lua" => E!Known = E!LuaKnown
      /\ E!Starter = "\\" /\ format \in E!Formats
  BY Zenon DEF E!Known, E!Starter, E!Formats
<1>2. <<<<"\\", b>>, c>> \in E!Known
  BY <1>1 DEF Slashed, E!LuaKnown, E!JsonKnown
<1>3. ASSUME NEW other \in E!Known, other[1] = <<"\\", b>> PROVE other[2] = c
  <2>1. other \in E!LuaKnown
    BY <1>1 DEF E!LuaKnown
  <2>2. PICK b2, c2 : other = <<<<"\\", b2>>, c2>> /\ Slashed(b2, c2)
    <3>1. \/ other = <<<<"\\", "\"">>, "\"">> \/ other = <<<<"\\", "\\">>, "\\">>
          \/ other = <<<<"\\", "n">>, "nl">> \/ other = <<<<"\\", "r">>, "cr">>
          \/ other = <<<<"\\", "t">>, "tab">> \/ other = <<<<"\\", "'">>, "'">>
      BY <2>1, Zenon DEF E!LuaKnown, E!JsonKnown
    <3>2. /\ Slashed("\"", "\"") /\ Slashed("\\", "\\") /\ Slashed("'", "'")
          /\ Slashed("n", "nl") /\ Slashed("r", "cr") /\ Slashed("t", "tab")
      BY DEF Slashed
    <3> QED
      BY <3>1, <3>2, Zenon
  <2>3. <<"\\", b2>> = <<"\\", b>> /\ other[2] = c2
    BY <1>3, <2>2
  <2>4. b2 = b
    BY <2>3
  <2> QED
    BY <2>2, <2>3, <2>4 DEF Slashed
<1> QED
  BY <1>1, <1>2, <1>3, Letters, PairStands

LEMMA QuoteStands ==
    ASSUME format = "YAML"
    PROVE  Stands(<<"'", "'">>, "'")
<1>1. E!Known = E!YamlKnown /\ E!Starter = "'" /\ format \in E!Formats
  BY Zenon DEF E!Known, E!Starter, E!Formats
<1>2. <<<<"'", "'">>, "'">> \in E!Known
  BY <1>1 DEF E!YamlKnown
<1>3. \A other \in E!Known : other[1] = <<"'", "'">> => other[2] = "'"
  BY <1>1 DEF E!YamlKnown
<1>4. "'" \in Letter
  BY Letters
<1> QED
  BY <1>1, <1>2, <1>3, <1>4, PairStands

\* The escapes of HTML end with the only semicolon they have.
Semicolon == ";"
HtmlPart(escape) ==
    /\ escape \in Seq(Letter) /\ Len(escape) \in 4..6 /\ escape[1] = "&"
    /\ escape[Len(escape)] = Semicolon
    /\ \A i \in 1..Len(escape) - 1 : escape[i] # Semicolon

LEMMA HtmlTuples ==
    ASSUME NEW a \in Letter, NEW b \in Letter, NEW c \in Letter, NEW d \in Letter,
           a # Semicolon, b # Semicolon, c # Semicolon, d # Semicolon
    PROVE  /\ HtmlPart(<<"&", a, b, Semicolon>>)
           /\ HtmlPart(<<"&", a, b, c, Semicolon>>)
           /\ HtmlPart(<<"&", a, b, c, d, Semicolon>>)
<1>1. "&" \in Letter /\ Semicolon \in Letter /\ "&" # Semicolon
  <2>1. "&" \in Letter /\ Semicolon \in Letter
    BY Letters, Zenon DEF Semicolon
  <2>2. "&" # Semicolon
    BY Zenon DEF Semicolon
  <2> QED
    BY <2>1, <2>2
<1>2. HtmlPart(<<"&", a, b, Semicolon>>)
  <2> DEFINE e == <<"&", a, b, Semicolon>>
  <2>1. e \in Seq(Letter) /\ Len(e) = 4 /\ e[1] = "&" /\ e[2] = a /\ e[3] = b /\ e[4] = Semicolon
    BY <1>1
  <2> HIDE DEF e
  <2>2. \A i \in 1..3 : i = 1 \/ i = 2 \/ i = 3
    OBVIOUS
  <2>3. \A i \in 1..3 : e[i] # Semicolon
    BY <1>1, <2>1, <2>2
  <2>4. HtmlPart(e)
    BY <2>1, <2>3 DEF HtmlPart
  <2> QED
    BY <2>4 DEF e
<1>3. HtmlPart(<<"&", a, b, c, Semicolon>>)
  <2> DEFINE e == <<"&", a, b, c, Semicolon>>
  <2>1. /\ e \in Seq(Letter) /\ Len(e) = 5
        /\ e[1] = "&" /\ e[2] = a /\ e[3] = b /\ e[4] = c /\ e[5] = Semicolon
    BY <1>1
  <2> HIDE DEF e
  <2>2. \A i \in 1..4 : i = 1 \/ i = 2 \/ i = 3 \/ i = 4
    OBVIOUS
  <2>3. \A i \in 1..4 : e[i] # Semicolon
    BY <1>1, <2>1, <2>2
  <2>4. HtmlPart(e)
    BY <2>1, <2>3 DEF HtmlPart
  <2> QED
    BY <2>4 DEF e
<1>4. HtmlPart(<<"&", a, b, c, d, Semicolon>>)
  <2> DEFINE e == <<"&", a, b, c, d, Semicolon>>
  <2>1. /\ e \in Seq(Letter) /\ Len(e) = 6
        /\ e[1] = "&" /\ e[2] = a /\ e[3] = b /\ e[4] = c /\ e[5] = d /\ e[6] = Semicolon
    BY <1>1
  <2> HIDE DEF e
  <2>2. \A i \in 1..5 : i = 1 \/ i = 2 \/ i = 3 \/ i = 4 \/ i = 5
    OBVIOUS
  <2>3. \A i \in 1..5 : e[i] # Semicolon
    BY <1>1, <2>1, <2>2
  <2>4. HtmlPart(e)
    BY <2>1, <2>3 DEF HtmlPart
  <2> QED
    BY <2>4 DEF e
<1> QED
  BY <1>2, <1>3, <1>4

\* The letters an escape of HTML is told by, and what it stands for.
Named(escape, c) ==
    \/ escape[2] = "a" /\ escape[3] = "m" /\ c = "&"
    \/ escape[2] = "a" /\ escape[3] = "p" /\ c = "'"
    \/ escape[2] = "q" /\ c = "\""
    \/ escape[2] = "l" /\ c = "<"
    \/ escape[2] = "g" /\ c = ">"
    \/ escape[2] = "n" /\ c = " "

LEMMA OneName ==
    ASSUME NEW escape, NEW c, NEW other, Named(escape, c), Named(escape, other)
    PROVE  other = c
  BY DEF Named

LEMMA HtmlForms ==
    ASSUME NEW escape, NEW c, <<escape, c>> \in E!HtmlKnown
    PROVE  HtmlPart(escape) /\ Named(escape, c)
<1>1. \/ escape = <<"&", "a", "m", "p", Semicolon>> /\ c = "&"
      \/ escape = <<"&", "q", "u", "o", "t", Semicolon>> /\ c = "\""
      \/ escape = <<"&", "a", "p", "o", "s", Semicolon>> /\ c = "'"
      \/ escape = <<"&", "l", "t", Semicolon>> /\ c = "<"
      \/ escape = <<"&", "g", "t", Semicolon>> /\ c = ">"
      \/ escape = <<"&", "n", "b", "s", "p", Semicolon>> /\ c = " "
  BY Zenon DEF E!HtmlKnown, Semicolon
<1>2. \A s \in {"a", "b", "g", "l", "m", "n", "o", "p", "q", "s", "t", "u"} :
            s \in Letter /\ s # Semicolon
  BY Letters, Zenon DEF Semicolon
<1>3. /\ HtmlPart(<<"&", "l", "t", Semicolon>>) /\ HtmlPart(<<"&", "g", "t", Semicolon>>)
      /\ HtmlPart(<<"&", "a", "m", "p", Semicolon>>)
      /\ HtmlPart(<<"&", "q", "u", "o", "t", Semicolon>>)
      /\ HtmlPart(<<"&", "a", "p", "o", "s", Semicolon>>)
      /\ HtmlPart(<<"&", "n", "b", "s", "p", Semicolon>>)
  BY <1>2, HtmlTuples
<1>4. HtmlPart(escape)
  BY <1>1, <1>3
<1>5. Named(escape, c)
  <2>1. CASE escape = <<"&", "a", "m", "p", Semicolon>> /\ c = "&"
    BY <2>1 DEF Named
  <2>2. CASE escape = <<"&", "q", "u", "o", "t", Semicolon>> /\ c = "\""
    BY <2>2 DEF Named
  <2>3. CASE escape = <<"&", "a", "p", "o", "s", Semicolon>> /\ c = "'"
    BY <2>3 DEF Named
  <2>4. CASE escape = <<"&", "l", "t", Semicolon>> /\ c = "<"
    BY <2>4 DEF Named
  <2>5. CASE escape = <<"&", "g", "t", Semicolon>> /\ c = ">"
    BY <2>5 DEF Named
  <2>6. CASE escape = <<"&", "n", "b", "s", "p", Semicolon>> /\ c = " "
    BY <2>6 DEF Named
  <2> QED
    BY <1>1, <2>1, <2>2, <2>3, <2>4, <2>5, <2>6
<1> QED
  BY <1>4, <1>5

LEMMA HtmlStands ==
    ASSUME format = "HTML", NEW escape, NEW c, <<escape, c>> \in E!HtmlKnown
    PROVE  Stands(escape, c)
<1>1. E!Known = E!HtmlKnown /\ E!Starter = "&"
  BY Zenon DEF E!Known, E!Starter
<1>2. HtmlPart(escape) /\ Named(escape, c)
  BY HtmlForms
<1>3. ASSUME NEW other \in E!HtmlKnown
      PROVE  \E e, d : other = <<e, d>> /\ e = other[1] /\ d = other[2]
                       /\ HtmlPart(e) /\ Named(e, d)
  <2>1. PICK e, d : other = <<e, d>>
    BY <1>3, Zenon DEF E!HtmlKnown
  <2> QED
    BY <2>1, HtmlForms
<1>4. ASSUME NEW other \in E!Known, other[1] = escape PROVE other[2] = c
  <2>1. Named(escape, other[2])
    BY <1>1, <1>3, <1>4
  <2> QED
    BY <1>2, <2>1, OneName
<1>5. E!IsKnown(escape) /\ E!Meaning(escape) = c
  BY <1>1, <1>4, OneMeaning
<1>6. ASSUME NEW k \in 1..Len(escape) - 1 PROVE ~E!IsKnown(SubSeq(escape, 1, k))
  <2> SUFFICES ASSUME NEW known \in E!Known, known[1] = SubSeq(escape, 1, k) PROVE FALSE
    BY DEF E!IsKnown
  <2>1. HtmlPart(SubSeq(escape, 1, k))
    BY <1>1, <1>3
  <2>2. escape \in Seq(Letter) /\ k \in 1..Len(escape) /\ escape[k] # Semicolon
    BY <1>2 DEF HtmlPart
  <2>3. Len(SubSeq(escape, 1, k)) = k /\ SubSeq(escape, 1, k)[k] = escape[k]
    BY <2>2
  <2>4. escape[k] = Semicolon
    BY <2>1, <2>3 DEF HtmlPart
  <2> QED
    BY <2>2, <2>4
<1>7. escape \in Seq(Letter) /\ Len(escape) \in 2..6 /\ escape[1] = E!Starter
  BY <1>1, <1>2 DEF HtmlPart
<1> QED
  BY <1>5, <1>6, <1>7 DEF Stands

\* What a turn of the loop writes, and what is left of the character it is for.
Turn(escape, left) ==
    \/ \E a : Clear(a) /\ escape = <<a>> /\ left = <<a>>
    \/ \E a, b : Clear(a) /\ Clear(b) /\ escape = <<a, b>> /\ left = <<a, b>>
    \/ \E c \in Letter : Stands(escape, c) /\ left = <<c>>

\* A character without an escape of its own.
LEMMA PlainTurn ==
    ASSUME NEW c \in Letter, c # E!Starter, c \notin E!Forbidden, Clear(" ")
    PROVE  Turn(E!Plain(c), E!Plain(c))
<1>1. CASE E!Control(c)
  BY <1>1 DEF Turn, E!Plain
<1>2. CASE ~E!Control(c)
  BY <1>2 DEF Turn, E!Plain, Clear
<1> QED
  BY <1>1, <1>2

\* The characters JSON and Lua put a backslash before.
Quoted == IF format = "Lua" THEN {"\"", "'", "\\"} ELSE {"\"", "\\"}

LEMMA SlashTurn ==
    ASSUME format \in {"JSON", "Lua"}, NEW c \in Letter
    PROVE  Turn(E!Escape(c), E!Told(c))
<1>1. E!Starter = "\\" /\ E!Forbidden = {"\""} /\ E!Told(c) = IF c = "ctl" THEN <<" ">> ELSE <<c>>
  BY Zenon DEF E!Starter, E!Forbidden, E!Told
<1>2. E!Escape(c) = IF c \in Quoted THEN <<"\\", c>> ELSE E!Lettered(c)
  BY DEF E!Escape, E!JsonEscape, E!LuaEscape, Quoted
<1>3. Clear(" ")
  BY <1>1, Letters DEF Clear, E!Control
<1>4. CASE c \in Quoted
  <2>1. Stands(<<"\\", c>>, c)
    BY <1>4, SlashStands DEF Slashed, Quoted
  <2>2. E!Told(c) = <<c>>
    BY <1>1, <1>4 DEF Quoted
  <2> QED
    BY <1>2, <1>4, <2>1, <2>2 DEF Turn
<1>5. ASSUME NEW b \in Letter, Slashed(b, c), b \in {"n", "r", "t"}, E!Lettered(c) = <<"\\", b>>
      PROVE  Turn(E!Escape(c), E!Told(c))
  <2>1. Stands(<<"\\", b>>, c)
    BY <1>5, SlashStands
  <2>2. c \notin Quoted /\ c # "ctl"
    BY <1>5 DEF Slashed, Quoted
  <2> QED
    BY <1>1, <1>2, <1>5, <2>1, <2>2 DEF Turn
<1>6. CASE c = "nl"
  BY <1>5, <1>6, Letters DEF Slashed, E!Lettered
<1>7. CASE c = "cr"
  BY <1>5, <1>7, Letters DEF Slashed, E!Lettered
<1>8. CASE c = "tab"
  BY <1>5, <1>8, Letters DEF Slashed, E!Lettered
<1>9. CASE c \notin Quoted /\ c \notin {"nl", "cr", "tab"}
  <2>1. E!Escape(c) = E!Plain(c)
    BY <1>2, <1>9 DEF E!Lettered
  <2>2. E!Told(c) = E!Plain(c)
    BY <1>1, <1>9 DEF E!Plain, E!Control
  <2>3. c # E!Starter /\ c \notin E!Forbidden
    BY <1>1, <1>9 DEF Quoted
  <2> QED
    BY <1>3, <2>1, <2>2, <2>3, PlainTurn
<1> QED
  BY <1>4, <1>6, <1>7, <1>8, <1>9

LEMMA QuoteTurn ==
    ASSUME format = "YAML", NEW c \in Letter
    PROVE  Turn(E!Escape(c), E!Told(c))
<1>1. E!Starter = "'" /\ E!Forbidden = {} /\ E!Told(c) = E!Lettered(c)
  BY Zenon DEF E!Starter, E!Forbidden, E!Told
<1>2. E!Escape(c) = IF c = "'" THEN <<"'", "'">> ELSE E!Lettered(c)
  BY DEF E!Escape, E!YamlEscape
<1>3. \A a \in {" ", "\\", "n", "r", "t"} : Clear(a)
  BY <1>1, Letters DEF Clear, E!Control
<1>4. CASE c = "'"
  <2>1. E!Told(c) = <<c>>
    BY <1>1, <1>4 DEF E!Lettered, E!Plain, E!Control
  <2> QED
    BY <1>2, <1>4, <2>1, QuoteStands DEF Turn
<1>5. CASE c # "'" /\ c \in {"nl", "cr", "tab"}
  <2>1. PICK b \in {"n", "r", "t"} : E!Lettered(c) = <<"\\", b>>
    BY <1>5 DEF E!Lettered
  <2> QED
    BY <1>1, <1>2, <1>3, <1>5, <2>1 DEF Turn
<1>6. CASE c # "'" /\ c \notin {"nl", "cr", "tab"}
  <2>1. E!Lettered(c) = E!Plain(c)
    BY <1>6 DEF E!Lettered
  <2> QED
    BY <1>1, <1>2, <1>3, <1>6, <2>1, PlainTurn
<1> QED
  BY <1>4, <1>5, <1>6

LEMMA TreeTurn ==
    ASSUME format = "TREE", NEW c \in Letter
    PROVE  Turn(E!Escape(c), E!Told(c))
<1>1. /\ E!Starter = "" /\ E!Forbidden = {}
      /\ E!Told(c) = E!Plain(c) /\ E!Escape(c) = E!Plain(c)
  BY Zenon DEF E!Starter, E!Forbidden, E!Told, E!Escape
<1>2. \A a \in Letter : a # ""
  BY DEF Letter
<1>3. Clear(" ")
  BY <1>1, Letters DEF Clear, E!Control
<1> QED
  BY <1>1, <1>2, <1>3, PlainTurn

LEMMA HtmlTurn ==
    ASSUME format = "HTML", NEW c \in Letter
    PROVE  Turn(E!Escape(c), E!Told(c))
<1>1. /\ E!Starter = "&" /\ E!Forbidden = {"<", ">"}
      /\ E!Told(c) = E!Plain(c) /\ E!Escape(c) = E!HtmlEscape(c)
  BY Zenon DEF E!Starter, E!Forbidden, E!Told, E!Escape
<1>2. \/ <<E!HtmlEscape(c), c>> \in E!HtmlKnown /\ c \in {"&", "\"", "'", "<", ">"}
      \/ <<E!HtmlEscape(c), " ">> \in E!HtmlKnown /\ c = "nl"
      \/ E!HtmlEscape(c) = E!Plain(c) /\ c \notin {"&", "\"", "'", "<", ">"}
  BY Zenon DEF E!HtmlEscape, E!HtmlKnown
<1>3. Clear(" ")
  BY <1>1, Letters DEF Clear, E!Control
<1>4. CASE <<E!HtmlEscape(c), c>> \in E!HtmlKnown /\ c \in {"&", "\"", "'", "<", ">"}
  <2>1. E!Plain(c) = <<c>>
    BY <1>4 DEF E!Plain, E!Control
  <2> QED
    BY <1>1, <1>4, <2>1, HtmlStands DEF Turn
<1>5. CASE <<E!HtmlEscape(c), " ">> \in E!HtmlKnown /\ c = "nl"
  <2>1. E!Plain(c) = <<" ">>
    BY <1>5 DEF E!Plain, E!Control
  <2> QED
    BY <1>1, <1>5, <2>1, HtmlStands, Letters DEF Turn
<1>6. CASE E!HtmlEscape(c) = E!Plain(c) /\ c \notin {"&", "\"", "'", "<", ">"}
  BY <1>1, <1>3, <1>6, PlainTurn
<1> QED
  BY <1>2, <1>4, <1>5, <1>6

\* Whatever the format and the character, a turn of its loop can be read back.
LEMMA EveryTurn ==
    ASSUME format \in E!Formats, NEW c \in Letter
    PROVE  Turn(E!Escape(c), E!Told(c))
<1>1. format \in {"JSON", "Lua"} \/ format = "YAML" \/ format = "TREE" \/ format = "HTML"
  BY DEF E!Formats
<1> QED
  BY <1>1, SlashTurn, QuoteTurn, TreeTurn, HtmlTurn

\* What the reader has after the characters of one turn.
LEMMA TurnRead ==
    ASSUME format \in E!Formats, NEW read \in Seq(Letter), NEW escape, NEW left,
           Turn(escape, left), NEW q, q[0] = Sofar(read, <<>>),
           \A i \in 1..Len(escape) : q[i] = E!Read(q[i - 1], escape[i])
    PROVE  q[Len(escape)] = Sofar(read \o left, <<>>) /\ read \o left \in Seq(Letter)
<1>1. ASSUME NEW a, Clear(a), escape = <<a>>, left = <<a>>
      PROVE  q[Len(escape)] = Sofar(read \o left, <<>>) /\ read \o left \in Seq(Letter)
  <2>1. a \in Letter
    BY <1>1 DEF Clear
  <2>2. Len(escape) = 1 /\ escape[1] = a /\ Append(read, a) = read \o <<a>>
    BY <1>1, <2>1, AppendIsConcat
  <2>3. q[1] = E!Read(q[0], a)
    <3>1. 1 \in 1..Len(escape) /\ 1 - 1 = 0
      BY <2>2
    <3> QED
      BY <2>2, <3>1
  <2>4. q[1] = Sofar(Append(read, a), <<>>)
    BY <1>1, <2>3, ClearRead
  <2>5. read \o left \in Seq(Letter)
    BY <1>1, <2>1
  <2> QED
    BY <1>1, <2>2, <2>4, <2>5
<1>2. ASSUME NEW a, NEW b, Clear(a), Clear(b), escape = <<a, b>>, left = <<a, b>>
      PROVE  q[Len(escape)] = Sofar(read \o left, <<>>) /\ read \o left \in Seq(Letter)
  <2>1. a \in Letter /\ b \in Letter
    BY <1>2 DEF Clear
  <2>2. Len(escape) = 2 /\ escape[1] = a /\ escape[2] = b
    BY <1>2
  <2>3. Append(read, a) \in Seq(Letter) /\ Append(Append(read, a), b) = read \o <<a, b>>
    BY <2>1
  <2>4. q[1] = E!Read(q[0], a) /\ q[2] = E!Read(q[1], b)
    BY <2>2
  <2>5. q[1] = Sofar(Append(read, a), <<>>)
    BY <1>2, <2>4, ClearRead
  <2>6. q[2] = Sofar(Append(Append(read, a), b), <<>>)
    BY <1>2, <2>3, <2>4, <2>5, ClearRead
  <2> QED
    BY <1>2, <2>1, <2>2, <2>3, <2>6
<1>3. ASSUME NEW c \in Letter, Stands(escape, c), left = <<c>>
      PROVE  q[Len(escape)] = Sofar(read \o left, <<>>) /\ read \o left \in Seq(Letter)
  <2>1. q[Len(escape)] = Sofar(Append(read, c), <<>>)
    BY <1>3, EscapeRead
  <2>2. Append(read, c) = read \o left
    BY <1>3, AppendIsConcat
  <2> QED
    BY <1>3, <2>1, <2>2
<1> QED
  BY <1>1, <1>2, <1>3 DEF Turn

----------------------------------------------------------------------------
(* The escapes: a whole text.                                               *)

\* r is what a reader has after each character of b, k what is left of the first
\* characters of the text.
Reading(r, b) ==
    r = [i \in 0..Len(b) |-> IF i = 0 THEN Sofar(<<>>, <<>>) ELSE E!Read(r[i - 1], b[i])]
Keeping(k, n) ==
    k = [i \in 0..n |-> IF i = 0 THEN <<>> ELSE k[i - 1] \o E!Told(text[i])]

\* The first characters are read the same way whatever follows them.
LEMMA ReadBefore ==
    ASSUME NEW b \in Seq(Letter), NEW e \in Seq(Letter), NEW r, Reading(r, b \o e)
    PROVE  Reading([i \in 0..Len(b) |-> r[i]], b)
<1> DEFINE f == [i \in 0..Len(b) |-> r[i]]
<1>1. b \o e \in Seq(Letter) /\ Len(b \o e) = Len(b) + Len(e)
  BY ConcatProperties
<1>2. \A i \in 1..Len(b) : (b \o e)[i] = b[i]
  BY ConcatProperties
<1>3. ASSUME NEW i \in 0..Len(b)
      PROVE  f[i] = IF i = 0 THEN Sofar(<<>>, <<>>) ELSE E!Read(f[i - 1], b[i])
  <2>1. i \in 0..Len(b \o e)
    BY <1>1
  <2>2. r[i] = IF i = 0 THEN Sofar(<<>>, <<>>) ELSE E!Read(r[i - 1], (b \o e)[i])
    BY <2>1 DEF Reading
  <2>3. i # 0 => i - 1 \in 0..Len(b) /\ i \in 1..Len(b)
    OBVIOUS
  <2> QED
    BY <1>2, <2>2, <2>3
<1> QED
  BY <1>3 DEF Reading

LEMMA KeptBefore ==
    ASSUME NEW n \in Nat, NEW k, Keeping(k, n + 1)
    PROVE  /\ Keeping([i \in 0..n |-> k[i]], n)
           /\ k[n + 1] = k[n] \o E!Told(text[n + 1])
<1> DEFINE f == [i \in 0..n |-> k[i]]
<1>1. ASSUME NEW i \in 0..n + 1
      PROVE  k[i] = IF i = 0 THEN <<>> ELSE k[i - 1] \o E!Told(text[i])
  BY DEF Keeping
<1>2. ASSUME NEW i \in 0..n
      PROVE  f[i] = IF i = 0 THEN <<>> ELSE f[i - 1] \o E!Told(text[i])
  <2>1. i \in 0..n + 1 /\ (i # 0 => i - 1 \in 0..n)
    OBVIOUS
  <2> QED
    BY <1>1, <2>1
<1>3. n + 1 \in 0..n + 1 /\ n + 1 # 0 /\ (n + 1) - 1 = n
  OBVIOUS
<1> QED
  BY <1>1, <1>2, <1>3 DEF Keeping

\* A reading can be continued by the characters of one turn.
LEMMA ReadOne ==
    ASSUME NEW b \in Seq(Letter), NEW c \in Letter, NEW r, Reading(r, b)
    PROVE  \E f : Reading(f, Append(b, c))
<1> DEFINE n == Len(b) + 1
           f == [i \in 0..n |-> IF i = n THEN E!Read(r[n - 1], c) ELSE r[i]]
<1>1. /\ Len(b) \in Nat /\ Append(b, c) \in Seq(Letter) /\ Len(Append(b, c)) = n
      /\ Append(b, c)[n] = c /\ \A i \in 1..Len(b) : Append(b, c)[i] = b[i]
  BY AppendProperties
<1>2. ASSUME NEW i \in 0..n
      PROVE  f[i] = IF i = 0 THEN Sofar(<<>>, <<>>) ELSE E!Read(f[i - 1], Append(b, c)[i])
  <2>1. CASE i = n
    <3>1. f[i] = E!Read(r[n - 1], c) /\ n - 1 \in 0..n /\ n - 1 # n /\ n # 0
      BY <1>1, <2>1
    <3> QED
      BY <1>1, <2>1, <3>1
  <2>2. CASE i # n
    <3>1. i \in 0..Len(b) /\ f[i] = r[i]
      BY <1>1, <2>2
    <3>2. i # 0 => i - 1 \in 0..n /\ i - 1 # n /\ i \in 1..Len(b)
      BY <1>1, <3>1
    <3>3. r[i] = IF i = 0 THEN Sofar(<<>>, <<>>) ELSE E!Read(r[i - 1], b[i])
      BY <3>1 DEF Reading
    <3> QED
      BY <1>1, <3>1, <3>2, <3>3
  <2> QED
    BY <2>1, <2>2
<1>3. Reading(f, Append(b, c))
  <2> HIDE DEF n
  <2>1. f = [i \in 0..n |-> IF i = 0 THEN Sofar(<<>>, <<>>) ELSE E!Read(f[i - 1], Append(b, c)[i])]
    BY <1>2
  <2> QED
    BY <1>1, <2>1 DEF Reading
<1> QED
  BY <1>3

LEMMA ReadTurn ==
    ASSUME NEW b \in Seq(Letter), NEW e \in Seq(Letter), Len(e) \in 1..6, NEW r, Reading(r, b)
    PROVE  \E f : Reading(f, b \o e)
<1> DEFINE Part(i) == b \o SubSeq(e, 1, i)
<1>1. Part(0) = b /\ Part(Len(e)) = b \o e
  BY SubSeqFull, SubSeqEmpty, ConcatEmptySeq
<1>2. ASSUME NEW i \in 0..Len(e) - 1
      PROVE  /\ Part(i) \in Seq(Letter) /\ e[i + 1] \in Letter
             /\ Part(i + 1) = Append(Part(i), e[i + 1])
  <2>1. SubSeq(e, 1, i) \in Seq(Letter) /\ e[i + 1] \in Letter
    BY OneMore
  <2>2. SubSeq(e, 1, i + 1) = Append(SubSeq(e, 1, i), e[i + 1])
    BY OneMore
  <2> DEFINE less == SubSeq(e, 1, i)
             letter == e[i + 1]
  <2> HIDE DEF less, letter
  <2>3. b \o less \in Seq(Letter) /\ b \o Append(less, letter) = Append(b \o less, letter)
    BY <2>1 DEF less, letter
  <2> QED
    BY <2>1, <2>2, <2>3 DEF less, letter
<1> HIDE DEF Part
<1> DEFINE Read(i) == \E f : Reading(f, Part(i))
<1>3. ASSUME NEW i \in 0..Len(e) - 1, Read(i) PROVE Read(i + 1)
  BY <1>2, <1>3, ReadOne
<1>4. Read(0)
  BY <1>1
<1> HIDE DEF Read
<1>5. 1 <= Len(e) => Read(1)
  BY <1>3, <1>4, 1 <= Len(e) => 0 \in 0..Len(e) - 1
<1>6. 2 <= Len(e) => Read(2)
  BY <1>3, <1>5, 2 <= Len(e) => 1 \in 0..Len(e) - 1
<1>7. 3 <= Len(e) => Read(3)
  BY <1>3, <1>6, 3 <= Len(e) => 2 \in 0..Len(e) - 1
<1>8. 4 <= Len(e) => Read(4)
  BY <1>3, <1>7, 4 <= Len(e) => 3 \in 0..Len(e) - 1
<1>9. 5 <= Len(e) => Read(5)
  BY <1>3, <1>8, 5 <= Len(e) => 4 \in 0..Len(e) - 1
<1>10. 6 <= Len(e) => Read(6)
  BY <1>3, <1>9, 6 <= Len(e) => 5 \in 0..Len(e) - 1
<1>11. Read(Len(e))
  <2>1. \/ Len(e) = 1 \/ Len(e) = 2 \/ Len(e) = 3
        \/ Len(e) = 4 \/ Len(e) = 5 \/ Len(e) = 6
    OBVIOUS
  <2>2. CASE Len(e) = 1
    BY <1>5, <2>2
  <2>3. CASE Len(e) = 2
    BY <1>6, <2>3
  <2>4. CASE Len(e) = 3
    BY <1>7, <2>4
  <2>5. CASE Len(e) = 4
    BY <1>8, <2>5
  <2>6. CASE Len(e) = 5
    BY <1>9, <2>6
  <2>7. CASE Len(e) = 6
    BY <1>10, <2>7
  <2> QED
    BY <2>1, <2>2, <2>3, <2>4, <2>5, <2>6, <2>7
<1> QED
  BY <1>1, <1>11 DEF Read

LEMMA KeepOne ==
    ASSUME NEW n \in Nat, NEW k, Keeping(k, n)
    PROVE  \E f : Keeping(f, n + 1)
<1> DEFINE f == [i \in 0..n + 1 |-> IF i = n + 1 THEN k[n] \o E!Told(text[n + 1]) ELSE k[i]]
<1>1. ASSUME NEW i \in 0..n + 1
      PROVE  f[i] = IF i = 0 THEN <<>> ELSE f[i - 1] \o E!Told(text[i])
  <2>1. CASE i = n + 1
    <3>1. n \in 0..n + 1 /\ n # n + 1 /\ i - 1 = n /\ i # 0
      BY <2>1
    <3> QED
      BY <2>1, <3>1
  <2>2. CASE i # n + 1
    <3>1. i \in 0..n /\ (i # 0 => i - 1 \in 0..n + 1 /\ i - 1 # n + 1)
      BY <2>2
    <3>2. k[i] = IF i = 0 THEN <<>> ELSE k[i - 1] \o E!Told(text[i])
      BY <3>1 DEF Keeping
    <3> QED
      BY <2>2, <3>1, <3>2
  <2> QED
    BY <2>1, <2>2
<1> QED
  BY <1>1 DEF Keeping

\* An escape has one to six characters, and there is room for them.
LEMMA EscapeSize ==
    ASSUME format \in E!Formats, NEW c \in Letter
    PROVE  /\ E!Escape(c) \in Seq(Letter) /\ E!Room \in 2..6
           /\ Len(E!Escape(c)) \in 1..6 /\ Len(E!Escape(c)) <= E!Room
<1>1. \A n, room : room \in 2..6 /\ n \in 1..room => n \in 1..6 /\ n <= room
  OBVIOUS
<1>2. /\ E!Escape(c) \in Seq(Letter) /\ E!Room \in 2..6
      /\ Len(E!Escape(c)) \in 1..E!Room
  BY EscapeFits, Zenon DEF Fits
<1> QED
  BY <1>1, <1>2, Zenon

\* What one turn does to the text read and to the text kept.
LEMMA TurnAdded ==
    ASSUME format \in E!Formats, text \in Seq(Letter), NEW n \in 0..Len(text) - 1,
           NEW b \in Seq(Letter), NEW e, e = E!Escape(text[n + 1]),
           \A r, k : Reading(r, b) /\ Keeping(k, n)
                        => k[n] \in Seq(Letter) /\ r[Len(b)] = Sofar(k[n], <<>>),
           NEW r, NEW k, Reading(r, b \o e), Keeping(k, n + 1)
    PROVE  k[n + 1] \in Seq(Letter) /\ r[Len(b \o e)] = Sofar(k[n + 1], <<>>)
<1> DEFINE c == text[n + 1]
           q == [i \in 0..Len(e) |-> r[Len(b) + i]]
           old == [i \in 0..Len(b) |-> r[i]]
           kept == [i \in 0..n |-> k[i]]
<1>1. c \in Letter /\ n \in Nat
  OBVIOUS
<1>2. e \in Seq(Letter) /\ Len(e) \in 1..6
  BY <1>1, EscapeSize
<1>3. e \in Seq(Letter) /\ Len(e) \in 1..6 /\ Len(b) \in Nat
  BY <1>2
<1>4. Reading(old, b) /\ Keeping(kept, n) /\ k[n + 1] = k[n] \o E!Told(c)
  BY <1>1, <1>3, ReadBefore, KeptBefore
<1>5. k[n] \in Seq(Letter) /\ r[Len(b)] = Sofar(k[n], <<>>)
  <2>1. kept[n] \in Seq(Letter) /\ old[Len(b)] = Sofar(kept[n], <<>>)
    BY <1>4
  <2>2. kept[n] = k[n] /\ old[Len(b)] = r[Len(b)]
    BY <1>1, <1>3
  <2> QED
    BY <2>1, <2>2
<1>6. q[0] = Sofar(k[n], <<>>)
  BY <1>3, <1>5
<1>7. Len(b \o e) = Len(b) + Len(e) /\ \A i \in 1..Len(e) : (b \o e)[Len(b) + i] = e[i]
  BY <1>3, ConcatProperties
<1>8. ASSUME NEW i \in 1..Len(e) PROVE q[i] = E!Read(q[i - 1], e[i])
  <2>1. Len(b) + i \in 0..Len(b \o e) /\ Len(b) + i # 0
    BY <1>3, <1>7
  <2>2. r[Len(b) + i] = E!Read(r[(Len(b) + i) - 1], (b \o e)[Len(b) + i])
    BY <2>1 DEF Reading
  <2>3. i \in 0..Len(e) /\ i - 1 \in 0..Len(e) /\ (Len(b) + i) - 1 = Len(b) + (i - 1)
    BY <1>3
  <2> QED
    BY <1>7, <2>2, <2>3
<1>9. q[Len(e)] = r[Len(b \o e)]
  BY <1>3, <1>7
<1> HIDE DEF q, c
<1>10. q[Len(e)] = Sofar(k[n] \o E!Told(c), <<>>) /\ k[n] \o E!Told(c) \in Seq(Letter)
  <2>1. Turn(e, E!Told(c))
    BY <1>1, EveryTurn DEF c
  <2> DEFINE left == E!Told(c)
  <2> HIDE DEF left
  <2>2. \A i \in 1..Len(e) : q[i] = E!Read(q[i - 1], e[i])
    BY <1>8
  <2>3. Turn(e, left) /\ k[n] \in Seq(Letter) /\ q[0] = Sofar(k[n], <<>>)
    BY <1>5, <1>6, <2>1 DEF left
  <2>4. q[Len(e)] = Sofar(k[n] \o left, <<>>) /\ k[n] \o left \in Seq(Letter)
    BY <2>2, <2>3, TurnRead
  <2> QED
    BY <2>4 DEF left
<1> QED
  BY <1>4, <1>9, <1>10

\* Every text can be read and kept in one way only, and what is read is what is kept.
EscapeInv ==
    /\ format \in E!Formats /\ size \in Nat /\ text \in Seq(Letter) /\ buffer \in Seq(Letter)
    /\ cIn \in 0..Len(text) /\ Len(buffer) + 1 <= size
    /\ \E r : Reading(r, buffer)
    /\ \E k : Keeping(k, cIn)
    /\ \A r, k : Reading(r, buffer) /\ Keeping(k, cIn)
                    => k[cIn] \in Seq(Letter) /\ r[Len(buffer)] = Sofar(k[cIn], <<>>)

LEMMA EscapeStarts ==
    ASSUME E!Init PROVE EscapeInv
<1>1. format \in E!Formats /\ size \in Nat /\ size >= 1 /\ cIn = 0 /\ buffer = <<>>
  BY SizesAssumption DEF E!Init
<1>2. text \in Seq(Letter)
  <2>1. text \in Seq(STRING \ {""})
    BY TextsAssumption, Zenon DEF E!Init
  <2>2. (STRING \ {""}) \subseteq Letter
    BY Zenon DEF Letter
  <2> QED
    BY <2>1, <2>2, SeqMonotonic, Zenon
<1>3. buffer \in Seq(Letter) /\ Len(buffer) = 0
  BY <1>1
<1>4. \E r : Reading(r, buffer)
  <2>1. Reading([i \in 0..0 |-> Sofar(<<>>, <<>>)], buffer)
    BY <1>3 DEF Reading
  <2> QED
    BY <2>1
<1>5. \E k : Keeping(k, cIn)
  <2>1. Keeping([i \in 0..0 |-> <<>>], cIn)
    BY <1>1 DEF Keeping
  <2> QED
    BY <2>1
<1>6. ASSUME NEW r, NEW k, Reading(r, buffer), Keeping(k, cIn)
      PROVE  k[cIn] \in Seq(Letter) /\ r[Len(buffer)] = Sofar(k[cIn], <<>>)
  <2>1. 0 \in 0..Len(buffer) /\ 0 \in 0..cIn
    BY <1>1, <1>3
  <2>2. r[0] = Sofar(<<>>, <<>>) /\ k[0] = <<>>
    BY <1>6, <2>1 DEF Reading, Keeping
  <2> QED
    BY <1>1, <1>3, <2>2
<1> QED
  BY <1>1, <1>2, <1>3, <1>4, <1>5, <1>6 DEF EscapeInv

\* The reader of a format does not change.
LEMMA ReadStays ==
    ASSUME format' = format, NEW s, NEW c
    PROVE  E!Read(s, c)' = E!Read(s, c) /\ E!Told(c)' = E!Told(c)
<1>1. E!Known' = E!Known
  BY DEF E!Known
<1>2. E!Starter' = E!Starter /\ E!Forbidden' = E!Forbidden /\ E!Told(c)' = E!Told(c)
  BY DEF E!Starter, E!Forbidden, E!Told
<1>3. \A seen : (E!IsKnown(seen)' <=> E!IsKnown(seen)) /\ E!Meaning(seen)' = E!Meaning(seen)
  BY <1>1 DEF E!IsKnown, E!Meaning
<1> QED
  BY <1>2, <1>3 DEF E!Read

LEMMA ReadingStays ==
    ASSUME format' = format, text' = text
    PROVE  /\ \A r : Reading(r, buffer)' <=> Reading(r, buffer')
           /\ \A k : Keeping(k, cIn)' <=> Keeping(k, cIn')
<1>1. \A s, c : E!Read(s, c)' = E!Read(s, c) /\ E!Told(c)' = E!Told(c)
  BY ReadStays
<1>2. Sofar(<<>>, <<>>)' = Sofar(<<>>, <<>>)
  BY DEF Sofar
<1> QED
  BY <1>1, <1>2 DEF Reading, Keeping

LEMMA EscapeStays ==
    ASSUME EscapeInv, [E!Next]_E!vars PROVE EscapeInv'
<1>1. CASE E!Character
  <2>1. /\ format' = format /\ size' = size /\ text' = text /\ cIn' = cIn + 1
        /\ cIn \in 0..Len(text) - 1 /\ E!Room + Len(buffer) < size
        /\ buffer' = buffer \o E!Escape(text[cIn + 1])
    BY <1>1 DEF E!Character, E!More, EscapeInv
  <2> DEFINE e == E!Escape(text[cIn + 1])
  <2>2. E!Room \in 2..6 /\ e \in Seq(Letter) /\ Len(e) \in 1..6 /\ Len(e) <= E!Room
    BY <2>1, EscapeSize DEF EscapeInv
  <2> HIDE DEF e
  <2>3. e \in Seq(Letter) /\ Len(e) \in 1..6 /\ Len(e) <= E!Room
    BY <2>2
  <2>4. buffer' = buffer \o e
    BY <2>1 DEF e
  <2>5. buffer' \in Seq(Letter) /\ Len(buffer') + 1 <= size'
    <3>1. Len(buffer') = Len(buffer) + Len(e) /\ buffer' \in Seq(Letter)
      BY <2>3, <2>4, ConcatProperties DEF EscapeInv
    <3> QED
      BY <2>1, <2>2, <2>3, <3>1 DEF EscapeInv
  <2>6. \E r : Reading(r, buffer')
    BY <2>3, <2>4, ReadTurn DEF EscapeInv
  <2>7. \E k : Keeping(k, cIn')
    <3>1. cIn \in Nat
      BY <2>1
    <3> QED
      BY <2>1, <3>1, KeepOne DEF EscapeInv
  <2>8. ASSUME NEW r, NEW k, Reading(r, buffer'), Keeping(k, cIn')
        PROVE  k[cIn'] \in Seq(Letter) /\ r[Len(buffer')] = Sofar(k[cIn'], <<>>)
    <3>1. Reading(r, buffer \o e) /\ Keeping(k, cIn + 1)
      BY <2>1, <2>4, <2>8
    <3>2. /\ format \in E!Formats /\ text \in Seq(Letter) /\ buffer \in Seq(Letter)
          /\ \A f, g : Reading(f, buffer) /\ Keeping(g, cIn)
                          => g[cIn] \in Seq(Letter) /\ f[Len(buffer)] = Sofar(g[cIn], <<>>)
      BY DEF EscapeInv
    <3>3. cIn \in 0..Len(text) - 1 /\ e = E!Escape(text[cIn + 1])
      BY <2>1 DEF e
    <3>4. k[cIn + 1] \in Seq(Letter) /\ r[Len(buffer \o e)] = Sofar(k[cIn + 1], <<>>)
      BY <3>1, <3>2, <3>3, TurnAdded
    <3> QED
      BY <2>1, <2>4, <3>4
  <2>9. cIn' \in 0..Len(text') /\ format' \in E!Formats' /\ text' \in Seq(Letter) /\ size' \in Nat
    BY <2>1 DEF EscapeInv, E!Formats
  <2>10. \A r, k : Sofar(k, <<>>)' = Sofar(k, <<>>)
    BY DEF Sofar
  <2>11. /\ \A r : Reading(r, buffer)' <=> Reading(r, buffer')
         /\ \A k : Keeping(k, cIn)' <=> Keeping(k, cIn')
    BY <2>1, ReadingStays
  <2> QED
    BY <2>5, <2>6, <2>7, <2>8, <2>9, <2>10, <2>11 DEF EscapeInv
<1>2. CASE E!Finish \/ E!Done \/ UNCHANGED E!vars
  <2>1. UNCHANGED <<format, size, text, cIn, buffer>>
    BY <1>2 DEF E!Finish, E!Done, E!vars
  <2>2. /\ \A r : Reading(r, buffer)' <=> Reading(r, buffer)
        /\ \A k : Keeping(k, cIn)' <=> Keeping(k, cIn)
    BY <2>1, ReadingStays
  <2> QED
    BY <2>1, <2>2 DEF EscapeInv, E!Formats, Sofar
<1> QED
  BY <1>1, <1>2 DEF E!Next

\* What the functions of TextEscape compute is the reading and the keeping.
LEMMA EscapeSound ==
    ASSUME EscapeInv PROVE EscapesFit
<1>1. Reading(E!After, buffer)
  <2> DEFINE Is(r) ==
        r = [i \in 0..Len(buffer) |->
               IF i = 0 THEN [read |-> <<>>, pending |-> <<>>, sound |-> TRUE]
                        ELSE E!Read(r[i - 1], buffer[i])]
  <2>1. E!After = CHOOSE r : Is(r)
    BY DEF E!After
  <2>2. \A r : Is(r) <=> Reading(r, buffer)
    BY DEF Reading, Sofar
  <2> HIDE DEF Is
  <2>3. \E r : Is(r)
    BY <2>2 DEF EscapeInv
  <2> QED
    BY <2>1, <2>2, <2>3
<1>2. Keeping(E!Left, cIn)
  <2> DEFINE Is(k) == k = [i \in 0..cIn |-> IF i = 0 THEN <<>> ELSE k[i - 1] \o E!Told(text[i])]
  <2>1. E!Left = CHOOSE k : Is(k)
    BY DEF E!Left
  <2>2. \A k : Is(k) <=> Keeping(k, cIn)
    BY DEF Keeping
  <2> HIDE DEF Is
  <2>3. \E k : Is(k)
    BY <2>2 DEF EscapeInv
  <2> QED
    BY <2>1, <2>2, <2>3
<1>3. E!ReadBack = Sofar(E!Left[cIn], <<>>)
  BY <1>1, <1>2 DEF E!ReadBack, EscapeInv
<1> QED
  BY <1>3 DEF EscapesFit, E!EscapesFit, E!NeverOverruns, E!EscapesReadBack, EscapeInv, Sofar

\* However small the buffer, each of the five escapes leaves in it room for its NUL, and a
\* reader of the format takes what is there for the beginning of the text, with no escape
\* cut in two (format.c:76-311).
THEOREM EscapedTextsFit == E!Spec => []EscapesFit
<1>1. E!Init => EscapeInv
  BY EscapeStarts
<1>2. EscapeInv /\ [E!Next]_E!vars => EscapeInv'
  BY EscapeStays
<1>3. EscapeInv => EscapesFit
  BY EscapeSound
<1> QED
  BY <1>1, <1>2, <1>3, PTL DEF E!Spec

----------------------------------------------------------------------------
(* The names: lines and their parents.                                      *)

LEMMA LastOf ==
    ASSUME NEW n \in Nat, NEW lines \in SUBSET (1..n), lines # {}
    PROVE  \E i \in lines : \A j \in lines : j <= i
<1> DEFINE turned == { n - j : j \in lines }
<1>1. turned \in SUBSET Nat /\ turned # {}
  <2>1. ASSUME NEW j \in lines PROVE n - j \in Nat
    <3>1. j \in 1..n
      OBVIOUS
    <3> QED
      BY <3>1
  <2> QED
    BY <2>1
<1>2. PICK k \in turned : \A j \in turned : k <= j
  BY <1>1, FirstOf
<1>3. PICK i \in lines : k = n - i
  OBVIOUS
<1>4. ASSUME NEW j \in lines PROVE j <= i
  <2>1. k <= n - j
    BY <1>2
  <2>2. i \in 1..n /\ j \in 1..n
    OBVIOUS
  <2> QED
    BY <1>3, <2>1, <2>2
<1> QED
  BY <1>4

\* The file and the query are what they are said to be.
Given ==
    /\ file \in Seq(I!Lines) /\ query.codes \in Seq(STRING)

LEMMA FileLines ==
    ASSUME Given
    PROVE  /\ Len(file) \in Nat /\ DOMAIN file = 1..Len(file) /\ Len(query.codes) \in Nat
           /\ \A i \in DOMAIN file : file[i].depth \in -1..2
<1>1. Len(file) \in Nat /\ DOMAIN file = 1..Len(file) /\ Len(query.codes) \in Nat
  BY DEF Given
<1>2. ASSUME NEW i \in DOMAIN file PROVE file[i].depth \in -1..2
  <2>1. file[i] \in I!Lines
    BY <1>1, ElementOfSeq DEF Given
  <2> QED
    BY <2>1 DEF I!Lines
<1> QED
  BY <1>1, <1>2

Hit(i, depth, code) == file[i].depth = depth /\ file[i].code = code /\ file[i].named

LEMMA ParentAbove ==
    ASSUME Given, NEW i \in DOMAIN file, I!Parent(i) # I!Missing
    PROVE  LET p == I!Parent(i)
           IN  /\ p \in 1..i - 1 /\ ~I!Comment(p) /\ file[p].depth < file[i].depth
               /\ \A j \in p + 1..i - 1 : I!Comment(j) \/ file[j].depth >= file[i].depth
<1> DEFINE above == { j \in 1..i - 1 : ~I!Comment(j) /\ file[j].depth < file[i].depth }
<1>1. i \in Nat /\ i \in 1..Len(file) /\ Len(file) \in Nat
  BY FileLines
<1>2. /\ above # {}
      /\ I!Parent(i) = CHOOSE j \in above : \A k \in above : k <= j
  BY DEF I!Parent
<1>3. \E j \in above : \A k \in above : k <= j
  <2>1. above \in SUBSET (1..i - 1) /\ i - 1 \in Nat
    BY <1>1
  <2> HIDE DEF above
  <2> QED
    BY <1>2, <2>1, LastOf
<1>4. I!Parent(i) \in above /\ \A k \in above : k <= I!Parent(i)
  BY <1>2, <1>3
<1> DEFINE p == I!Parent(i)
<1> HIDE DEF p
<1>5. p \in 1..i - 1 /\ ~I!Comment(p) /\ file[p].depth < file[i].depth
  BY <1>4 DEF p
<1>6. ASSUME NEW j \in p + 1..i - 1 PROVE I!Comment(j) \/ file[j].depth >= file[i].depth
  <2>1. j \in 1..i - 1 /\ ~(j <= p)
    BY <1>1, <1>5
  <2>2. j \notin above
    BY <1>4, <2>1 DEF p
  <2>3. j \in DOMAIN file
    BY <1>1, <2>1, FileLines
  <2>4. file[j].depth \in -1..2 /\ file[i].depth \in -1..2
    BY <2>3, FileLines
  <2> QED
    BY <2>1, <2>2, <2>4
<1> QED
  BY <1>5, <1>6 DEF p

LEMMA ParentIs ==
    ASSUME Given, NEW i \in DOMAIN file, NEW p \in 1..i - 1,
           ~I!Comment(p), file[p].depth < file[i].depth,
           \A j \in p + 1..i - 1 : I!Comment(j) \/ file[j].depth >= file[i].depth
    PROVE  I!Parent(i) = p
<1> DEFINE above == { j \in 1..i - 1 : ~I!Comment(j) /\ file[j].depth < file[i].depth }
<1>1. i \in 1..Len(file) /\ Len(file) \in Nat /\ p \in above
  BY FileLines
<1>2. ASSUME NEW k \in above PROVE k <= p
  <2>1. k \in DOMAIN file /\ k \in 1..i - 1
    BY <1>1, FileLines
  <2>2. file[k].depth \in -1..2 /\ file[i].depth \in -1..2
    BY <2>1, FileLines
  <2>3. k \notin p + 1..i - 1
    BY <2>2
  <2> QED
    BY <1>1, <2>1, <2>3
<1>3. I!Parent(i) = CHOOSE j \in above : \A k \in above : k <= j
  BY <1>1 DEF I!Parent
<1>4. ASSUME NEW j \in above, \A k \in above : k <= j PROVE j = p
  <2>1. j <= p /\ p <= j /\ j \in 1..i - 1
    BY <1>1, <1>2, <1>4
  <2> QED
    BY <1>1, <2>1
<1> HIDE DEF above
<1> QED
  BY <1>1, <1>2, <1>3, <1>4

LEMMA FirstIs ==
    ASSUME NEW lines \in SUBSET Nat, NEW i \in lines, \A j \in lines : i <= j
    PROVE  I!First(lines) = i
<1>1. ASSUME NEW k \in lines, \A j \in lines : k <= j PROVE k = i
  <2>1. k <= i /\ i <= k /\ k \in Nat /\ i \in Nat
    BY <1>1
  <2> QED
    BY <2>1
<1> QED
  BY <1>1 DEF I!First

\* The lines after p to n belong to p or to lines that do, and none of them is the one.
Searched(p, depth, code, n) ==
    \A j \in p + 1..n : (I!Comment(j) \/ file[j].depth >= depth) /\ ~Hit(j, depth, code)

LEMMA NotUnder ==
    ASSUME Given, NEW p \in DOMAIN file, NEW depth \in 1..2, file[p].depth = depth - 1, NEW code,
           NEW n \in Nat, p <= n, Searched(p, depth, code, n),
           n < Len(file) => file[n + 1].depth \in 0..depth - 1, n <= Len(file)
    PROVE  I!Under(p, depth, code) = I!Missing
<1> DEFINE S == { i \in DOMAIN file : p # I!Missing /\ I!Parent(i) = p /\ file[i].depth = depth
                                      /\ file[i].code = code /\ file[i].named }
<1>1. ASSUME NEW i \in S PROVE FALSE
  <2>1. i \in DOMAIN file /\ I!Parent(i) = p /\ Hit(i, depth, code) /\ p # I!Missing
    BY DEF Hit
  <2>2. i \in 1..Len(file) /\ Len(file) \in Nat /\ p \in 1..Len(file)
    BY <2>1, FileLines
  <2>3. p < i /\ \A j \in p + 1..i - 1 : I!Comment(j) \/ file[j].depth >= depth
    <3>1. /\ p \in 1..i - 1
          /\ \A j \in p + 1..i - 1 : I!Comment(j) \/ file[j].depth >= file[i].depth
      BY <2>1, ParentAbove
    <3> QED
      BY <2>1, <2>2, <3>1 DEF Hit
  <2>4. ~(i <= n)
    <3> SUFFICES ASSUME i <= n PROVE FALSE
      OBVIOUS
    <3>1. i \in p + 1..n
      BY <2>2, <2>3
    <3> QED
      BY <2>1, <3>1 DEF Searched
  <2>5. n < Len(file) /\ file[n + 1].depth \in 0..depth - 1 /\ n + 1 \in DOMAIN file
    BY <2>2, <2>4, FileLines
  <2>6. n + 1 # i
    BY <2>1, <2>5 DEF Hit
  <2>8. n + 1 \in p + 1..i - 1
    BY <2>2, <2>4, <2>6
  <2>9. I!Comment(n + 1) \/ file[n + 1].depth >= depth
    BY <2>3, <2>8
  <2> QED
    BY <2>5, <2>9 DEF I!Comment
<1>2. I!Under(p, depth, code) = I!First(S)
  BY DEF I!Under
<1> HIDE DEF S
<1> QED
  BY <1>1, <1>2 DEF I!First

LEMMA FoundUnder ==
    ASSUME Given, NEW p \in DOMAIN file, NEW depth \in 1..2, file[p].depth = depth - 1, NEW code,
           NEW e \in DOMAIN file, p < e, Searched(p, depth, code, e - 1), Hit(e, depth, code)
    PROVE  I!Under(p, depth, code) = e
<1> DEFINE S == { i \in DOMAIN file : p # I!Missing /\ I!Parent(i) = p /\ file[i].depth = depth
                                      /\ file[i].code = code /\ file[i].named }
<1>1. Len(file) \in Nat /\ p \in 1..Len(file) /\ e \in 1..Len(file)
  BY FileLines
<1>2. I!Parent(e) = p
  <2>1. p \in 1..e - 1 /\ ~I!Comment(p) /\ file[p].depth < file[e].depth
    BY <1>1 DEF Hit, I!Comment
  <2>2. \A j \in p + 1..e - 1 : I!Comment(j) \/ file[j].depth >= file[e].depth
    BY DEF Searched, Hit
  <2> QED
    BY <2>1, <2>2, ParentIs
<1>3. e \in S /\ S \in SUBSET Nat
  BY <1>1, <1>2, FileLines DEF Hit, I!Missing
<1>4. ASSUME NEW i \in S PROVE e <= i
  <2>1. i \in DOMAIN file /\ I!Parent(i) = p /\ Hit(i, depth, code) /\ p # I!Missing
    BY DEF Hit
  <2>2. i \in 1..Len(file)
    BY <2>1, FileLines
  <2>3. p < i
    <3>1. p \in 1..i - 1
      BY <2>1, ParentAbove
    <3> QED
      BY <2>2, <3>1
  <2> SUFFICES ASSUME i < e PROVE FALSE
    BY <1>1, <2>2
  <2>4. i \in p + 1..e - 1
    BY <1>1, <2>2, <2>3
  <2> QED
    BY <2>1, <2>4 DEF Searched
<1>5. I!Under(p, depth, code) = I!First(S)
  BY DEF I!Under
<1> HIDE DEF S
<1> QED
  BY <1>3, <1>4, <1>5, FirstIs

----------------------------------------------------------------------------
(* The names: devices and classes.                                          *)

\* What the two scans look for.
Either(device, class) == IF query.kind = "device" THEN device ELSE class
List == Either("vendor", "class")
Outermost(i) == Hit(i, 0, query.codes[1]) /\ file[i].list = List
More(n) == Len(query.codes) > n

\* What they found: a line for each of three attributes.
Lines3(one, two, three) ==
    [n \in I!Attributes |-> IF n = Either("Vendor", "Class") THEN one
                       ELSE IF n = Either("Device", "Subclass") THEN two
                       ELSE IF n = Either("Subsys", "Prog IF") THEN three ELSE I!Missing]
Seen(s, at, one, two, three) == s = [at |-> at, found |-> Lines3(one, two, three)]

\* One line of either scan of a file that is well formed.
Step3(i) ==
    IF scan.at = 1
    THEN IF Outermost(i) THEN I!Found(Either("Vendor", "Class"), i, More(1)) ELSE scan
    ELSE IF I!Comment(i) THEN scan
    ELSE IF scan.at = 2
    THEN IF file[i].depth = 0 THEN I!Stop
         ELSE IF Hit(i, 1, query.codes[2])
         THEN I!Found(Either("Device", "Subclass"), i, More(2)) ELSE scan
    ELSE IF file[i].depth # 2 THEN I!Stop
    ELSE IF Hit(i, 2, query.codes[3])
    THEN I!Found(Either("Subsys", "Prog IF"), i, FALSE) ELSE scan

LEMMA BothScans ==
    ASSUME query.kind \in {"device", "class"}, I!WellFormed, NEW i \in DOMAIN file
    PROVE  I!Step(i) = Step3(i)
<1>1. I!Comment(i) \/ file[i].named
  BY DEF I!WellFormed
<1>2. CASE query.kind = "device"
  <2>1. I!Step(i) = I!NWL_FindId(i)
    BY <1>2, Zenon DEF I!Step
  <2>2. I!IsVendor(i) <=> Outermost(i)
    BY <1>2 DEF I!IsVendor, Outermost, Hit, List, Either
  <2>3. ~I!Comment(i) => I!FindDevice(i) = IF file[i].depth = 0 THEN I!Stop
                                           ELSE IF Hit(i, 1, query.codes[2])
                                           THEN I!Found("Device", i, More(2)) ELSE scan
    BY DEF I!FindDevice, Hit, More
  <2>4. ~I!Comment(i) => I!FindSubsys(i) = IF file[i].depth # 2 THEN I!Stop
                                           ELSE IF Hit(i, 2, query.codes[3])
                                           THEN I!Found("Subsys", i, FALSE) ELSE scan
    BY <1>1 DEF I!FindSubsys, Hit
  <2> QED
    BY <1>2, <2>1, <2>2, <2>3, <2>4 DEF I!NWL_FindId, I!FindVendor, Step3, More, Either
<1>3. CASE query.kind = "class"
  <2>1. I!Step(i) = I!NWL_FindClass(i)
    BY <1>3, Zenon DEF I!Step
  <2>2. I!IsClass(i) <=> Outermost(i)
    BY <1>3 DEF I!IsClass, Outermost, Hit, List, Either
  <2>3. ~I!Comment(i) => I!FindSubclass(i) = IF file[i].depth = 0 THEN I!Stop
                                             ELSE IF Hit(i, 1, query.codes[2])
                                             THEN I!Found("Subclass", i, More(2)) ELSE scan
    BY <1>1 DEF I!FindSubclass, Hit, More
  <2>4. ~I!Comment(i) => I!FindProgIf(i) = IF file[i].depth # 2 THEN I!Stop
                                           ELSE IF Hit(i, 2, query.codes[3])
                                           THEN I!Found("Prog IF", i, FALSE) ELSE scan
    BY <1>1 DEF I!FindProgIf, Hit
  <2>5. Outermost(i) => ~I!Comment(i)
    BY DEF Outermost, Hit, I!Comment
  <2> QED
    BY <1>3, <2>1, <2>2, <2>3, <2>4, <2>5 DEF I!NWL_FindClass, Step3, More, Either
<1> QED
  BY <1>2, <1>3

\* What one more attribute does to what was found.
LEMMA AttributesDiffer ==
    ASSUME query.kind \in {"device", "class"}
    PROVE  /\ Either("Vendor", "Class") # Either("Device", "Subclass")
           /\ Either("Vendor", "Class") # Either("Subsys", "Prog IF")
           /\ Either("Device", "Subclass") # Either("Subsys", "Prog IF")
           /\ I!Nothing = Lines3(0, 0, 0)
<1>1. I!Nothing = Lines3(0, 0, 0)
  BY DEF I!Nothing, Lines3, I!Missing
<1> QED
  BY <1>1 DEF Either

LEMMA SetOne ==
    ASSUME query.kind \in {"device", "class"}, NEW i
    PROVE  [Lines3(0, 0, 0) EXCEPT ![Either("Vendor", "Class")] = i] = Lines3(i, 0, 0)
<1> DEFINE one == Either("Vendor", "Class")
           two == Either("Device", "Subclass")
           three == Either("Subsys", "Prog IF")
<1>1. one # two /\ one # three /\ two # three
  BY AttributesDiffer
<1>2. \A a, b, c : Lines3(a, b, c) = [n \in I!Attributes |-> IF n = one THEN a ELSE IF n = two THEN b
                                                        ELSE IF n = three THEN c ELSE 0]
  BY DEF Lines3, I!Missing
<1> HIDE DEF one, two, three
<1>3. [Lines3(0, 0, 0) EXCEPT ![one] = i] = Lines3(i, 0, 0)
  BY <1>1, <1>2
<1> QED
  BY <1>3 DEF one

LEMMA SetTwo ==
    ASSUME query.kind \in {"device", "class"}, NEW i, NEW v
    PROVE  [Lines3(v, 0, 0) EXCEPT ![Either("Device", "Subclass")] = i] = Lines3(v, i, 0)
<1> DEFINE one == Either("Vendor", "Class")
           two == Either("Device", "Subclass")
           three == Either("Subsys", "Prog IF")
<1>1. one # two /\ one # three /\ two # three
  BY AttributesDiffer
<1>2. \A a, b, c : Lines3(a, b, c) = [n \in I!Attributes |-> IF n = one THEN a ELSE IF n = two THEN b
                                                        ELSE IF n = three THEN c ELSE 0]
  BY DEF Lines3, I!Missing
<1> HIDE DEF one, two, three
<1>3. [Lines3(v, 0, 0) EXCEPT ![two] = i] = Lines3(v, i, 0)
  BY <1>1, <1>2
<1> QED
  BY <1>3 DEF two

LEMMA SetThree ==
    ASSUME query.kind \in {"device", "class"}, NEW i, NEW v, NEW d
    PROVE  [Lines3(v, d, 0) EXCEPT ![Either("Subsys", "Prog IF")] = i] = Lines3(v, d, i)
<1> DEFINE one == Either("Vendor", "Class")
           two == Either("Device", "Subclass")
           three == Either("Subsys", "Prog IF")
<1>1. one # two /\ one # three /\ two # three
  BY AttributesDiffer
<1>2. \A a, b, c : Lines3(a, b, c) = [n \in I!Attributes |-> IF n = one THEN a ELSE IF n = two THEN b
                                                        ELSE IF n = three THEN c ELSE 0]
  BY DEF Lines3, I!Missing
<1> HIDE DEF one, two, three
<1>3. [Lines3(v, d, 0) EXCEPT ![three] = i] = Lines3(v, d, i)
  BY <1>1, <1>2
<1> QED
  BY <1>3 DEF three

\* The three lines of the tree that are asked for.
One == I!Top(List, query.codes[1])
Two == IF More(1) THEN I!Under(One, 1, query.codes[2]) ELSE I!Missing
Three == IF More(2) THEN I!Under(Two, 2, query.codes[3]) ELSE I!Missing

LEMMA PathIs ==
    ASSUME query.kind \in {"device", "class"}
    PROVE  I!Path(List, Either("Vendor", "Class"), Either("Device", "Subclass"),
                  Either("Subsys", "Prog IF"))
           = Lines3(One, Two, Three)
<1> DEFINE first == Either("Vendor", "Class")
           second == Either("Device", "Subclass")
           third == Either("Subsys", "Prog IF")
<1>1. I!Path(List, first, second, third)
      = [I!Nothing EXCEPT ![first] = One, ![second] = Two, ![third] = Three]
  BY DEF I!Path, One, Two, Three, More
<1>2. [I!Nothing EXCEPT ![first] = One] = Lines3(One, 0, 0)
  BY SetOne, AttributesDiffer
<1>3. [Lines3(One, 0, 0) EXCEPT ![second] = Two] = Lines3(One, Two, 0)
  BY SetTwo
<1>4. [Lines3(One, Two, 0) EXCEPT ![third] = Three] = Lines3(One, Two, Three)
  BY SetThree
<1> HIDE DEF first, second, third
<1> QED
  BY <1>1, <1>2, <1>3, <1>4 DEF first, second, third

LEMMA NoneUnder ==
    ASSUME NEW depth, NEW code PROVE I!Under(I!Missing, depth, code) = I!Missing
BY DEF I!Under, I!First

\* The first line of the list that has the outermost code.
FirstTop(v) == v \in DOMAIN file /\ Outermost(v) /\ \A j \in 1..v - 1 : ~Outermost(j)

LEMMA TopIs ==
    ASSUME Given, NEW v, FirstTop(v)
    PROVE  One = v
<1> DEFINE S == { i \in DOMAIN file : file[i].depth = 0 /\ file[i].list = List /\ file[i].named
                                      /\ file[i].code = query.codes[1] }
<1>1. One = I!First(S)
  BY DEF One, I!Top
<1>2. \A i \in S : i \in DOMAIN file /\ Outermost(i)
  BY DEF Outermost, Hit
<1>3. v \in S /\ S \in SUBSET Nat
  BY FileLines DEF FirstTop, Outermost, Hit
<1>4. ASSUME NEW i \in S PROVE v <= i
  <2>1. i \in Nat /\ v \in Nat /\ i \in 1..Len(file) /\ Len(file) \in Nat
    BY <1>2, <1>3, FileLines
  <2>2. i \notin 1..v - 1
    BY <1>2 DEF FirstTop
  <2> QED
    BY <2>1, <2>2
<1> HIDE DEF S
<1> QED
  BY <1>1, <1>3, <1>4, FirstIs

LEMMA NoTop ==
    ASSUME \A i \in DOMAIN file : ~Outermost(i)
    PROVE  One = I!Missing
<1> DEFINE S == { i \in DOMAIN file : file[i].depth = 0 /\ file[i].list = List /\ file[i].named
                                      /\ file[i].code = query.codes[1] }
<1>1. One = I!First(S)
  BY DEF One, I!Top
<1>2. S = {}
  BY DEF Outermost, Hit
<1> HIDE DEF S
<1> QED
  BY <1>1, <1>2 DEF I!First

\* Where a scan of vendors or classes stands after n lines.
LooksForOne(s, n) == Seen(s, 1, 0, 0, 0) /\ \A j \in 1..n : ~Outermost(j)
LooksForTwo(s, n) ==
    /\ More(1)
    /\ \E v \in 1..n : FirstTop(v) /\ Seen(s, 2, v, 0, 0) /\ Searched(v, 1, query.codes[2], n)
LooksForThree(s, n) ==
    /\ More(1) /\ More(2)
    /\ \E v \in 1..n : \E d \in v + 1..n :
          /\ FirstTop(v) /\ Hit(d, 1, query.codes[2]) /\ Searched(v, 1, query.codes[2], d - 1)
          /\ Seen(s, 3, v, d, 0) /\ Searched(d, 2, query.codes[3], n)
HasFound(s) == Seen(s, 0, One, Two, Three)
TreeAt(s, n) == LooksForOne(s, n) \/ LooksForTwo(s, n) \/ LooksForThree(s, n) \/ HasFound(s)

\* Where a scan stops: at the end of the file, or where the next line ends the list.
LEMMA StopsAtOne ==
    ASSUME Given, \A j \in 1..Len(file) : ~Outermost(j)
    PROVE  One = 0 /\ Two = 0 /\ Three = 0
<1>1. One = I!Missing
  BY FileLines, NoTop
<1>2. Two = I!Missing
  BY <1>1, NoneUnder DEF Two
<1> QED
  BY <1>1, <1>2, NoneUnder DEF Three, I!Missing

LEMMA StopsAtTwo ==
    ASSUME Given, NEW n \in Nat, n <= Len(file), NEW v \in 1..n, FirstTop(v),
           Searched(v, 1, query.codes[2], n),
           n < Len(file) => file[n + 1].depth = 0
    PROVE  One = v /\ Two = 0 /\ Three = 0
<1>1. One = v
  BY TopIs
<1>2. v \in DOMAIN file /\ file[v].depth = 1 - 1
  BY DEF FirstTop, Outermost, Hit
<1>3. n < Len(file) => file[n + 1].depth \in 0..1 - 1
  OBVIOUS
<1>4. 1 \in 1..2 /\ v <= n
  OBVIOUS
<1>5. I!Under(v, 1, query.codes[2]) = I!Missing
  BY <1>2, <1>3, <1>4, NotUnder
<1>6. Two = I!Missing
  BY <1>1, <1>5 DEF Two
<1> QED
  BY <1>1, <1>6, NoneUnder DEF Three, I!Missing

LEMMA FindsTwo ==
    ASSUME Given, NEW v \in DOMAIN file, NEW d \in DOMAIN file, v < d, FirstTop(v), More(1),
           Hit(d, 1, query.codes[2]), Searched(v, 1, query.codes[2], d - 1)
    PROVE  One = v /\ Two = d
<1>1. One = v
  BY TopIs
<1>2. 1 \in 1..2 /\ file[v].depth = 1 - 1
  BY DEF FirstTop, Outermost, Hit
<1>3. I!Under(v, 1, query.codes[2]) = d
  BY <1>2, FoundUnder
<1> QED
  BY <1>1, <1>3 DEF Two

LEMMA StopsAtThree ==
    ASSUME Given, NEW n \in Nat, n <= Len(file), NEW v \in 1..n, NEW d \in v + 1..n, FirstTop(v),
           More(1), Hit(d, 1, query.codes[2]), Searched(v, 1, query.codes[2], d - 1),
           Searched(d, 2, query.codes[3], n), 
           n < Len(file) => file[n + 1].depth \in 0..1
    PROVE  One = v /\ Two = d /\ Three = 0
<1>1. v \in DOMAIN file /\ d \in DOMAIN file /\ v < d /\ d <= n
  BY FileLines
<1>2. One = v /\ Two = d
  BY <1>1, FindsTwo
<1>3. 2 \in 1..2 /\ file[d].depth = 2 - 1
  BY DEF Hit
<1>4. n < Len(file) => file[n + 1].depth \in 0..2 - 1
  OBVIOUS
<1>5. I!Under(d, 2, query.codes[3]) = I!Missing
  BY <1>1, <1>3, <1>4, NotUnder
<1> QED
  BY <1>2, <1>5 DEF Three, I!Missing

LEMMA FindsThree ==
    ASSUME Given, NEW v \in DOMAIN file, NEW d \in DOMAIN file, NEW e \in DOMAIN file, v < d, d < e,
           FirstTop(v), More(1), More(2), Hit(d, 1, query.codes[2]),
           Searched(v, 1, query.codes[2], d - 1),
           Searched(d, 2, query.codes[3], e - 1), Hit(e, 2, query.codes[3])
    PROVE  One = v /\ Two = d /\ Three = e
<1>1. One = v /\ Two = d
  BY FindsTwo
<1>2. 2 \in 1..2 /\ file[d].depth = 2 - 1
  BY DEF Hit
<1>3. I!Under(d, 2, query.codes[3]) = e
  BY <1>2, FoundUnder
<1> QED
  BY <1>1, <1>3 DEF Three

LEMMA TreeEnds ==
    ASSUME Given, TreeAt(scan, line), scan.at = 0 \/ line = Len(file), line <= Len(file),
           line \in Nat
    PROVE  scan.found = Lines3(One, Two, Three)
<1>0. \A at, a, b, c : Seen(scan, at, a, b, c) => scan.at = at /\ scan.found = Lines3(a, b, c)
  BY DEF Seen
<1>1. CASE LooksForOne(scan, line)
  <2>1. line = Len(file)
    BY <1>0, <1>1 DEF LooksForOne
  <2> QED
    BY <1>0, <1>1, <2>1, StopsAtOne DEF LooksForOne
<1>2. CASE LooksForTwo(scan, line)
  <2>1. PICK v \in 1..line :
            FirstTop(v) /\ Seen(scan, 2, v, 0, 0) /\ Searched(v, 1, query.codes[2], line)
    BY <1>2 DEF LooksForTwo
  <2>2. line = Len(file) /\ scan.found = Lines3(v, 0, 0)
    BY <1>0, <2>1
  <2>3. One = v /\ Two = 0 /\ Three = 0
    BY <2>1, <2>2, StopsAtTwo
  <2> QED
    BY <2>2, <2>3
<1>3. CASE LooksForThree(scan, line)
  <2>1. PICK v \in 1..line : \E d \in v + 1..line :
            /\ FirstTop(v) /\ Hit(d, 1, query.codes[2]) /\ Searched(v, 1, query.codes[2], d - 1)
            /\ Seen(scan, 3, v, d, 0) /\ Searched(d, 2, query.codes[3], line)
    BY <1>3 DEF LooksForThree
  <2>2. PICK d \in v + 1..line :
            /\ FirstTop(v) /\ Hit(d, 1, query.codes[2]) /\ Searched(v, 1, query.codes[2], d - 1)
            /\ Seen(scan, 3, v, d, 0) /\ Searched(d, 2, query.codes[3], line)
    BY <2>1
  <2>3. line = Len(file) /\ scan.found = Lines3(v, d, 0) /\ More(1)
    BY <1>0, <1>3, <2>2 DEF LooksForThree
  <2>4. One = v /\ Two = d /\ Three = 0
    BY <2>2, <2>3, StopsAtThree
  <2> QED
    BY <2>3, <2>4
<1> QED
  BY <1>0, <1>1, <1>2, <1>3 DEF TreeAt, HasFound

\* Each of the attributes as it is found.
LEMMA FoundOne ==
    ASSUME query.kind \in {"device", "class"}, NEW e, NEW more,
           scan.found = Lines3(0, 0, 0)
    PROVE  I!Found(Either("Vendor", "Class"), e, more)
           = [at |-> IF more THEN scan.at + 1 ELSE 0, found |-> Lines3(e, 0, 0)]
<1>1. [Lines3(0, 0, 0) EXCEPT ![Either("Vendor", "Class")] = e] = Lines3(e, 0, 0)
  BY SetOne
<1>2. [scan.found EXCEPT ![Either("Vendor", "Class")] = e] = Lines3(e, 0, 0)
  BY <1>1, Zenon
<1> QED
  BY <1>2, Zenon DEF I!Found

LEMMA FoundTwo ==
    ASSUME query.kind \in {"device", "class"}, NEW e, NEW more, NEW v,
           scan.found = Lines3(v, 0, 0)
    PROVE  I!Found(Either("Device", "Subclass"), e, more)
           = [at |-> IF more THEN scan.at + 1 ELSE 0, found |-> Lines3(v, e, 0)]
<1>1. [Lines3(v, 0, 0) EXCEPT ![Either("Device", "Subclass")] = e] = Lines3(v, e, 0)
  BY SetTwo
<1>2. [scan.found EXCEPT ![Either("Device", "Subclass")] = e] = Lines3(v, e, 0)
  BY <1>1, Zenon
<1> QED
  BY <1>2, Zenon DEF I!Found

LEMMA FoundThree ==
    ASSUME query.kind \in {"device", "class"}, NEW e, NEW more, NEW v, NEW d,
           scan.found = Lines3(v, d, 0)
    PROVE  I!Found(Either("Subsys", "Prog IF"), e, more)
           = [at |-> IF more THEN scan.at + 1 ELSE 0, found |-> Lines3(v, d, e)]
<1>1. [Lines3(v, d, 0) EXCEPT ![Either("Subsys", "Prog IF")] = e] = Lines3(v, d, e)
  BY SetThree
<1>2. [scan.found EXCEPT ![Either("Subsys", "Prog IF")] = e] = Lines3(v, d, e)
  BY <1>1, Zenon
<1> QED
  BY <1>2, Zenon DEF I!Found

LEMMA TreeGoesOn ==
    ASSUME Given, query.kind \in {"device", "class"}, line \in Nat, line < Len(file), scan.at # 0,
           TreeAt(scan, line)
    PROVE  TreeAt(Step3(line + 1), line + 1)
<1> DEFINE e == line + 1
           s == Step3(e)
<1>0. \A r, at, a, b, c : Seen(r, at, a, b, c) => r.at = at /\ r.found = Lines3(a, b, c)
  BY DEF Seen
<1>1. /\ e \in DOMAIN file /\ e \in Nat /\ e <= Len(file) /\ Len(file) \in Nat
      /\ file[e].depth \in -1..2
      /\ 1..e = 1..line \cup {e}
  <2>1. e \in 1..Len(file) /\ Len(file) \in Nat
    BY FileLines
  <2> QED
    BY <2>1, FileLines
<1>2. CASE LooksForOne(scan, line)
  <2>1. scan.at = 1 /\ scan.found = Lines3(0, 0, 0) /\ \A j \in 1..line : ~Outermost(j)
    BY <1>0, <1>2 DEF LooksForOne
  <2>2. CASE ~Outermost(e)
    <3>1. s = scan
      BY <2>1, <2>2 DEF Step3
    <3>2. \A j \in 1..e : ~Outermost(j)
      BY <1>1, <2>1, <2>2
    <3>3. LooksForOne(s, e)
      BY <1>2, <3>1, <3>2 DEF LooksForOne
    <3> QED
      BY <3>3 DEF TreeAt
  <2>3. CASE Outermost(e)
    <3>1. s = I!Found(Either("Vendor", "Class"), e, More(1))
      BY <2>1, <2>3 DEF Step3
    <3>2. FirstTop(e)
      BY <1>1, <2>1, <2>3 DEF FirstTop
    <3>3. s = [at |-> IF More(1) THEN 2 ELSE 0, found |-> Lines3(e, 0, 0)]
      <4>1. s = [at |-> IF More(1) THEN scan.at + 1 ELSE 0, found |-> Lines3(e, 0, 0)]
        BY <2>1, <3>1, FoundOne, Zenon
      <4>2. scan.at + 1 = 2
        BY <2>1
      <4> QED
        BY <4>1, <4>2, Zenon
    <3>4. CASE More(1)
      <4>1. Seen(s, 2, e, 0, 0)
        BY <3>3, <3>4 DEF Seen
      <4>2. Searched(e, 1, query.codes[2], e)
        BY <1>1 DEF Searched
      <4>3. e \in 1..e
        BY <1>1
      <4>4. LooksForTwo(s, e)
        BY <3>2, <3>4, <4>1, <4>2, <4>3 DEF LooksForTwo
      <4> QED
        BY <4>4 DEF TreeAt
    <3>5. CASE ~More(1)
      <4>1. One = e
        BY <3>2, TopIs
      <4>2. Two = 0
        BY <3>5 DEF Two, I!Missing
      <4>3. Three = 0
        BY <4>2, NoneUnder DEF Three, I!Missing
      <4>4. HasFound(s)
        BY <3>3, <3>5, <4>1, <4>2, <4>3 DEF HasFound, Seen
      <4> QED
        BY <4>4 DEF TreeAt
    <3> QED
      BY <3>4, <3>5
  <2> QED
    BY <2>2, <2>3
<1>3. CASE LooksForTwo(scan, line)
  <2>1. PICK v \in 1..line :
            FirstTop(v) /\ Seen(scan, 2, v, 0, 0) /\ Searched(v, 1, query.codes[2], line)
    BY <1>3 DEF LooksForTwo
  <2>2. scan.at = 2 /\ scan.found = Lines3(v, 0, 0) /\ More(1)
    BY <1>0, <1>3, <2>1 DEF LooksForTwo
  <2>3. v \in DOMAIN file /\ v \in 1..e /\ v < e /\ v + 1..e = v + 1..line \cup {e}
    BY <1>1, FileLines
  <2>4. CASE s = scan /\ (I!Comment(e) \/ file[e].depth >= 1) /\ ~Hit(e, 1, query.codes[2])
    <3>1. Searched(v, 1, query.codes[2], e)
      BY <2>1, <2>3, <2>4 DEF Searched
    <3>2. LooksForTwo(s, e)
      BY <2>1, <2>2, <2>3, <2>4, <3>1 DEF LooksForTwo
    <3> QED
      BY <3>2 DEF TreeAt
  <2>5. CASE s = I!Stop /\ file[e].depth = 0
    <3>1. One = v /\ Two = 0 /\ Three = 0
      BY <1>1, <2>1, <2>5, StopsAtTwo
    <3>2. HasFound(s)
      BY <2>1, <2>5, <3>1 DEF HasFound, Seen, I!Stop
    <3> QED
      BY <3>2 DEF TreeAt
  <2>6. CASE /\ s = I!Found(Either("Device", "Subclass"), e, More(2))
             /\ Hit(e, 1, query.codes[2])
    <3>1. s = [at |-> IF More(2) THEN 3 ELSE 0, found |-> Lines3(v, e, 0)]
      <4>a. I!Found(Either("Device", "Subclass"), e, More(2))
            = [at |-> IF More(2) THEN scan.at + 1 ELSE 0, found |-> Lines3(v, e, 0)]
        BY <2>2, FoundTwo, Zenon
      <4> HIDE DEF s
      <4>1. s = [at |-> IF More(2) THEN scan.at + 1 ELSE 0, found |-> Lines3(v, e, 0)]
        BY <2>6, <4>a, Zenon
      <4>2. scan.at + 1 = 3
        BY <2>2
      <4> QED
        BY <4>1, <4>2, Zenon
    <3>2. Searched(v, 1, query.codes[2], e - 1)
      BY <2>1, <1>1
    <3>3. CASE More(2)
      <4>1. Seen(s, 3, v, e, 0)
        BY <3>1, <3>3 DEF Seen
      <4>2. Searched(e, 2, query.codes[3], e)
        BY <1>1 DEF Searched
      <4>3. e \in v + 1..e
        BY <1>1, <2>3
      <4>4. LooksForThree(s, e)
        BY <2>1, <2>2, <2>3, <2>6, <3>2, <3>3, <4>1, <4>2, <4>3 DEF LooksForThree
      <4> QED
        BY <4>4 DEF TreeAt
    <3>4. CASE ~More(2)
      <4>1. One = v /\ Two = e
        BY <1>1, <2>1, <2>2, <2>3, <2>6, <3>2, FindsTwo
      <4>2. Three = 0
        BY <3>4 DEF Three, I!Missing
      <4>3. HasFound(s)
        BY <3>1, <3>4, <4>1, <4>2 DEF HasFound, Seen
      <4> QED
        BY <4>3 DEF TreeAt
    <3> QED
      BY <3>3, <3>4
  <2>7. \/ s = scan /\ (I!Comment(e) \/ file[e].depth >= 1) /\ ~Hit(e, 1, query.codes[2])
        \/ s = I!Stop /\ file[e].depth = 0
        \/ s = I!Found(Either("Device", "Subclass"), e, More(2)) /\ Hit(e, 1, query.codes[2])
    <3>1. I!Comment(e) => ~Hit(e, 1, query.codes[2])
      BY DEF I!Comment, Hit
    <3>2. ~I!Comment(e) /\ file[e].depth # 0 => file[e].depth >= 1
      BY <1>1 DEF I!Comment
    <3> QED
      BY <2>2, <3>1, <3>2 DEF Step3
  <2> HIDE DEF s
  <2> QED
    BY <2>4, <2>5, <2>6, <2>7
<1>4. CASE LooksForThree(scan, line)
  <2>1. PICK v \in 1..line : \E d \in v + 1..line :
            /\ FirstTop(v) /\ Hit(d, 1, query.codes[2]) /\ Searched(v, 1, query.codes[2], d - 1)
            /\ Seen(scan, 3, v, d, 0) /\ Searched(d, 2, query.codes[3], line)
    BY <1>4 DEF LooksForThree
  <2>2. PICK d \in v + 1..line :
            /\ FirstTop(v) /\ Hit(d, 1, query.codes[2]) /\ Searched(v, 1, query.codes[2], d - 1)
            /\ Seen(scan, 3, v, d, 0) /\ Searched(d, 2, query.codes[3], line)
    BY <2>1
  <2>3. scan.at = 3 /\ scan.found = Lines3(v, d, 0) /\ More(1) /\ More(2)
    BY <1>0, <1>4, <2>2 DEF LooksForThree
  <2>4. /\ v \in DOMAIN file /\ d \in DOMAIN file /\ v \in 1..e /\ d \in v + 1..e
        /\ v < d /\ d < e /\ d + 1..e = d + 1..line \cup {e}
    BY <1>1, FileLines
  <2>5. CASE s = scan /\ (I!Comment(e) \/ file[e].depth >= 2) /\ ~Hit(e, 2, query.codes[3])
    <3>1. Searched(d, 2, query.codes[3], e)
      BY <2>2, <2>4, <2>5 DEF Searched
    <3>2. LooksForThree(s, e)
      BY <2>2, <2>3, <2>4, <2>5, <3>1 DEF LooksForThree
    <3> QED
      BY <3>2 DEF TreeAt
  <2>6. CASE s = I!Stop /\ file[e].depth \in 0..1
    <3>1. One = v /\ Two = d /\ Three = 0
      BY <1>1, <2>2, <2>3, <2>6, StopsAtThree
    <3>2. HasFound(s)
      BY <2>2, <2>6, <3>1 DEF HasFound, Seen, I!Stop
    <3> QED
      BY <3>2 DEF TreeAt
  <2>7. CASE s = I!Found(Either("Subsys", "Prog IF"), e, FALSE) /\ Hit(e, 2, query.codes[3])
    <3>1. s = [at |-> 0, found |-> Lines3(v, d, e)]
      <4>a. I!Found(Either("Subsys", "Prog IF"), e, FALSE)
            = [at |-> IF FALSE THEN scan.at + 1 ELSE 0, found |-> Lines3(v, d, e)]
        BY <2>3, FoundThree, Zenon
      <4> HIDE DEF s
      <4>1. s = [at |-> IF FALSE THEN scan.at + 1 ELSE 0, found |-> Lines3(v, d, e)]
        BY <2>7, <4>a, Zenon
      <4> QED
        BY <4>1, Zenon
    <3>2. Searched(d, 2, query.codes[3], e - 1)
      BY <1>1, <2>2
    <3>3. One = v /\ Two = d /\ Three = e
      BY <1>1, <2>2, <2>3, <2>4, <2>7, <3>2, FindsThree
    <3>4. HasFound(s)
      BY <3>1, <3>3 DEF HasFound, Seen
    <3> QED
      BY <3>4 DEF TreeAt
  <2>8. \/ s = scan /\ (I!Comment(e) \/ file[e].depth >= 2) /\ ~Hit(e, 2, query.codes[3])
        \/ s = I!Stop /\ file[e].depth \in 0..1
        \/ s = I!Found(Either("Subsys", "Prog IF"), e, FALSE) /\ Hit(e, 2, query.codes[3])
    <3>1. I!Comment(e) => ~Hit(e, 2, query.codes[3])
      BY DEF I!Comment, Hit
    <3>2. ~I!Comment(e) /\ file[e].depth # 2 => file[e].depth \in 0..1
      BY <1>1 DEF I!Comment
    <3>3. file[e].depth = 2 => file[e].depth >= 2
      OBVIOUS
    <3>4. s = IF I!Comment(e) THEN scan
              ELSE IF file[e].depth # 2 THEN I!Stop
              ELSE IF Hit(e, 2, query.codes[3])
              THEN I!Found(Either("Subsys", "Prog IF"), e, FALSE) ELSE scan
      BY <2>3 DEF Step3
    <3> HIDE DEF s
    <3> QED
      BY <3>1, <3>2, <3>3, <3>4
  <2> HIDE DEF s
  <2> QED
    BY <2>5, <2>6, <2>7, <2>8
<1>5. ~HasFound(scan)
  BY <1>0 DEF HasFound
<1> QED
  BY <1>2, <1>3, <1>4, <1>5 DEF TreeAt

----------------------------------------------------------------------------
(* The names: the manufacturers of JEP106.                                  *)

IsBank(i) == file[i].depth = 0 /\ file[i].code = query.codes[1]
BankLine == I!First({ i \in DOMAIN file : IsBank(i) })
ItemLine == I!Under(BankLine, 1, query.codes[2])
FirstBank(b) == b \in DOMAIN file /\ IsBank(b) /\ \A j \in 1..b - 1 : ~IsBank(j)
Maker(i) == [n \in I!Attributes |-> IF n = "Manufacturer" THEN i ELSE I!Missing]

\* Where the scan stands after n lines.
LooksForBank(s, n) == s = [at |-> 1, found |-> Maker(0)] /\ \A j \in 1..n : ~IsBank(j)
LooksForItem(s, n) ==
    \E b \in 1..n : /\ FirstBank(b) /\ Searched(b, 1, query.codes[2], n)
                    /\ s = [at |-> 2, found |-> Maker(0)]
HasItem(s) == s = [at |-> 0, found |-> Maker(ItemLine)]
SpdAt(s, n) == LooksForBank(s, n) \/ LooksForItem(s, n) \/ HasItem(s)

LEMMA MakerFound ==
    ASSUME NEW i
    PROVE  I!Nothing = Maker(0) /\ [Maker(0) EXCEPT !["Manufacturer"] = i] = Maker(i)
           /\ Maker(i)["Manufacturer"] = i
BY DEF I!Nothing, Maker, I!Missing, I!Attributes

LEMMA BankIs ==
    ASSUME Given, NEW b, FirstBank(b)
    PROVE  BankLine = b /\ b \in DOMAIN file /\ file[b].depth = 1 - 1
<1> DEFINE S == { i \in DOMAIN file : IsBank(i) }
<1>1. BankLine = I!First(S)
  BY DEF BankLine
<1>2. b \in S /\ S \in SUBSET Nat /\ \A i \in S : IsBank(i) /\ i \in DOMAIN file
  BY FileLines DEF FirstBank
<1>3. ASSUME NEW i \in S PROVE b <= i
  <2>1. i \in Nat /\ b \in Nat /\ i \in 1..Len(file) /\ Len(file) \in Nat
    BY <1>2, FileLines
  <2>2. i \notin 1..b - 1
    BY <1>2 DEF FirstBank
  <2> QED
    BY <2>1, <2>2
<1> HIDE DEF S
<1>4. BankLine = b
  BY <1>1, <1>2, <1>3, FirstIs
<1> QED
  BY <1>4 DEF FirstBank, IsBank

LEMMA NoItem ==
    ASSUME Given, NEW b, FirstBank(b), NEW n \in Nat, b <= n, n <= Len(file),
           Searched(b, 1, query.codes[2], n), n < Len(file) => file[n + 1].depth = 0
    PROVE  ItemLine = 0
<1>1. BankLine = b /\ b \in DOMAIN file /\ file[b].depth = 1 - 1
  BY BankIs
<1>2. n < Len(file) => file[n + 1].depth \in 0..1 - 1
  OBVIOUS
<1>3. 1 \in 1..2
  OBVIOUS
<1>4. I!Under(b, 1, query.codes[2]) = I!Missing
  BY <1>1, <1>2, <1>3, NotUnder
<1> QED
  BY <1>1, <1>4 DEF ItemLine, I!Missing

LEMMA ItemIs ==
    ASSUME Given, NEW b, FirstBank(b), NEW e \in DOMAIN file, b < e,
           Searched(b, 1, query.codes[2], e - 1), Hit(e, 1, query.codes[2])
    PROVE  ItemLine = e
<1>1. BankLine = b /\ b \in DOMAIN file /\ file[b].depth = 1 - 1
  BY BankIs
<1>2. 1 \in 1..2
  OBVIOUS
<1>3. I!Under(b, 1, query.codes[2]) = e
  BY <1>1, <1>2, FoundUnder
<1> QED
  BY <1>1, <1>3 DEF ItemLine

LEMMA NoBank ==
    ASSUME \A i \in DOMAIN file : ~IsBank(i)
    PROVE  ItemLine = 0
<1>1. BankLine = I!Missing
  BY DEF BankLine, I!First
<1> QED
  BY <1>1, NoneUnder DEF ItemLine, I!Missing

LEMMA SpdEnds ==
    ASSUME Given, SpdAt(scan, line), scan.at = 0 \/ line = Len(file), line <= Len(file),
           line \in Nat
    PROVE  scan.found = Maker(ItemLine)
<1>1. CASE LooksForBank(scan, line)
  <2>1. line = Len(file) /\ scan.found = Maker(0) /\ \A j \in 1..line : ~IsBank(j)
    BY <1>1 DEF LooksForBank
  <2>2. \A j \in DOMAIN file : ~IsBank(j)
    BY <2>1, FileLines
  <2> QED
    BY <2>1, <2>2, NoBank
<1>2. CASE LooksForItem(scan, line)
  <2>1. PICK b \in 1..line : /\ FirstBank(b) /\ Searched(b, 1, query.codes[2], line)
                             /\ scan = [at |-> 2, found |-> Maker(0)]
    BY <1>2 DEF LooksForItem
  <2>2. line = Len(file) /\ scan.found = Maker(0)
    BY <2>1
  <2>3. ItemLine = 0
    BY <2>1, <2>2, NoItem
  <2> QED
    BY <2>2, <2>3
<1> QED
  BY <1>1, <1>2 DEF SpdAt, HasItem

LEMMA SpdGoesOn ==
    ASSUME Given, query.kind = "spd", I!IsJep106, line \in Nat, line < Len(file), scan.at # 0,
           SpdAt(scan, line)
    PROVE  SpdAt(I!Step(line + 1), line + 1)
<1> DEFINE e == line + 1
           s == I!Step(e)
<1>0. s = I!NWL_GetSpdManufacturer(e)
  BY Zenon DEF I!Step
<1>1. /\ e \in DOMAIN file /\ e \in Nat /\ e <= Len(file) /\ Len(file) \in Nat
      /\ file[e].depth \in -1..2
      /\ 1..e = 1..line \cup {e}
  <2>1. e \in 1..Len(file) /\ Len(file) \in Nat
    BY FileLines
  <2> QED
    BY <2>1, FileLines
<1> HIDE DEF s
<1>2. CASE LooksForBank(scan, line)
  <2>1. /\ scan = [at |-> 1, found |-> Maker(0)] /\ \A j \in 1..line : ~IsBank(j)
        /\ scan.at = 1 /\ scan.found = Maker(0)
    BY <1>2 DEF LooksForBank
  <2>2. CASE ~IsBank(e)
    <3>1. s = scan
      BY <1>0, <2>1, <2>2 DEF I!NWL_GetSpdManufacturer, IsBank
    <3>2. \A j \in 1..e : ~IsBank(j)
      BY <1>1, <2>1, <2>2
    <3>3. LooksForBank(s, e)
      BY <2>1, <3>1, <3>2 DEF LooksForBank
    <3> QED
      BY <3>3 DEF SpdAt, s
  <2>3. CASE IsBank(e)
    <3>1. s = [at |-> 2, found |-> Maker(0)]
      BY <1>0, <2>1, <2>3 DEF I!NWL_GetSpdManufacturer, IsBank
    <3>2. FirstBank(e) /\ Searched(e, 1, query.codes[2], e) /\ e \in 1..e
      BY <1>1, <2>1, <2>3 DEF FirstBank, Searched
    <3>3. LooksForItem(s, e)
      BY <3>1, <3>2 DEF LooksForItem
    <3> QED
      BY <3>3 DEF SpdAt, s
  <2> QED
    BY <2>2, <2>3
<1>3. CASE LooksForItem(scan, line)
  <2>1. PICK b \in 1..line : /\ FirstBank(b) /\ Searched(b, 1, query.codes[2], line)
                             /\ scan = [at |-> 2, found |-> Maker(0)]
    BY <1>3 DEF LooksForItem
  <2>2. scan.at = 2 /\ scan.found = Maker(0)
    BY <2>1
  <2>3. b \in DOMAIN file /\ b \in 1..e /\ b < e /\ b + 1..e = b + 1..line \cup {e}
    BY <1>1, FileLines
  <2>4. CASE file[e].depth # 1
    <3>1. file[e].depth = 0
      <4>1. file[e].depth # 2
        BY <1>1 DEF I!IsJep106
      <4>2. ~I!Comment(b)
        BY <2>1 DEF FirstBank, IsBank, I!Comment
      <4>3. ~I!Comment(e)
        BY <1>1, <2>3, <4>2 DEF I!IsJep106
      <4> QED
        BY <1>1, <2>4, <4>1, <4>3 DEF I!Comment
    <3>2. ItemLine = 0
      BY <1>1, <2>1, <2>3, <3>1, NoItem
    <3>3. s = [at |-> 0, found |-> Maker(0)]
      BY <1>0, <2>1, <2>2, <2>4 DEF I!NWL_GetSpdManufacturer, I!Stop
    <3>4. HasItem(s)
      BY <3>2, <3>3 DEF HasItem
    <3> QED
      BY <3>4 DEF SpdAt, s
  <2>5. CASE Hit(e, 1, query.codes[2])
    <3>1. ItemLine = e
      <4>1. Searched(b, 1, query.codes[2], e - 1)
        BY <1>1, <2>1
      <4> QED
        BY <1>1, <2>1, <2>3, <2>5, <4>1, ItemIs
    <3>2. s = I!Found("Manufacturer", e, FALSE)
      BY <1>0, <2>2, <2>5 DEF I!NWL_GetSpdManufacturer, Hit
    <3>3. [scan.found EXCEPT !["Manufacturer"] = e] = Maker(e)
      BY <2>2, MakerFound
    <3>4. s = [at |-> 0, found |-> Maker(e)]
      BY <3>2, <3>3, Zenon DEF I!Found
    <3>5. HasItem(s)
      BY <3>1, <3>4 DEF HasItem
    <3> QED
      BY <3>5 DEF SpdAt, s
  <2>6. CASE file[e].depth = 1 /\ ~Hit(e, 1, query.codes[2])
    <3>1. s = scan
      BY <1>0, <2>2, <2>6 DEF I!NWL_GetSpdManufacturer, Hit
    <3>2. Searched(b, 1, query.codes[2], e)
      BY <2>1, <2>3, <2>6 DEF Searched
    <3>3. LooksForItem(s, e)
      BY <2>1, <2>3, <3>1, <3>2 DEF LooksForItem
    <3> QED
      BY <3>3 DEF SpdAt, s
  <2> QED
    BY <2>4, <2>5, <2>6
<1>4. ~HasItem(scan)
  BY DEF HasItem
<1> QED
  BY <1>2, <1>3, <1>4 DEF SpdAt

\* Where the scan of a file stands.
IdsInv ==
    /\ Given
    /\ line \in Nat /\ line <= Len(file)
    /\ I!WellFormed => /\ query.kind \in {"device", "class"} => TreeAt(scan, line)
                       /\ query.kind = "spd" /\ I!IsJep106 => SpdAt(scan, line)

LEMMA IdsStarts == I!Init => IdsInv
<1> SUFFICES ASSUME I!Init PROVE IdsInv
  OBVIOUS
<1>1. /\ file \in Files /\ query \in Queries
      /\ line = 0 /\ scan = [at |-> 1, found |-> I!Nothing]
  BY DEF I!Init, I!Start
<1>2. Given
  BY <1>1, FilesAssumption, QueriesAssumption DEF Given
<1>3. line \in Nat /\ line <= Len(file)
  BY <1>1, <1>2, FileLines
<1>4. ASSUME query.kind \in {"device", "class"} PROVE TreeAt(scan, line)
  <2>1. I!Nothing = Lines3(0, 0, 0)
    BY <1>4, AttributesDiffer
  <2>2. LooksForOne(scan, line)
    BY <1>1, <2>1 DEF LooksForOne, Seen
  <2> QED
    BY <2>2 DEF TreeAt
<1>5. SpdAt(scan, line)
  BY <1>1, MakerFound DEF SpdAt, LooksForBank
<1> QED
  BY <1>2, <1>3, <1>4, <1>5 DEF IdsInv

\* The file and the query stay, and with them all that is said of them alone.
LEMMA SameFile ==
    ASSUME file' = file, query' = query
    PROVE  /\ Given' <=> Given
           /\ I!WellFormed' <=> I!WellFormed
           /\ I!IsJep106' <=> I!IsJep106
           /\ TreeAt(scan, line)' <=> TreeAt(scan', line')
           /\ SpdAt(scan, line)' <=> SpdAt(scan', line')
<1>1. Given' <=> Given
  BY DEF Given
<1>2. I!WellFormed' <=> I!WellFormed
  BY DEF I!WellFormed, I!Comment, I!Parent
<1>3. I!IsJep106' <=> I!IsJep106
  BY DEF I!IsJep106, I!Comment
<1>4. TreeAt(scan, line)' <=> TreeAt(scan', line')
  <2>1. One' = One /\ Two' = Two /\ Three' = Three
    <3>1. \A i : I!Parent(i)' = I!Parent(i)
      BY DEF I!Parent, I!Comment
    <3>2. \A list, code : I!Top(list, code)' = I!Top(list, code)
      BY DEF I!Top, I!First
    <3>3. ASSUME NEW CONSTANT parent, NEW CONSTANT depth, NEW CONSTANT code
          PROVE  I!Under(parent, depth, code)' = I!Under(parent, depth, code)
      <4> DEFINE lines == { i \in DOMAIN file : /\ parent # I!Missing /\ I!Parent(i) = parent
                                               /\ file[i].depth = depth /\ file[i].code = code
                                               /\ file[i].named }
      <4>1. lines' = lines
        BY <3>1
      <4>2. I!Under(parent, depth, code) = I!First(lines)
        BY DEF I!Under
      <4>3. I!Under(parent, depth, code)' = I!First(lines')
        BY DEF I!Under, I!First
      <4> HIDE DEF lines
      <4> QED
        BY <4>1, <4>2, <4>3
    <3>4. One' = One
      BY <3>2 DEF One, List, Either
    <3>5. Two' = Two
      BY <3>3, <3>4 DEF Two, More
    <3> QED
      BY <3>3, <3>4, <3>5 DEF Three, More
  <2>2. /\ \A v : FirstTop(v)' <=> FirstTop(v)
        /\ \A v : Outermost(v)' <=> Outermost(v)
    BY DEF FirstTop, Outermost, Hit, List, Either
  <2>3. \A at, a, b, c : Seen(scan, at, a, b, c)' <=> Seen(scan', at, a, b, c)
    BY DEF Seen, Lines3, Either
  <2>4. LooksForOne(scan, line)' <=> LooksForOne(scan', line')
    BY <2>2, <2>3 DEF LooksForOne
  <2>5. LooksForTwo(scan, line)' <=> LooksForTwo(scan', line')
    BY <2>2, <2>3 DEF LooksForTwo, More, Searched, Hit, I!Comment
  <2>6. LooksForThree(scan, line)' <=> LooksForThree(scan', line')
    BY <2>2, <2>3 DEF LooksForThree, More, Searched, Hit, I!Comment
  <2>7. HasFound(scan)' <=> HasFound(scan')
    BY <2>1 DEF HasFound, Seen, Lines3, Either
  <2> QED
    BY <2>4, <2>5, <2>6, <2>7 DEF TreeAt
<1>5. SpdAt(scan, line)' <=> SpdAt(scan', line')
  BY DEF SpdAt, LooksForBank, LooksForItem, HasItem, Maker, ItemLine, BankLine, IsBank, FirstBank,
         Hit, Searched, I!Under, I!First, I!Parent, I!Comment
<1> QED
  BY <1>1, <1>2, <1>3, <1>4, <1>5

LEMMA IdsGoesOn == IdsInv /\ [I!Next]_idsVars => IdsInv'
<1> SUFFICES ASSUME IdsInv, [I!Next]_idsVars PROVE IdsInv'
  OBVIOUS
<1>1. CASE I!Look
  <2>1. /\ file' = file /\ query' = query /\ line' = line + 1 /\ scan' = I!Step(line + 1)
        /\ scan.at # 0 /\ line # Len(file)
    BY <1>1 DEF I!Look, I!Ended
  <2>2. Given /\ line \in Nat /\ line < Len(file)
    <3>1. Given /\ line \in Nat /\ line <= Len(file)
      BY DEF IdsInv
    <3>2. Len(file) \in Nat
      BY <3>1, FileLines
    <3> QED
      BY <2>1, <3>1, <3>2
  <2>3. line' \in Nat /\ line' <= Len(file')
    <3>1. Len(file) \in Nat
      BY <2>2, FileLines
    <3> QED
      BY <2>1, <2>2, <3>1
  <2>4. ASSUME I!WellFormed, query.kind \in {"device", "class"}
        PROVE  TreeAt(scan', line')
    <3>1. TreeAt(scan, line)
      BY <2>4 DEF IdsInv
    <3>2. TreeAt(Step3(line + 1), line + 1)
      BY <2>1, <2>2, <2>4, <3>1, TreeGoesOn
    <3>3. line + 1 \in DOMAIN file
      BY <2>2, FileLines
    <3>4. I!Step(line + 1) = Step3(line + 1)
      BY <2>4, <3>3, BothScans
    <3> QED
      BY <2>1, <3>2, <3>4
  <2>5. ASSUME I!WellFormed, query.kind = "spd", I!IsJep106
        PROVE  SpdAt(scan', line')
    <3>1. SpdAt(scan, line)
      BY <2>5 DEF IdsInv
    <3>2. SpdAt(I!Step(line + 1), line + 1)
      BY <2>1, <2>2, <2>5, <3>1, SpdGoesOn
    <3> QED
      BY <2>1, <3>2
  <2> QED
    BY <2>1, <2>2, <2>3, <2>4, <2>5, SameFile DEF IdsInv
<1>2. CASE UNCHANGED idsVars
  <2>1. file' = file /\ query' = query /\ line' = line /\ scan' = scan
    BY <1>2 DEF idsVars
  <2> QED
    BY <2>1, SameFile DEF IdsInv
<1>3. CASE I!Done
  BY <1>2, <1>3 DEF I!Done, I!vars, idsVars
<1> QED
  BY <1>1, <1>2, <1>3 DEF I!Next

LEMMA IdsFindsTheEntry == IdsInv => FindsTheEntry
<1> SUFFICES ASSUME IdsInv, I!Ended, I!WellFormed
             PROVE  /\ query.kind = "device" =>
                          I!Looked = I!Path("vendor", "Vendor", "Device", "Subsys")
                    /\ query.kind = "class" =>
                          I!Looked = I!Path("class", "Class", "Subclass", "Prog IF")
                    /\ query.kind = "spd" /\ I!IsJep106 =>
                          I!Looked.Manufacturer
                          = IF ItemLine = I!Missing THEN I!Fallback ELSE ItemLine
  BY DEF FindsTheEntry, I!FindsTheEntry, ItemLine, BankLine, IsBank
<1>1. Given /\ line \in Nat /\ line <= Len(file) /\ (scan.at = 0 \/ line = Len(file))
  BY DEF IdsInv, I!Ended
<1>2. ASSUME query.kind \in {"device", "class"}
      PROVE  I!Looked = I!Path(List, Either("Vendor", "Class"), Either("Device", "Subclass"),
                               Either("Subsys", "Prog IF"))
  <2>1. scan.found = Lines3(One, Two, Three)
    BY <1>1, <1>2, TreeEnds DEF IdsInv
  <2>2. I!Looked = scan.found
    BY <1>2, Zenon DEF I!Looked
  <2> QED
    BY <1>2, <2>1, <2>2, PathIs
<1>3. CASE query.kind = "device"
  BY <1>2, <1>3 DEF List, Either
<1>4. CASE query.kind = "class"
  BY <1>2, <1>4 DEF List, Either
<1>5. CASE query.kind = "spd" /\ I!IsJep106
  <2>1. scan.found = Maker(ItemLine)
    BY <1>1, <1>5, SpdEnds DEF IdsInv
  <2>2. I!Looked = I!OrElse("Manufacturer")
    BY <1>5, Zenon DEF I!Looked
  <2>3. scan.found["Manufacturer"] = ItemLine
    BY <2>1, MakerFound
  <2>4. CASE ItemLine = I!Missing
    <3>1. I!Looked = [scan.found EXCEPT !["Manufacturer"] = I!Fallback]
      BY <2>2, <2>3, <2>4, Zenon DEF I!OrElse
    <3> QED
      BY <1>5, <2>1, <2>4, <3>1 DEF Maker, I!Attributes
  <2>5. CASE ItemLine # I!Missing
    <3>1. I!Looked = scan.found
      BY <2>2, <2>3, <2>5, Zenon DEF I!OrElse
    <3> QED
      BY <1>5, <2>3, <2>5, <3>1
  <2> QED
    BY <2>4, <2>5
<1> QED
  BY <1>3, <1>4, <1>5

\* In a file of any length whose tabs draw a tree, a device, a class and a manufacturer are
\* found under their own parents or not at all (ids.c:83, ids.c:242, ids.c:361): the end of
\* each list is never missed, wherever comments stand.
THEOREM EntriesAreFound == I!Spec => []FindsTheEntry
<1>1. I!Init => IdsInv
  BY IdsStarts
<1>2. IdsInv /\ [I!Next]_I!vars => IdsInv'
  BY IdsGoesOn DEF I!vars, idsVars
<1>3. IdsInv => FindsTheEntry
  BY IdsFindsTheEntry
<1> QED
  BY <1>1, <1>2, <1>3, PTL DEF I!Spec
================================================================================
