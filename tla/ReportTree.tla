------------------------------ MODULE ReportTree -------------------------------
(****************************************************************************)
(* The report of libnw while it is put together: the node tree its          *)
(* collectors build (node.c), the errors they log, and what NW_Print adds   *)
(* at the end (libinfo.c).  What is written of the finished tree is the     *)
(* subject of ReportPrint.                                                  *)
(*                                                                          *)
(* A text is a sequence of characters; only those are kept that the tree    *)
(* treats differently.  A value is told as a list of texts, a plain one as  *)
(* a list of one.                                                           *)
(****************************************************************************)
EXTENDS Naturals, FiniteSets, SequencesExt

CONSTANTS
    Names,    \* names the collectors give groups of nodes, some of them foreign
    Options,  \* HideSensitive, HumanSize and BinaryFormat
    Messages, \* errors a collector may log, sequences of characters
    MaxNodes, \* bound: nodes of a report
    MaxCalls  \* bound: calls of the collectors

VARIABLES
    options, \* the options of this run
    nodes,   \* the tree; node 1 is NwRoot
    errLog,  \* the memory ErrLog points to, <<>> for NULL
    calls,   \* calls of the collectors so far
    told,    \* what the collectors have told: errors, and values by node and key
    output   \* the format NW_Export wrote the tree in, "none" before

vars == <<options, nodes, errLog, calls, told, output>>

Root == 1
Node(name, kind) == [name |-> name, kind |-> kind, children |-> <<>>, attributes |-> <<>>]
Attribute(key, value, form) == [key |-> key, value |-> value, form |-> form]

Init ==
    /\ options \in Options
    /\ nodes = <<Node("NWinfo", "object")>>
    /\ errLog = <<>>
    /\ calls = 0
    /\ told = [errors |-> <<>>, values |-> <<>>]
    /\ output = "none"

----------------------------------------------------------------------------
(* A multistring is one piece of memory: strings that end in a NUL, and an  *)
(* empty one after the last.                                                *)

NUL == "NUL"

AppendMultiSz_OneNul(memory, new) ==
    IF memory = <<>> THEN new \o <<NUL, NUL>>
    ELSE LET oldLength == CHOOSE i \in 1..Len(memory) - 1 :
                 /\ memory[i] = NUL
                 /\ \A k \in 1..i - 1 : memory[k] # NUL
         IN  SubSeq(memory, 1, oldLength) \o new \o <<NUL, NUL>>

\* The first two NULs in a row end the old multistring.
AppendMultiSz(memory, new) ==
    IF memory = <<>> THEN new \o <<NUL, NUL>>
    ELSE LET oldLength == CHOOSE i \in 1..Len(memory) - 1 :
                 /\ memory[i] = NUL /\ memory[i + 1] = NUL
                 /\ \A k \in 1..i - 1 : memory[k] # NUL \/ memory[k + 1] # NUL
         IN  SubSeq(memory, 1, oldLength) \o new \o <<NUL, NUL>>

\* NWL_NodeAttrSetMulti copies up to the empty string, or nothing but a NUL.
CopyMulti(memory) ==
    IF memory = <<>> THEN <<NUL>>
    ELSE LET EndsIn(i) == memory[i] = NUL /\ (i > 1 => memory[i - 1] = NUL)
             end == CHOOSE i \in DOMAIN memory : EndsIn(i) /\ \A k \in 1..i - 1 : ~EndsIn(k)
         IN  SubSeq(memory, 1, end)

----------------------------------------------------------------------------
(* Nodes and attributes.                                                    *)

Mask(value) == [i \in DOMAIN value |-> "*"]
Kept(value, sensitive) == IF options.hide /\ sensitive THEN Mask(value) ELSE value

HasAttribute(atts, key) == \E i \in DOMAIN atts : atts[i].key = key

SetAttribute_Unchanged(atts, key, value, form, sensitive) ==
    IF HasAttribute(atts, key)
    THEN [i \in DOMAIN atts |->
            IF atts[i].key # key THEN atts[i]
            ELSE Attribute(key, IF atts[i].value = value THEN value ELSE Kept(value, sensitive), form)]
    ELSE Append(atts, Attribute(key, Kept(value, sensitive), form))

\* NWL_NodeAttrSet: the same plain text is kept, anything sensitive made anew.
SetAttribute(atts, key, value, form, sensitive) ==
    IF HasAttribute(atts, key)
    THEN [i \in DOMAIN atts |->
            IF atts[i].key # key THEN atts[i]
            ELSE Attribute(key, IF atts[i].value = value /\ ~sensitive THEN value
                                ELSE Kept(value, sensitive), form)]
    ELSE Append(atts, Attribute(key, Kept(value, sensitive), form))

\* A size is a number unless HumanSize wants units.
SizeForm == IF options.human THEN "text" ELSE "number"

GetChild(n, name) == { nodes[n].children[i] : i \in { j \in DOMAIN nodes[n].children :
                            nodes[nodes[n].children[j]].name = name } }

\* The tree with a new node appended to parent n.
AppendNew(tree, n, name, kind) ==
    Append([tree EXCEPT ![n].children = Append(@, Len(tree) + 1)], Node(name, kind))

Collecting == output = "none" /\ calls < MaxCalls
Called == calls' = calls + 1 /\ UNCHANGED <<options, output>>

\* The history: what node n was last told under a key.
Tell(n, key, form, texts, secret) ==
    [told EXCEPT !.values = [at \in DOMAIN told.values \cup {<<n, key>>} |->
        IF at = <<n, key>> THEN [form |-> form, texts |-> texts, secret |-> secret] ELSE told.values[at]]]

----------------------------------------------------------------------------
(* What the collectors do.  They put rows into tables and nothing else.     *)
(* Nobody looks whether a node has a child or a value of that name already: *)
(* two sensors of HWiNFO may be called alike.                               *)

AppendGroup(n, name, kind) ==
    /\ Collecting /\ Len(nodes) < MaxNodes
    /\ nodes[n].kind # "table"
    /\ kind \in {"object", "table"}
    /\ nodes' = AppendNew(nodes, n, name, kind)
    /\ Called /\ UNCHANGED <<errLog, told>>

AppendRow(n) ==
    /\ Collecting /\ Len(nodes) < MaxNodes
    /\ nodes[n].kind = "table"
    /\ nodes' = AppendNew(nodes, n, "Device", "row")
    /\ Called /\ UNCHANGED <<errLog, told>>

AppendDevice_NoLookup(n) ==
    /\ Collecting /\ Len(nodes) + 1 < MaxNodes
    /\ nodes[n].kind = "row"
    /\ nodes' = AppendNew(AppendNew(nodes, n, "Devices", "table"), Len(nodes) + 1, "Device", "row")
    /\ Called /\ UNCHANGED <<errLog, told>>

\* NWL_EnumerateDevices: a device below another one goes into its table of
\* devices, which the first of them brings along.
AppendDevice(n) ==
    /\ Collecting /\ Len(nodes) + 1 < MaxNodes
    /\ nodes[n].kind = "row"
    /\ nodes' = IF GetChild(n, "Devices") # {}
                THEN AppendNew(nodes, CHOOSE t \in GetChild(n, "Devices") : TRUE, "Device", "row")
                ELSE AppendNew(AppendNew(nodes, n, "Devices", "table"), Len(nodes) + 1, "Device", "row")
    /\ Called /\ UNCHANGED <<errLog, told>>

\* What every call that sets a plain attribute does to the tree and the history.
SetPlain(n, key, value, form, sensitive) ==
    /\ Collecting
    /\ nodes[n].kind # "table"
    /\ nodes' = [nodes EXCEPT ![n].attributes = SetAttribute(@, key, value, form, sensitive)]
    /\ told' = Tell(n, key, form, <<value>>, sensitive)
    /\ Called /\ UNCHANGED errLog

\* NWL_NodeAttrSet and NWL_NodeAttrSetf
SetText(n, value, sensitive) == SetPlain(n, "text", value, "text", sensitive)

SetBool(n, value) == SetPlain(n, "bool", value, "boolean", FALSE)

\* NWL_GetHumanSize makes the text, NWL_NodeAttrSet decides what it is.
SetSize(n) == SetPlain(n, "size", IF options.human THEN <<"1", "KB">> ELSE <<"1024">>, SizeForm, FALSE)

\* A list put together with NWL_NodeAppendMultiSz and set with NWL_NodeAttrSetMulti
SetList(n, list) ==
    LET memory == CopyMulti(FoldLeft(AppendMultiSz, <<>>, list))
    IN  /\ Collecting
        /\ nodes[n].kind # "table"
        /\ nodes' = [nodes EXCEPT ![n].attributes = SetAttribute(@, "list", memory, "array", FALSE)]
        /\ told' = Tell(n, "list", "array", list, FALSE)
        /\ Called /\ UNCHANGED errLog

\* NWL_NodeAttrSetRaw: nothing, a text, or a group with a text per sixteen bytes.
SetRaw(n) ==
    \/ options.binary = "none" /\ Collecting /\ Called /\ UNCHANGED <<nodes, errLog, told>>
    \/ options.binary = "base64" /\ SetPlain(n, "raw", <<"base64">>, "text", FALSE)
    \/ /\ options.binary = "hex"
       /\ Collecting /\ Len(nodes) < MaxNodes
       /\ nodes[n].kind # "table"
       /\ nodes' = [AppendNew(nodes, n, "raw", "object") EXCEPT
                        ![Len(nodes) + 1].attributes = <<Attribute("00000000", <<"hex">>, "text")>>]
       /\ told' = Tell(Len(nodes) + 1, "00000000", "text", <<<<"hex">>>>, FALSE)
       /\ Called /\ UNCHANGED errLog

LogError(message) ==
    /\ Collecting
    /\ errLog' = AppendMultiSz(errLog, message)
    /\ told' = [told EXCEPT !.errors = Append(@, message)]
    /\ Called /\ UNCHANGED nodes

----------------------------------------------------------------------------

\* The end of NW_Print: NW_Libinfo gives the root the errors, NW_Export writes.
NW_Print(format) ==
    /\ output = "none"
    /\ nodes' = [nodes EXCEPT ![Root].attributes = SetAttribute(@, "Error", CopyMulti(errLog), "array", FALSE)]
    /\ told' = Tell(Root, "Error", "array", told.errors, FALSE)
    /\ output' = format
    /\ UNCHANGED <<options, errLog, calls>>

Done == output # "none" /\ UNCHANGED vars

Lists == {<<>>} \cup { <<m>> : m \in Messages } \cup { pair \in Messages \X Messages : pair[1] # pair[2] }

Next ==
    \/ \E n \in DOMAIN nodes :
        \/ \E name \in Names, kind \in {"object", "table"} : AppendGroup(n, name, kind)
        \/ AppendRow(n) \/ AppendDevice(n)
        \/ \E value \in {<<>>, <<"s">>}, sensitive \in BOOLEAN : SetText(n, value, sensitive)
        \/ \E value \in {<<"Y">>, <<"N">>} : SetBool(n, value)
        \/ SetSize(n) \/ SetRaw(n)
        \/ \E list \in Lists : SetList(n, list)
    \/ \E message \in Messages : LogError(message)
    \/ \E format \in {"JSON", "Lua", "YAML"} : NW_Print(format)
    \/ Done

Spec == Init /\ [][Next]_vars

----------------------------------------------------------------------------

NULs(memory) == { i \in DOMAIN memory : memory[i] = NUL }

\* A multistring is the strings of a list one after the other, with a NUL after each, and
\* another NUL.
Holds(memory, list) ==
    \E ends \in [1..Len(list) -> NULs(memory)] :
        LET before(k) == IF k = 1 THEN 0 ELSE ends[k - 1]
            end == before(Len(list) + 1)
        IN  /\ \A k \in 1..Len(list) :
                  /\ ends[k] = before(k) + Len(list[k]) + 1
                  /\ \A i \in 1..Len(list[k]) : memory[before(k) + i] = list[k][i]
            /\ Len(memory) = end + 1 /\ memory[end + 1] = NUL

\* An attribute shows what was told: every string of a list, the mask of a hidden value.
Shows(att, v) ==
    /\ att.form = v.form
    /\ IF v.form = "array" THEN Holds(att.value, v.texts)
       ELSE v.texts = <<v.texts[1]>> /\ att.value = Kept(v.texts[1], v.secret)

\* Every node but the root is once a child, of a node made before it.
IsChildOnce(m) ==
    \E n \in 1..m - 1 : \E i \in DOMAIN nodes[n].children :
        /\ nodes[n].children[i] = m
        /\ \A k \in DOMAIN nodes : \A j \in DOMAIN nodes[k].children :
              nodes[k].children[j] = m => k = n /\ j = i

ToldKeys(n) == { at[2] : at \in { a \in DOMAIN told.values : a[1] = n } }

\* What NWL_NodeAttrSet, NWL_NodeAttrSetMulti and NWL_NodeAppendNew put into the tree is
\* what the collectors told: one attribute for each key a node was told about, with the
\* value it was told last (masked under HideSensitive if that was a sensitive one, whatever
\* was set before), every list and the error log string by string; every node is once a
\* child, and the devices below another one are in one table (node.c:103, 126, 196, 264;
\* devtree.c:214).  Groups of one name may be many.
HoldsWhatWasTold ==
    /\ \A m \in DOMAIN nodes \ {Root} : IsChildOnce(m)
    /\ \A n \in DOMAIN nodes :
          LET atts == nodes[n].attributes
          IN  /\ ToldKeys(n) = { atts[i].key : i \in DOMAIN atts }
              /\ \A i, j \in DOMAIN atts : atts[i].key = atts[j].key => i = j
              /\ \A i \in DOMAIN atts : Shows(atts[i], told.values[<<n, atts[i].key>>])
              /\ nodes[n].kind = "row" => \A t, u \in GetChild(n, "Devices") : t = u
    /\ IF told.errors = <<>> THEN errLog = <<>> ELSE Holds(errLog, told.errors)
    /\ output # "none" => told.values[<<Root, "Error">>].texts = told.errors

\* With HideSensitive no report shows a value that was last set as a sensitive
\* one, whatever was set before under the same key (node.c:126, 196).
SecretsMasked ==
    options.hide =>
        \A at \in DOMAIN told.values : told.values[at].secret =>
            \A i \in DOMAIN nodes[at[1]].attributes :
                nodes[at[1]].attributes[i].key = at[2] =>
                    ToSet(nodes[at[1]].attributes[i].value) \subseteq {"*"}

================================================================================
