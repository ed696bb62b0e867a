------------------------------ MODULE ReportPrint ------------------------------
(****************************************************************************)
(* What NW_Export writes of the tree ReportTree builds (format.c), and what *)
(* a reader finds in it.  JSON and Lua are streams of tokens, YAML is lines *)
(* with a column.  TREE and HTML, which nobody reads back, are left out;    *)
(* how a text is escaped is the subject of TextEscape.                      *)
(****************************************************************************)
EXTENDS ReportTree

----------------------------------------------------------------------------
(* JSON and Lua.  A token is a bracket, a comma, the name of what follows,  *)
(* or a value; tokens and values have one form.                             *)

\* for (c = value; *c != '\0'; c += strlen(c) + 1)
RECURSIVE Strings(_)
Strings(memory) ==
    IF memory[1] = NUL THEN <<>>
    ELSE LET end == CHOOSE i \in 1..Len(memory) : memory[i] = NUL /\ \A k \in 1..i - 1 : memory[k] # NUL
         IN  <<SubSeq(memory, 1, end - 1)>> \o Strings(SubSeq(memory, end + 1, Len(memory)))

Value(shape, text) == [shape |-> shape, text |-> text, members |-> {}, items |-> <<>>]
Comma == Value(",", <<>>)
Name(text) == Value("name", <<text>>)

\* Lua has one kind of bracket and quotes its numbers.
OpenArray(lua) == Value(IF lua THEN "{" ELSE "[", <<>>)
CloseArray(lua) == Value(IF lua THEN "}" ELSE "]", <<>>)
PlainShape(form, lua) == IF lua /\ form = "number" THEN "text" ELSE form

JsonAttribute(att, lua) ==
    <<Name(att.key)>> \o
    IF att.form # "array" THEN <<Value(PlainShape(att.form, lua), att.value)>>
    ELSE LET list == Strings(att.value)
         IN  <<OpenArray(lua)>>
             \o FlattenSeq([i \in DOMAIN list |->
                    (IF i > 1 THEN <<Comma>> ELSE <<>>) \o <<Value("text", list[i])>>])
             \o <<CloseArray(lua)>>

Add_EvenNothing(done, piece) ==
    [text |-> done.text \o (IF done.plural /\ piece # <<>> THEN <<Comma>> ELSE <<>>) \o piece,
     plural |-> TRUE]

\* "plural" puts a comma before everything that follows something printed.
Add(done, piece) ==
    IF piece = <<>> THEN done
    ELSE [text |-> done.text \o (IF done.plural THEN <<Comma>> ELSE <<>>) \o piece, plural |-> TRUE]

\* An attribute without a value is left out.
Printed(att) == IF att.form = "array" THEN att.value[1] # NUL ELSE att.value # <<>>

RECURSIVE NodeToJson(_, _, _, _)
NodeToJson(tree, n, depth, lua) ==
    LET node == tree[n]
        name == IF depth > 0 /\ node.kind # "row" THEN <<Name(node.name)>> ELSE <<>>
        atts == IF node.kind = "table" THEN <<>>
                ELSE [i \in DOMAIN node.attributes |->
                        IF Printed(node.attributes[i]) THEN JsonAttribute(node.attributes[i], lua) ELSE <<>>]
        children == [i \in DOMAIN node.children |-> NodeToJson(tree, node.children[i], depth + 1, lua)]
        inside == FoldLeft(Add, [text |-> <<>>, plural |-> FALSE], atts \o children).text
    IN  IF node.kind = "table" THEN name \o <<OpenArray(lua)>> \o inside \o <<CloseArray(lua)>>
        ELSE name \o <<Value("{", <<>>)>> \o inside \o <<Value("}", <<>>)>>

----------------------------------------------------------------------------
(* YAML: four columns to a level; a row begins with a dash, and its name is *)
(* the key of what it holds.                                                *)

YamlIndent == 4
Line(column, dash, key, value) == [column |-> column, dash |-> dash, key |-> key, value |-> value]
Nothing == Value("nothing", <<>>)
Null == Value("null", <<>>)

YamlList(list) == [Value("[", <<>>) EXCEPT !.items = [i \in DOMAIN list |-> Value("text", list[i])]]

\* An attribute without a value reads "~", which makes only a number null.
YamlAttribute(att, column) ==
    Line(column, FALSE, att.key,
         CASE att.form = "array" -> YamlList(Strings(att.value))
           [] att.form = "boolean" -> Value("boolean", att.value)
           [] att.form = "number" -> IF att.value = <<>> THEN Null ELSE Value("number", att.value)
           [] OTHER -> Value("text", IF att.value = <<>> THEN <<"~">> ELSE att.value))

NodeHeader(node, column) ==
    Line(column, node.kind = "row", node.name,
         IF node.attributes = <<>> /\ node.children = <<>> THEN Null ELSE Nothing)

AttributeColumn(depth) == YamlIndent * (depth + 1)

RECURSIVE NodeToYaml(_, _, _)
NodeToYaml(tree, n, depth) ==
    LET node == tree[n]
    IN  <<NodeHeader(node, YamlIndent * depth)>>
        \o [i \in DOMAIN node.attributes |-> YamlAttribute(node.attributes[i], AttributeColumn(depth))]
        \o FlattenSeq([i \in DOMAIN node.children |-> NodeToYaml(tree, node.children[i], depth + 1)])

----------------------------------------------------------------------------
(* What a reader of the report finds in it.  A member of an object is its   *)
(* name, the how manieth it is of that name, and its value: a reader has to *)
(* keep all of them, for the tree may hold groups that are called alike.    *)

Bad == Value("bad", <<>>)
Namesakes(name, members) == { m \in members : m[1] = name }
WithMember(members, name, value) ==
    members \cup {<<name, Cardinality(Namesakes(name, members)) + 1, value>>}

\* One value of a stream of tokens, and what is left of the stream.  A bracket
\* that holds something of the wrong kind, in JSON without a name, is bad.
RECURSIVE ReadValue(_, _), ReadInside(_, _, _)
ReadValue(tokens, lua) ==
    IF tokens = <<>> THEN [value |-> Bad, rest |-> <<>>]
    ELSE CASE Head(tokens).shape \in {"{", "["} -> ReadInside(Tail(tokens), Head(tokens), lua)
           [] Head(tokens).shape \in {"text", "number", "boolean"} -> [value |-> Head(tokens), rest |-> Tail(tokens)]
           [] OTHER -> [value |-> Bad, rest |-> <<>>]

ReadInside(tokens, value, lua) ==
    LET first == value.members = {} /\ value.items = <<>>
        body == IF first \/ tokens = <<>> THEN tokens ELSE Tail(tokens)
        named == body # <<>> /\ Head(body).shape = "name"
        next == ReadValue(IF named THEN Tail(body) ELSE body, lua)
    IN  IF tokens = <<>> THEN [value |-> Bad, rest |-> <<>>]
        ELSE IF Head(tokens).shape = (IF value.shape = "{" THEN "}" ELSE "]")
        THEN [value |-> value, rest |-> Tail(tokens)]
        ELSE IF \/ ~first /\ Head(tokens) # Comma
                \/ next.value = Bad
                \/ named /\ value.shape = "["
                \/ ~named /\ ~lua /\ value.shape = "{"
        THEN [value |-> Bad, rest |-> <<>>]
        ELSE IF named
        THEN ReadInside(next.rest, [value EXCEPT !.members = WithMember(@, Head(body).text[1], next.value)], lua)
        ELSE ReadInside(next.rest, [value EXCEPT !.items = Append(@, next.value)], lua)

\* The value of a block of lines: those that begin in its first column make it.
RECURSIVE ReadBlock(_)
ReadBlock(lines) ==
    IF lines = <<>> THEN Null
    ELSE LET column == lines[1].column
             starts == SetToSortSeq({ i \in DOMAIN lines : lines[i].column = column }, <)
             Below(k) == SubSeq(lines, starts[k] + 1, IF k < Len(starts) THEN starts[k + 1] - 1 ELSE Len(lines))
             Start(k) == lines[starts[k]]
             Item(k) == ReadBlock(<<[Start(k) EXCEPT !.column = @ + 2, !.dash = FALSE]>> \o Below(k))
             Member(k) == IF Start(k).value = Nothing THEN ReadBlock(Below(k))
                          ELSE IF Below(k) = <<>> THEN Start(k).value ELSE Bad
             AddStart(members, k) == WithMember(members, Start(k).key, Member(k))
         IN  IF \/ \E i \in DOMAIN lines : lines[i].column < column
                \/ \E k \in DOMAIN starts : Start(k).dash # lines[1].dash
             THEN Bad
             ELSE IF lines[1].dash
             THEN [Value("[", <<>>) EXCEPT !.items = [k \in DOMAIN starts |-> Item(k)]]
             ELSE [Value("{", <<>>) EXCEPT !.members = FoldLeft(AddStart, {}, [k \in DOMAIN starts |-> k])]

ToldTo(n) == { at \in DOMAIN told.values : at[1] = n }
TextsOf(v) == [i \in DOMAIN v.texts |-> Kept(v.texts[i], v.secret)]
Empty(v) == v.texts = (IF v.form = "array" THEN <<>> ELSE <<<<>>>>)

MeantList(list, shape) == [Value(shape, <<>>) EXCEPT !.items = [i \in DOMAIN list |-> Value("text", list[i])]]

MeantInCurly(v, lua) ==
    IF v.form = "array" THEN MeantList(v.texts, IF lua THEN "{" ELSE "[")
    ELSE Value(IF lua /\ v.form = "number" THEN "text" ELSE v.form, TextsOf(v)[1])

MeantInYaml(v) ==
    IF v.form = "array" THEN MeantList(v.texts, "[")
    ELSE Value(v.form, IF Empty(v) THEN <<"~">> ELSE TextsOf(v)[1])

\* What the collectors told of node n, in the terms of a format.
RECURSIVE Meaning(_, _)
Meaning(n, format) ==
    LET node == nodes[n]
        child(i) == Meaning(node.children[i], format)
        mine == { at \in ToldTo(n) : format = "YAML" \/ ~Empty(told.values[at]) }
        Meant(v) == IF format = "YAML" THEN MeantInYaml(v) ELSE MeantInCurly(v, format = "Lua")
        values == { <<at[2], 1, Meant(told.values[at])>> : at \in mine }
        AddChild(members, i) == WithMember(members, nodes[node.children[i]].name, child(i))
        Row(i) == IF format = "YAML"
                  THEN [Value("{", <<>>) EXCEPT !.members = {<<nodes[node.children[i]].name, 1, child(i)>>}]
                  ELSE child(i)
    IN  IF format = "YAML" /\ ToldTo(n) = {} /\ node.children = <<>> THEN Null
        ELSE IF node.kind = "table"
        THEN [Value(IF format = "Lua" THEN "{" ELSE "[", <<>>) EXCEPT
                !.items = [i \in DOMAIN node.children |-> Row(i)]]
        ELSE [Value("{", <<>>) EXCEPT
                !.members = FoldLeft(AddChild, values, [i \in DOMAIN node.children |-> i])]

----------------------------------------------------------------------------

\* A JSON or Lua report is well-formed, and reading it gives what the collectors
\* told, in the order of the rows: the errors, every value that is not empty,
\* every list string by string, every group of a name (format.c:313, 516; node.c:264).
JsonReadsBack ==
    output \in {"JSON", "Lua"} =>
        LET read == ReadValue(NodeToJson(nodes, Root, 0, output = "Lua"), output = "Lua")
        IN  read.rest = <<>> /\ read.value = Meaning(Root, output)

\* So is a YAML report, by the columns of its lines (format.c:420).
YamlReadsBack ==
    output = "YAML" =>
        ReadBlock(NodeToYaml(nodes, Root, 0)).members = {<<"NWinfo", 1, Meaning(Root, "YAML")>>}

\* Both, for the run.
ReadsBack == JsonReadsBack /\ YamlReadsBack

================================================================================
