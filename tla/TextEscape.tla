------------------------------- MODULE TextEscape -------------------------------
(****************************************************************************)
(* The five functions of format.c that escape a text for a report:          *)
(* JsonEscapeContent, YamlEscapeContent, LuaEscapeContent,                  *)
(* TreeEscapeContent and HtmlEscapeContent.  They differ in their tables    *)
(* and in the room they want before a character; a step is one turn of      *)
(* their loop over the text, which stops early rather than overrun buffer.  *)
(*                                                                          *)
(* A character is a string: "nl", "cr" and "tab" are the ones with escapes  *)
(* of their own, "ctl" stands for the other ones below a space.             *)
(****************************************************************************)
EXTENDS Integers, Sequences

CONSTANTS
    Sizes,  \* values of bufferSize
    Texts   \* values of input, sequences of characters

VARIABLES
    format, \* which of the five functions
    size,   \* bufferSize
    text,   \* the whole of input
    cIn,    \* how many characters of it are done
    buffer, \* what has been written, cOut being its end
    done    \* the loop is left and the NUL written

vars == <<format, size, text, cIn, buffer, done>>

Formats == {"JSON", "YAML", "Lua", "TREE", "HTML"}

Init ==
    /\ format \in Formats
    /\ size \in Sizes
    /\ text \in Texts
    /\ cIn = 0
    /\ buffer = <<>>
    /\ done = FALSE

Control(c) == c \in {"nl", "cr", "tab", "ctl"}
Plain(c) == IF Control(c) THEN <<" ">> ELSE <<c>>

\* nl, cr and tab have letters in three of the formats.
Lettered(c) == CASE c = "nl" -> <<"\\", "n">> [] c = "cr" -> <<"\\", "r">> [] c = "tab" -> <<"\\", "t">>
                 [] OTHER -> Plain(c)

JsonEscape_NoBackslash(c) == IF c = "\"" THEN <<"\\", c>> ELSE Lettered(c)
JsonEscape(c) == IF c \in {"\"", "\\"} THEN <<"\\", c>> ELSE Lettered(c)
LuaEscape(c) == IF c \in {"\"", "'", "\\"} THEN <<"\\", c>> ELSE Lettered(c)
YamlEscape(c) == IF c = "'" THEN <<"'", "'">> ELSE Lettered(c)
HtmlEscape(c) ==
    CASE c = "&" -> <<"&", "a", "m", "p", ";">>
      [] c = "\"" -> <<"&", "q", "u", "o", "t", ";">>
      [] c = "'" -> <<"&", "a", "p", "o", "s", ";">>
      [] c = "<" -> <<"&", "l", "t", ";">>
      [] c = ">" -> <<"&", "g", "t", ";">>
      [] c = "nl" -> <<"&", "n", "b", "s", "p", ";">>
      [] OTHER -> Plain(c)

Escape(c) ==
    CASE format = "JSON" -> JsonEscape(c)
      [] format = "YAML" -> YamlEscape(c)
      [] format = "Lua" -> LuaEscape(c)
      [] format = "TREE" -> Plain(c)
      [] format = "HTML" -> HtmlEscape(c)

\* The longest escape, so that none is cut in two.
Room_AlwaysTwo == 2
Room == IF format = "HTML" THEN 6 ELSE 2

More == ~done /\ cIn < Len(text) /\ Room + Len(buffer) < size

Character ==
    /\ More
    /\ buffer' = buffer \o Escape(text[cIn + 1])
    /\ cIn' = cIn + 1
    /\ UNCHANGED <<format, size, text, done>>

\* The end of the text, or no room: *cOut = '\0'.
Finish ==
    /\ ~done /\ ~More
    /\ done' = TRUE
    /\ UNCHANGED <<format, size, text, cIn, buffer>>

Done == done /\ UNCHANGED vars

Next == Character \/ Finish \/ Done

Spec == Init /\ [][Next]_vars

----------------------------------------------------------------------------
(* What a reader of the report makes of the buffer.                         *)

\* The character that begins an escape, and those that may not stand alone.
Starter == CASE format \in {"JSON", "Lua"} -> "\\" [] format = "YAML" -> "'" [] format = "TREE" -> "" [] OTHER -> "&"
Forbidden == CASE format \in {"JSON", "Lua"} -> {"\""} [] format = "HTML" -> {"<", ">"} [] OTHER -> {}

\* The escapes a reader of each format knows, with the characters they stand for.
JsonKnown ==
    {<<<<"\\", "\"">>, "\"">>, <<<<"\\", "\\">>, "\\">>,
     <<<<"\\", "n">>, "nl">>, <<<<"\\", "r">>, "cr">>, <<<<"\\", "t">>, "tab">>}
LuaKnown == JsonKnown \cup {<<<<"\\", "'">>, "'">>}
YamlKnown == {<<<<"'", "'">>, "'">>}
HtmlKnown ==
    {<<<<"&", "a", "m", "p", ";">>, "&">>, <<<<"&", "q", "u", "o", "t", ";">>, "\"">>,
     <<<<"&", "a", "p", "o", "s", ";">>, "'">>, <<<<"&", "l", "t", ";">>, "<">>,
     <<<<"&", "g", "t", ";">>, ">">>, <<<<"&", "n", "b", "s", "p", ";">>, " ">>}

Known ==
    CASE format = "JSON" -> JsonKnown [] format = "Lua" -> LuaKnown
      [] format = "YAML" -> YamlKnown [] format = "HTML" -> HtmlKnown [] OTHER -> {}
IsKnown(seen) == \E escape \in Known : escape[1] = seen
Meaning(seen) == (CHOOSE escape \in Known : escape[1] = seen)[2]

\* One more character read: pending is an escape not yet complete.
Read(sofar, c) ==
    LET seen == Append(sofar.pending, c)
    IN  IF IsKnown(seen)
        THEN [sofar EXCEPT !.read = Append(@, Meaning(seen)), !.pending = <<>>]
        ELSE IF sofar.pending # <<>> \/ c = Starter
        THEN [sofar EXCEPT !.pending = seen]
        ELSE [sofar EXCEPT !.read = Append(@, c), !.sound = @ /\ c \notin Forbidden /\ ~Control(c)]

\* What has been read after the first i characters of the buffer.
After[i \in 0..Len(buffer)] ==
    IF i = 0 THEN [read |-> <<>>, pending |-> <<>>, sound |-> TRUE] ELSE Read(After[i - 1], buffer[i])
ReadBack == After[Len(buffer)]

\* What is left of a character: YAML keeps the two characters of an escape of
\* C, since it does not read them in single quotes; TREE and HTML have spaces.
Told(c) ==
    CASE format \in {"JSON", "Lua"} -> IF c = "ctl" THEN <<" ">> ELSE <<c>>
      [] format = "YAML" -> Lettered(c)
      [] OTHER -> Plain(c)

\* What is left of the first i characters of the text.
Left[i \in 0..cIn] == IF i = 0 THEN <<>> ELSE Left[i - 1] \o Told(text[i])

----------------------------------------------------------------------------

\* The escaped text and its NUL fit into the buffer, whatever the text and the
\* size of the buffer (format.c:85, 139, 183, 235, 265).
NeverOverruns == Len(buffer) + 1 <= size

\* However early a text is cut, what was written reads back as the beginning of
\* that text: no escape is cut in two and no character ends the text early.
EscapesReadBack ==
    /\ ReadBack.pending = <<>> /\ ReadBack.sound
    /\ ReadBack.read = Left[cIn]

\* Both: however small the buffer, it holds a text that reads back as a beginning of the
\* one that was escaped (format.c:76-311).
EscapesFit == NeverOverruns /\ EscapesReadBack

================================================================================
