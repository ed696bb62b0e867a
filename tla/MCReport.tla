-------------------------------- MODULE MCReport --------------------------------
(****************************************************************************)
(* Three parts of MCNwinfo under names of their own, for it to check next   *)
(* to the others and for ReportProofs: the tree of the report, the escapes  *)
(* of its texts, and the names looked up for it.                            *)
(****************************************************************************)
EXTENDS Integers, Sequences

CONSTANTS Names, Options, Messages, MaxNodes, MaxCalls,   \* see ReportTree
          Sizes, Texts,                                   \* see TextEscape
          Files, Queries                                  \* see IdsLookup

\* A buffer has room for a NUL; a character is any string but the empty one.
ASSUME SizesAssumption == Sizes \subseteq Nat \ {0}
ASSUME TextsAssumption == \A t \in Texts : t \in Seq(STRING \ {""})

VARIABLES
    options, nodes, errLog, calls, told, output,
    format, size, text, cIn, buffer, done,
    file, query, line, scan

T == INSTANCE ReportTree
E == INSTANCE TextEscape
I == INSTANCE IdsLookup

\* No collector but that of the device tree gives a row a table of devices; an error and a
\* string of a list are not empty and hold no NUL.
ASSUME NamesAssumption == "Devices" \notin Names
ASSUME MessagesAssumption ==
    \A m \in Messages : m \in Seq(STRING) /\ m # <<>> /\ \A i \in DOMAIN m : m[i] # T!NUL

\* A file is a sequence of lines, with at most two tabs each.
ASSUME FilesAssumption == \A f \in Files : f \in Seq(I!Lines)
ASSUME QueriesAssumption == \A q \in Queries : q.codes \in Seq(STRING)

reportVars == <<options, nodes, errLog, calls, told, output>>
escapeVars == <<format, size, text, cIn, buffer, done>>
idsVars == <<file, query, line, scan>>

\* See ReportTree.SecretsMasked.
SecretsMasked == T!SecretsMasked
\* See ReportTree.HoldsWhatWasTold.
HoldsWhatWasTold == T!HoldsWhatWasTold
\* See TextEscape.EscapesFit.
EscapesFit == E!EscapesFit
\* See IdsLookup.FindsTheEntry.
FindsTheEntry == I!FindsTheEntry
================================================================================
