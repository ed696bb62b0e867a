-------------------------------- MODULE IdsLookup --------------------------------
(****************************************************************************)
(* ids.c: names are looked up in text files by scanning their lines in      *)
(* order, one a step.  A line is abstracted to its depth (the tabs it       *)
(* begins with), the list it belongs to, its code and whether a name        *)
(* follows the code; a comment has depth -1.  What is found is the number   *)
(* of its line.                                                             *)
(****************************************************************************)
EXTENDS Integers, Sequences

CONSTANTS
    Files,      \* sequences of lines
    Queries     \* [kind, codes]: device, class, pnp, spd or date, and the codes from the
                \* outermost to the innermost

VARIABLES
    file,   \* the lines of the file
    query,  \* what is looked up
    line,   \* Offset: the last line that was read
    scan    \* what the scan looks for next ("at", 0 when it has ended) and what it found

vars == <<file, query, line, scan>>

Lines == [depth : -1..2, list : STRING, code : STRING, named : BOOLEAN]

\* The attributes that are set.
Attributes == {"Vendor", "Device", "Subsys", "Class", "Subclass", "Prog IF", "Manufacturer", "Date"}

Missing == 0       \* no such line
Fallback == -1  \* the attribute is made from the code
Nothing == [n \in Attributes |-> Missing]

Comment(i) == file[i].depth = -1

----------------------------------------------------------------------------
(* What line i makes of the scan, for each of the lookups.                  *)

Start == [at |-> 1, found |-> Nothing]
Stop == [scan EXCEPT !.at = 0]
Found(name, i, more) ==
    [at |-> IF more THEN scan.at + 1 ELSE 0, found |-> [scan.found EXCEPT ![name] = i]]

\* NWL_FindVendor passes over comments, deeper lines and lines without a name.
IsVendor(i) ==
    file[i].depth = 0 /\ file[i].list = "vendor" /\ file[i].named /\ file[i].code = query.codes[1]
FindVendor(i) ==
    IF IsVendor(i) THEN Found("Vendor", i, Len(query.codes) > 1) ELSE scan

\* The devices are not ended by the next vendor.
FindDevice_RunsOn(i) ==
    IF file[i].depth = 1 /\ file[i].named /\ file[i].code = query.codes[2]
    THEN Found("Device", i, Len(query.codes) > 2)
    ELSE scan

\* The devices of a vendor end at the next line without a tab; a device without a name is
\* passed over.
FindDevice(i) ==
    IF file[i].depth = 0 THEN Stop
    ELSE IF file[i].depth = 1 /\ file[i].named /\ file[i].code = query.codes[2]
    THEN Found("Device", i, Len(query.codes) > 2)
    ELSE scan

\* The subsystems of a device end at the next line with less than two tabs, or without a
\* name.
FindSubsys(i) ==
    IF file[i].depth # 2 \/ ~file[i].named THEN Stop
    ELSE IF file[i].code = query.codes[3] THEN Found("Subsys", i, FALSE)
    ELSE scan

NWL_FindId(i) ==
    IF scan.at = 1 THEN FindVendor(i)
    ELSE IF Comment(i) THEN scan
    ELSE IF scan.at = 2 THEN FindDevice(i) ELSE FindSubsys(i)

\* Classes are scanned the same way, but a subclass without a name ends its list.
IsClass(i) ==
    file[i].depth = 0 /\ file[i].list = "class" /\ file[i].named /\ file[i].code = query.codes[1]
FindSubclass(i) ==
    IF file[i].depth = 0 \/ ~file[i].named THEN Stop
    ELSE IF file[i].depth = 1 /\ file[i].code = query.codes[2]
    THEN Found("Subclass", i, Len(query.codes) > 2)
    ELSE scan

\* The prog-ifs are not ended by the next subclass.
FindProgIf_RunsOn(i) ==
    IF file[i].depth = 0 THEN Stop
    ELSE IF file[i].depth = 2 /\ file[i].code = query.codes[3] THEN Found("Prog IF", i, FALSE)
    ELSE scan

FindProgIf(i) ==
    IF file[i].depth # 2 \/ ~file[i].named THEN Stop
    ELSE IF file[i].code = query.codes[3] THEN Found("Prog IF", i, FALSE)
    ELSE scan

NWL_FindClass(i) ==
    IF Comment(i) THEN scan
    ELSE IF scan.at = 1
    THEN IF IsClass(i) THEN Found("Class", i, Len(query.codes) > 1) ELSE scan
    ELSE IF scan.at = 2 THEN FindSubclass(i) ELSE FindProgIf(i)

\* A manufacturer is the first line with its code, or the code itself.
NWL_GetPnpManufacturer(i) ==
    IF file[i].depth = 0 /\ file[i].named /\ file[i].code = query.codes[1]
    THEN Found("Manufacturer", i, FALSE) ELSE scan

\* The items of a bank are not ended by the next bank.
NWL_GetSpdManufacturer_RunsOn(i) ==
    IF scan.at = 1
    THEN IF file[i].depth = 0 /\ file[i].code = query.codes[1] THEN [scan EXCEPT !.at = 2] ELSE scan
    ELSE IF file[i].depth = 1 /\ file[i].code = query.codes[2] /\ file[i].named
    THEN Found("Manufacturer", i, FALSE) ELSE scan

\* A bank of JEP106, then the items that follow it at once: any other line, a comment too,
\* ends them.
NWL_GetSpdManufacturer(i) ==
    IF scan.at = 1
    THEN IF file[i].depth = 0 /\ file[i].code = query.codes[1] THEN [scan EXCEPT !.at = 2] ELSE scan
    ELSE IF file[i].depth # 1 THEN Stop
    ELSE IF file[i].code = query.codes[2] /\ file[i].named THEN Found("Manufacturer", i, FALSE)
    ELSE scan

\* The first comment that has a date in its place.
NWL_GetIdsDate(i) ==
    IF Comment(i) /\ file[i].named THEN Found("Date", i, FALSE) ELSE scan

Step(i) ==
    CASE query.kind = "device" -> NWL_FindId(i)
      [] query.kind = "class"  -> NWL_FindClass(i)
      [] query.kind = "pnp"    -> NWL_GetPnpManufacturer(i)
      [] query.kind = "spd"    -> NWL_GetSpdManufacturer(i)
      [] OTHER                 -> NWL_GetIdsDate(i)

Init ==
    /\ file \in Files /\ query \in Queries
    /\ line = 0 /\ scan = Start

Ended == scan.at = 0 \/ line = Len(file)

\* IdsGetline and what is done with the line.
Look ==
    /\ ~Ended
    /\ line' = line + 1
    /\ scan' = Step(line + 1)
    /\ UNCHANGED <<file, query>>

Done == Ended /\ UNCHANGED vars
Next == Look \/ Done
Spec == Init /\ [][Next]_vars

\* A manufacturer or a date that is not found is made from the code.
OrElse(name) == IF scan.found[name] = Missing THEN [scan.found EXCEPT ![name] = Fallback] ELSE scan.found
Looked ==
    CASE query.kind \in {"pnp", "spd"} -> OrElse("Manufacturer")
      [] query.kind = "date" -> OrElse("Date")
      [] OTHER -> scan.found

----------------------------------------------------------------------------
(* Properties.  A file read as the tree its tabs draw. *)

\* The line a line belongs to: the nearest one above that is less deep.
Parent(i) ==
    LET above == { j \in 1 .. i - 1 : ~Comment(j) /\ file[j].depth < file[i].depth }
    IN IF above = {} THEN Missing ELSE CHOOSE j \in above : \A k \in above : k <= j
First(lines) == IF lines = {} THEN Missing ELSE CHOOSE i \in lines : \A j \in lines : i <= j
Under(parent, depth, code) ==
    First({ i \in DOMAIN file : /\ parent # Missing /\ Parent(i) = parent
                                /\ file[i].depth = depth /\ file[i].code = code
                                /\ file[i].named })
Top(list, code) ==
    First({ i \in DOMAIN file : file[i].depth = 0 /\ file[i].list = list /\ file[i].named
                                /\ file[i].code = code })
Path(list, first, second, third) ==
    LET one == Top(list, query.codes[1])
        two == IF Len(query.codes) > 1 THEN Under(one, 1, query.codes[2]) ELSE Missing
        three == IF Len(query.codes) > 2 THEN Under(two, 2, query.codes[3]) ELSE Missing
    IN [Nothing EXCEPT ![first] = one, ![second] = two, ![third] = three]

\* Every line but a comment has a name (the banks of JEP106 need none) and, unless it is
\* outermost, a parent one tab to its left.
WellFormed ==
    /\ \A i \in DOMAIN file : Comment(i) \/ file[i].named
    /\ \A i \in DOMAIN file : file[i].depth = 2 => Parent(i) # Missing /\ file[Parent(i)].depth = 1
    /\ \A i \in DOMAIN file : file[i].depth = 1 => Parent(i) # Missing

\* The list of banks has its comments at the top and nothing below the items.
IsJep106 == \A i \in DOMAIN file :
                /\ Comment(i) => \A j \in 1..i : Comment(j)
                /\ file[i].depth # 2

\* In a file whose tabs draw a tree, with comments anywhere, an identifier is found under
\* its own parents or not at all, and every parent found is reported though the last was
\* not (ids.c:83, ids.c:242, ids.c:361): no device of the next vendor, no interface of
\* another class, no item of another bank.
FindsTheEntry ==
    Ended /\ WellFormed =>
        /\ query.kind = "device" => Looked = Path("vendor", "Vendor", "Device", "Subsys")
        /\ query.kind = "class" => Looked = Path("class", "Class", "Subclass", "Prog IF")
        /\ query.kind = "spd" /\ IsJep106 =>
              LET bank == First({ i \in DOMAIN file : file[i].depth = 0 /\ file[i].code = query.codes[1] })
                  item == Under(bank, 1, query.codes[2])
              IN Looked.Manufacturer = IF item = Missing THEN Fallback ELSE item
================================================================================
