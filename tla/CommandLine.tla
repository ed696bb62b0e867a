------------------------------- MODULE CommandLine -------------------------------
(****************************************************************************)
(* nwinfo.c and the frame libnw.c puts around its collectors: the options   *)
(* are read one after the other into the context, NW_Init completes it,     *)
(* NW_Print calls the collectors in its own order and exports the report,   *)
(* and main and NW_Fini give everything back.                               *)
(*                                                                          *)
(* An option is its name and the items of its argument, split at the        *)
(* commas.  What a collector reports is abstracted to the settings it read. *)
(****************************************************************************)
EXTENDS Integers, SequencesExt, TLC

CONSTANTS
    Arguments,      \* the options a command line is made of: [name, items]
    MaxArguments,   \* bound: the options on one command line
    NULL

\* The sections of a report, in the order of NW_Print.
Sections ==
    <<"acpi", "cpu", "disk", "display", "net", "board", "pci", "smbios", "sys", "usb",
      "spd", "battery", "uefi", "shares", "audio", "public-ip", "product-policy", "gpu",
      "font", "device", "drv-store", "hid", "sensors">>

Switches == {"human", "debug", "hide-sensitive"}
Filtered == {"net", "disk", "smart", "uefi", "sensors"}
Listed == {"smbios", "pci"}
Valued == {"format", "cp", "output", "temp-unit", "bin", "driver", "acpi", "cpu", "display",
           "spd", "product-policy", "device", "drv-store"}

\* The flags nwinfo_get_opts knows of each option, as far as collectors treat them apart.
Known == [net |-> {"active", "ipv4", "ipv6", "eth"}, disk |-> {"no-smart", "hd", "cd", "nvme"},
          smart |-> {"WMI", "ATA", "DEFAULT"}, uefi |-> {"vars", "menu"},
          sensors |-> {"CPU", "SMART"}]
Guids == {"{1}", "{2}"}
Devices == {"\\\\.\\PhysicalDrive0", "\\\\.\\CdRom0"}
Extra == [k \in Filtered |-> IF k = "net" THEN Guids ELSE IF k = "disk" THEN Devices ELSE {}]
Number == ("2" :> 2) @@ ("17" :> 17) @@ ("0x11" :> 17)     \* _strtoui64; others are none

VARIABLES
    pc,         \* "parse", "init", "open", "print", "export", "fini", "returned", "exited"
    argv,       \* the options read so far
    sections,   \* the ...Info members that are TRUE
    switches, flags, path, lists, value,    \* the other members options set
    cdi,        \* the flags libcdi's table was filled with, NULL before
    next,       \* the place in NW_Print
    report,     \* a record for each collector called
    held        \* what is to be given back: the driver, the output file, and the strings with the
                \* place of their option

vars == <<pc, argv, sections, switches, flags, path, lists, value, cdi, next, report, held>>

Init ==
    /\ pc = "parse" /\ argv = <<>>
    /\ sections = {} /\ switches = {}
    /\ flags = [k \in Filtered |-> {}] /\ path = [k \in {"net", "disk"} |-> NULL]
    /\ lists = [k \in Listed |-> {}]
    /\ value = [k \in Valued |-> IF k = "format" THEN "YAML" ELSE NULL]
    /\ cdi = NULL /\ next = 0 /\ report = <<>> /\ held = {}

----------------------------------------------------------------------------
(* Reading the options. *)

\* Both loops over the items stop at an empty one.
Taken(items) ==
    LET empty == SelectInSeq(items, LAMBDA i : i = "")
    IN IF empty = 0 THEN items ELSE SubSeq(items, 1, empty - 1)

\* nwinfo_get_opts: the known flags are added, the last string of the extra kind is returned.
nwinfo_get_opts(k, old, items) == old \cup (Known[k] \cap Range(Taken(items)))
Returned(k, items) ==
    LET strings == SelectSeq(Taken(items), LAMBDA i : i \in Extra[k])
    IN IF strings = <<>> THEN NULL ELSE Last(strings)

\* nwinfo_parse_arg_set: --smbios takes the items that are numbers, --pci all of them.
nwinfo_parse_arg_set(k, items) ==
    IF k = "pci" THEN Range(Taken(items))
    ELSE { Number[i] : i \in DOMAIN Number \cap Range(Taken(items)) }

\* Whether a value is stored; anything else leaves the earlier one.  --output and --driver
\* store an empty argument too.
Accepted(name, v) ==
    CASE name = "format" -> v \in {"YAML", "JSON", "LUA", "TREE", "HTML"}
      [] name = "cp"     -> v \in {"ANSI", "UTF8"}
      [] name = "bin"    -> v \in {"BASE64", "HEX"}
      [] name = "acpi"   -> v \in {"FACP", "SSDT"}      \* four letters
      [] OTHER           -> v # "" \/ name \in {"output", "driver"}

\* A value that is refused by --cp is none (0, which is CP_ACP), and not the default.
StoreValue(o) ==
    value' = IF o.name \notin Valued \/ o.items = <<>> THEN value
             ELSE IF Accepted(o.name, o.items[1]) THEN [value EXCEPT ![o.name] = o.items[1]]
             ELSE IF o.name = "cp" /\ value.cp = NULL THEN [value EXCEPT !.cp = "ANSI"]
             ELSE value

\* The flags of the last option replace those before.
StoreFlags_Replaced(o) ==
    flags' = IF o.name \notin Filtered THEN flags
             ELSE [flags EXCEPT ![o.name] = nwinfo_get_opts(o.name, {}, o.items)]

\* NwSmartFlags is reset by each --smart, the other flags accumulate.
StoreFlags(o) ==
    flags' = IF o.name \notin Filtered THEN flags
             ELSE [flags EXCEPT ![o.name] =
                       nwinfo_get_opts(o.name, IF o.name = "smart" THEN {} ELSE @, o.items)]

\* The string of an option is kept when a later one has none.
StorePath_Kept(o) ==
    IF o.name \in {"net", "disk"} /\ Returned(o.name, o.items) # NULL
    THEN /\ path' = [path EXCEPT ![o.name] = Returned(o.name, o.items)]
         /\ held' = held \cup {<<o.name, Len(argv) + 1>>}
    ELSE UNCHANGED <<path, held>>

\* The string an option returns replaces the one before, which is not freed.
StorePath(o) ==
    IF o.name \in {"net", "disk"}
    THEN LET string == Returned(o.name, o.items) IN
         /\ path' = [path EXCEPT ![o.name] = string]
         /\ held' = IF string = NULL THEN held ELSE held \cup {<<o.name, Len(argv) + 1>>}
    ELSE UNCHANGED <<path, held>>

ParseOption(o) ==
    /\ pc = "parse" /\ Len(argv) < MaxArguments
    /\ o.name \notin {"help", "error"}
    /\ argv' = Append(argv, o)
    /\ sections' = sections \cup ({o.name} \cap Range(Sections))
    /\ switches' = switches \cup ({o.name} \cap Switches)
    /\ lists' = IF o.name \in Listed
                THEN [lists EXCEPT ![o.name] = @ \cup nwinfo_parse_arg_set(o.name, o.items)]
                ELSE lists
    /\ StoreValue(o) /\ StoreFlags(o) /\ StorePath(o)
    /\ UNCHANGED <<pc, cdi, next, report>>

\* --help and an option the parser refuses end the program before it holds anything but
\* strings.
ParseStop(o) ==
    /\ pc = "parse" /\ Len(argv) < MaxArguments
    /\ o.name \in {"help", "error"}
    /\ argv' = Append(argv, o)
    /\ pc' = "exited"
    /\ UNCHANGED <<sections, switches, flags, path, lists, value, cdi, next, report, held>>

\* Without --cp the code page goes by where the report is written to.
ParseDone ==
    /\ pc = "parse"
    /\ pc' = "init"
    /\ value' = IF value.cp # NULL THEN value
                ELSE [value EXCEPT !.cp = IF value.output # NULL THEN "UTF8" ELSE "ANSI"]
    /\ UNCHANGED <<argv, sections, switches, flags, path, lists, cdi, next, report, held>>

----------------------------------------------------------------------------
(* The report. *)

\* NW_Init, as far as it touches what options set.  No driver has an empty name; out of
\* memory it exits.
NW_Init ==
    /\ pc = "init"
    /\ \/ pc' = "open"
       \/ pc' = "exited"
    /\ \E driver \in IF value.driver = "" THEN {FALSE} ELSE BOOLEAN :
          held' = IF driver THEN held \cup {<<"driver", 0>>} ELSE held
    /\ flags' = [flags EXCEPT !.smart = {"DEFAULT"}]
    /\ UNCHANGED <<argv, sections, switches, path, lists, value, cdi, next, report>>

\* A file that cannot be opened (there is none of the empty name) ends the program at once:
\* the driver stays installed.
OpenOutput ==
    /\ pc = "open"
    /\ \/ /\ pc' = "print" /\ value.output # ""
          /\ held' = IF value.output = NULL THEN held ELSE held \cup {<<"file", 0>>}
       \/ value.output # NULL /\ pc' = "exited" /\ UNCHANGED held
    /\ UNCHANGED <<argv, sections, switches, flags, path, lists, value, cdi, next, report>>

\* NW_Network and NW_Disk take no choice of families or kinds for all of them.
Families(net) == IF net \cap {"ipv4", "ipv6"} = {} THEN net \cup {"ipv4", "ipv6"} ELSE net
Kinds(disk) == IF disk \cap {"hd", "cd"} = {} THEN disk \cup {"hd", "cd"} ELSE disk
Completed(s, given) ==
    IF s = "net" THEN Families(given) ELSE IF s = "disk" THEN Kinds(given) ELSE given

\* The settings the collector of a section reads; the flags are completed already.
Settings(s) ==
    [section |-> s,
     flags |-> IF s \in Filtered THEN Completed(s, flags[s]) ELSE {},
     only |-> IF s \in {"net", "disk"} THEN path[s] ELSE NULL,
     list |-> IF s \in Listed THEN lists[s] ELSE {},
     value |-> IF s \in Valued THEN value[s] ELSE NULL]

\* The SMART sensors are on when no provider is named.
UsesCdi(s) ==
    \/ s = "disk" /\ "no-smart" \notin flags.disk
    \/ s = "sensors" /\ (flags.sensors = {} \/ "SMART" \in flags.sensors)

Collect ==
    /\ pc = "print"
    /\ \E i \in next + 1 .. Len(Sections) :
          LET s == Sections[i] IN
          /\ s \in sections
          /\ \A j \in next + 1 .. i - 1 : Sections[j] \notin sections
          /\ next' = i
          /\ flags' = [k \in Filtered |-> IF k = s THEN Completed(s, flags[s]) ELSE flags[k]]
          /\ report' = Append(report, Settings(s))
          /\ cdi' = IF cdi = NULL /\ UsesCdi(s) THEN flags.smart ELSE cdi
    /\ UNCHANGED <<pc, argv, sections, switches, path, lists, value, held>>

\* NW_Libinfo and NW_Export.
NW_Export ==
    /\ pc = "print"
    /\ \A i \in next + 1 .. Len(Sections) : Sections[i] \notin sections
    /\ pc' = "fini"
    /\ UNCHANGED <<argv, sections, switches, flags, path, lists, value, cdi, next, report, held>>

\* The string NwNetGuid or NwDiskPath points at, if any.
Current(k) ==
    LET given == { i \in DOMAIN argv : argv[i].name = k }
    IN { <<k, i>> : i \in { j \in given : path[k] # NULL /\ \A l \in given : l <= j } }

NW_Fini ==
    /\ pc = "fini"
    /\ pc' = "returned"
    /\ held' = held \ ({<<"driver", 0>>, <<"file", 0>>} \cup Current("net") \cup Current("disk"))
    /\ path' = [k \in {"net", "disk"} |-> NULL] /\ cdi' = NULL
    /\ UNCHANGED <<argv, sections, switches, flags, lists, value, next, report>>

Ended == pc \in {"returned", "exited"} /\ UNCHANGED vars

Next ==
    \/ \E o \in Arguments : ParseOption(o) \/ ParseStop(o)
    \/ ParseDone \/ NW_Init \/ OpenOutput \/ Collect \/ NW_Export \/ NW_Fini
    \/ Ended

Spec == Init /\ [][Next]_vars

----------------------------------------------------------------------------
(* Properties.  What a command line asks for, from the options alone. *)

Given(name) == { i \in DOMAIN argv : argv[i].name = name }
GivenLast(name) == CHOOSE i \in Given(name) : \A j \in Given(name) : j <= i
GivenItems(i) == Range(Taken(argv[i].items))
AskedFlags(k) ==
    UNION { Known[k] \cap GivenItems(i) : i \in IF k = "smart" /\ Given(k) # {} THEN {GivenLast(k)}
                                               ELSE Given(k) }
AskedOnly(k) == IF Given(k) = {} THEN NULL ELSE Returned(k, argv[GivenLast(k)].items)
AskedList(k) == UNION { nwinfo_parse_arg_set(k, argv[i].items) : i \in Given(k) }
AskedValue(name) ==
    LET good == { i \in Given(name) : argv[i].items # <<>> /\ Accepted(name, argv[i].items[1]) }
    IN IF good = {} THEN NULL ELSE argv[CHOOSE i \in good : \A j \in good : j <= i].items[1]
Place(s) == CHOOSE i \in DOMAIN Sections : Sections[i] = s
\* The strings options returned, each by its option's name and place.
Strings == { h \in {"net", "disk"} \X DOMAIN argv :
                h[2] \in Given(h[1]) /\ Returned(h[1], argv[h[2]].items) # NULL }
Replaced == { h \in Strings : h[2] # GivenLast(h[1]) }

\* A program that returned has reported exactly the sections asked for, once each and in
\* the order of NW_Print (libnw.c:129) whatever the order of the options (nwinfo.c:340);
\* each collector saw the flags and list items of all options of its name together, the
\* string of the last one and the last accepted value, though collectors before it
\* complete flags in the shared context.  It gave back everything but the strings a later
\* option of the same name had replaced.
DoneAsAsked ==
    pc = "returned" =>
        /\ { report[i].section : i \in DOMAIN report } = { s \in Range(Sections) : Given(s) # {} }
        /\ \A i, j \in DOMAIN report : i < j => Place(report[i].section) < Place(report[j].section)
        /\ \A i \in DOMAIN report :
              LET s == report[i].section IN
              report[i] = [section |-> s,
                           flags |-> IF s \in Filtered THEN Completed(s, AskedFlags(s)) ELSE {},
                           only |-> IF s \in {"net", "disk"} THEN AskedOnly(s) ELSE NULL,
                           list |-> IF s \in Listed THEN AskedList(s) ELSE {},
                           value |-> IF s \in Valued THEN AskedValue(s) ELSE NULL]
        /\ held = Replaced

\* src/docs/README.md:163: "--smart=FLAG,... Specify S.M.A.R.T. features."  The features
\* libcdi's table was filled with are those of the last --smart.  NW_Init (libnw.c:93)
\* stores the defaults over what main parsed.
OptionsReachCollectors == cdi # NULL /\ Given("smart") # {} => cdi = AskedFlags("smart")
================================================================================
