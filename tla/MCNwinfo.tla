-------------------------------- MODULE MCNwinfo --------------------------------
(****************************************************************************)
(* What nwinfo does around its collectors, for TLC: get a driver and give   *)
(* it up, list the graphics adapters, build and write the report, escape    *)
(* its texts, read its options, look up names.  They share no state, so a   *)
(* behaviour is one of one part.                                            *)
(****************************************************************************)
EXTENDS Integers, DriverLifecycle, MCNwinfoParts, MCReport, TLC

CONSTANTS cpuz162, nwhwio, intel, amd, nvidia, twin, npu

VARIABLES
    part    \* the part the behaviour is one of

MCDrvList == <<cpuz162, nwhwio, PawnIO>>
MCServices == {cpuz162, nwhwio}
MCSymmetry == Permutations(Procs)

MCMessages == {<<"a", "b">>, <<"c">>}
MCOptions == { [hide |-> TRUE, human |-> TRUE, binary |-> "base64"],
               [hide |-> TRUE, human |-> FALSE, binary |-> "none"],
               [hide |-> FALSE, human |-> FALSE, binary |-> "hex"] }
FewCalls == 3   \* bound: the calls of a report whose raw data is not one text

Chars == {"\"", "'", "\\", "&", "<", "nl", "ctl", "n"}
MCTexts == UNION { [1..length -> Chars] : length \in 0..3 }

MCCards == {intel, amd, nvidia, twin, npu}
MCMaker == (intel :> "intel") @@ (amd :> "amd") @@ (nvidia :> "nvidia") @@ (twin :> "nvidia") @@ (npu :> "dxcore")
MCIds == [c \in MCCards |-> IF c = twin THEN nvidia ELSE c]

Option(name, items) == [name |-> name, items |-> items]
MCArguments ==
    { Option(name, <<>>) : name \in {"net", "disk", "gpu", "sensors", "help"} }
    \cup { Option("net", <<"{1}", "active", "{2}">>), Option("net", <<"bogus", "ipv4">>),
           Option("disk", <<"no-smart", "\\\\.\\CdRom0">>), Option("disk", <<"hd", "", "nvme">>),
           Option("smart", <<"ATA", "WMI">>), Option("sensors", <<"CPU">>),
           Option("smbios", <<"0x11", "two">>), Option("smbios", <<"2">>),
           Option("acpi", <<"FACP">>), Option("acpi", <<"DMAR2">>), Option("format", <<"JSON">>),
           Option("cp", <<"UTF8">>), Option("output", <<"report.txt">>), Option("output", <<"">>),
           Option("driver", <<"">>), Option("spd", <<"">>) }

Line(depth, list, code, named) == [depth |-> depth, list |-> list, code |-> code, named |-> named]
Outer == { Line(0, "vendor", "a", TRUE), Line(0, "vendor", "b", TRUE), Line(0, "class", "a", TRUE) }
Inner == { Line(d, "", c, TRUE) : d \in 1..2, c \in {"a", "b"} }
Odd == { Line(-1, "", "", TRUE), Line(-1, "", "", FALSE), Line(1, "", "a", FALSE) }
MCFiles ==
    { <<first>> \o rest : first \in Outer \cup Odd, rest \in [1..3 -> Outer \cup Inner \cup Odd] }
    \cup { <<first>> \o rest : first \in Outer \ {Line(0, "vendor", "b", TRUE)},
                              rest \in [1..4 -> Outer \cup Inner] }
MCQueries ==
    { [kind |-> kind, codes |-> [i \in 1..length |-> "a"]] :
          kind \in {"device", "class"}, length \in 1..3 }
    \cup { [kind |-> "spd", codes |-> <<"a", "a">>], [kind |-> "pnp", codes |-> <<"a">>],
           [kind |-> "date", codes |-> <<>>] }

R == INSTANCE ReportPrint

\* The parts a behaviour is not one of have one initial state; a library of PawnIO by itself
\* is tried with services that Windows accepts.
MCInit ==
    /\ part \in {"driver", "report", "escape", "gpu", "options", "names"}
    /\ part = "driver" \/ (part # "driver" /\ pawnio = TRUE /\ beside = {} /\ blocked = {})
    /\ part = "escape" \/ (part # "escape" /\ format = "JSON" /\ size = 1 /\ text = <<>>)
    /\ part = "report" \/ (part # "report" /\ options = [hide |-> TRUE, human |-> TRUE, binary |-> "base64"])
    /\ part = "gpu" \/ (part # "gpu" /\ present = {})
    /\ Init /\ T!Init /\ E!Init /\ G!Init /\ C!Init
    /\ library => blocked = {}
    /\ present \in {{}} \cup { {a, b} : a, b \in Cards }
    /\ IF part = "names" THEN I!Init
       ELSE file = <<>> /\ query = [kind |-> "date", codes |-> <<>>] /\ line = 0 /\ scan = I!Start

MCNext ==
    \/ part = "driver" /\ Next /\ UNCHANGED <<part, reportVars, escapeVars, gpuVars, clVars, idsVars>>
    \/ part = "report" /\ T!Next /\ (options.binary = "base64" \/ calls' <= FewCalls)
       /\ UNCHANGED <<part, vars, escapeVars, gpuVars, clVars, idsVars>>
    \/ part = "escape" /\ E!Next /\ UNCHANGED <<part, vars, reportVars, gpuVars, clVars, idsVars>>
    \/ part = "gpu" /\ G!Next /\ UNCHANGED <<part, vars, reportVars, escapeVars, clVars, idsVars>>
    \/ part = "options" /\ C!Next /\ UNCHANGED <<part, vars, reportVars, escapeVars, gpuVars, idsVars>>
    \/ part = "names" /\ I!Next /\ UNCHANGED <<part, vars, reportVars, escapeVars, gpuVars, clVars>>

MCSpec == MCInit /\ [][MCNext]_<<part, vars, reportVars, escapeVars, gpuVars, clVars, idsVars>>

\* See ReportPrint.ReadsBack.
ReadsBack == R!ReadsBack
\* See CommandLine.OptionsReachCollectors.
OptionsReachCollectors == C!OptionsReachCollectors
================================================================================
