------------------------------ MODULE MCRegisters ------------------------------
(****************************************************************************)
(* The two places where libnw reaches a device through an index and a data  *)
(* register under a named mutex: the SMN with the SMU mailbox behind it,    *)
(* and the Super-I/O chips.  They share neither registers nor mutex and no  *)
(* process holds both, so a behaviour is one of either part.                *)
(****************************************************************************)
EXTENDS SmuMailbox, TLC

CONSTANTS Chips
VARIABLES
    part, ioPc, slot, driver, address, verify, gpioAddress, gpioVerify, found, holder, chip, open, ldn, ioCrashes

lpcVars ==
    <<ioPc, slot, driver, address, verify, gpioAddress, gpioVerify, found, holder, chip, open, ldn, ioCrashes>>
S == INSTANCE SuperIo WITH pc <- ioPc, crashes <- ioCrashes

ASSUME ChipsAssumption == Chips \subseteq S!ChipKind

Chip(maker, known, base, steady, locked) ==
    [maker |-> maker, known |-> known, base |-> base, steady |-> steady,
     gpio |-> IF maker = "ite" THEN 2560 ELSE 0, gpioSteady |-> TRUE, locked |-> locked]
MCInit ==
    /\ part \in {"smn", "lpc"}
    /\ Init
    /\ S!Init
    /\ part = "smn" => \A s \in S!Slots : chip[s] = Chip("none", FALSE, 0, TRUE, FALSE)
    /\ part = "lpc" => smuIndex = "rsp" /\ thmIndex = CHOOSE r \in Registers : TRUE

MCNext ==
    \/ part = "smn" /\ Next /\ UNCHANGED <<part, lpcVars>>
    \/ part = "lpc" /\ S!Next /\ UNCHANGED <<part, vars>>

MCSpec == MCInit /\ [][MCNext]_<<part, vars, lpcVars>>

\* See SuperIo.FoundWhatIsThere.
FoundWhatIsThere == S!FoundWhatIsThere
\* See SuperIo.ConfigurationClosed.
ConfigurationClosed == S!ConfigurationClosed

MCCommands == <<"version", "transfer">>

MCChips ==
    {Chip("none", FALSE, 0, TRUE, FALSE)}
    \cup {Chip(m, TRUE, b, TRUE, FALSE) : m \in {"fintek", "nuvoton", "ite"}, b \in {656, 661}}
    \cup {Chip("winbond", TRUE, b, TRUE, FALSE) : b \in {96, 33424}}
    \cup {Chip(m, FALSE, 656, TRUE, FALSE) : m \in {"fintek", "ite"}}
    \cup {Chip("winbond", TRUE, 656, FALSE, FALSE), Chip("nuvoton", TRUE, 656, TRUE, TRUE)}
    \cup {[Chip("ite", TRUE, 656, TRUE, FALSE) EXCEPT !.gpio = 96],
          [Chip("ite", TRUE, 656, TRUE, FALSE) EXCEPT !.gpioSteady = FALSE]}
MCSymmetry == Permutations(Procs)
================================================================================
