------------------------------- MODULE MCSuperIo -------------------------------
(* Instances of SuperIo for TLC.                                              *)
EXTENDS SuperIo, TLC

Chip(maker, known, base, steady, locked) ==
    [maker |-> maker, known |-> known, base |-> base, steady |-> steady,
     gpio |-> IF maker = "ite" THEN 2560 ELSE 0, gpioSteady |-> TRUE, locked |-> locked]

\* 0x290 is an address, 0x295 one only for Fintek, 0x60 and 0x8290 none.
MCChips ==
    {Chip("none", FALSE, 0, TRUE, FALSE)}
    \cup {Chip(m, TRUE, b, TRUE, FALSE) : m \in {"fintek", "nuvoton", "ite"}, b \in {656, 661}}
    \cup {Chip("winbond", TRUE, b, TRUE, FALSE) : b \in {96, 33424}}
    \cup {Chip(m, FALSE, 656, TRUE, FALSE) : m \in {"fintek", "ite"}}
    \cup {Chip("winbond", TRUE, 656, FALSE, FALSE), Chip("nuvoton", TRUE, 656, TRUE, TRUE)}
    \cup {[Chip("ite", TRUE, 656, TRUE, FALSE) EXCEPT !.gpio = 96],
          [Chip("ite", TRUE, 656, TRUE, FALSE) EXCEPT !.gpioSteady = FALSE]}
MCSymmetry == Permutations(Procs)
================================================================================
