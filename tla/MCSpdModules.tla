------------------------------ MODULE MCSpdModules ------------------------------
(****************************************************************************)
(* Instances of SpdPaging: which modules are fitted, what the processes do. *)
(****************************************************************************)
EXTENDS SpdPaging
LOCAL INSTANCE TLC

BothOps(p) == {"spd", "sensors"}
\* Processes that do the same are alike.
Alike == Permutations(Procs)

TwoDDR4(s) == IF s = 1 THEN "empty" ELSE "DDR4"
AllDDR5(s) == "DDR5"

\* DDR4: 1.2 V operable and endurant
Three(s) == 3
Zero(s) == 0
================================================================================
