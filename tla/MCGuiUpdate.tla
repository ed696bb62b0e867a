------------------------------ MODULE MCGuiUpdate ------------------------------
(* Instances of GuiUpdate small enough for TLC. *)
EXTENDS GuiUpdate

\* An allocator that hands out a freed address again as soon as it can.
LeastFree(S) == { t \in Trees \ S : \A u \in Trees \ S : t <= u }
================================================================================
