----------------------------- MODULE MCNwinfoParts -----------------------------
(****************************************************************************)
(* Two parts of MCNwinfo under names of their own, for it to check next to  *)
(* the others and for NwinfoProofs: the list of graphics adapters and the   *)
(* program around the collectors.                                           *)
(****************************************************************************)
EXTENDS Integers, Sequences, FiniteSets

CONSTANTS Cards, Maker, Ids, MaxCount, MaxPlugs,    \* see GpuDrivers
          Arguments, MaxArguments,                  \* see CommandLine
          None

Lists == [count : 0..MaxCount,
          device : [1..MaxCount -> [card : Cards \cup {None}, reading : Cards \cup {None}]]]
Contexts == [cards : Seq(Cards), alive : BOOLEAN]

\* A machine has finitely many adapters; a null pointer points at none of the rest.
ASSUME CardsAssumption == IsFiniteSet(Cards)
ASSUME CountAssumption == MaxCount \in Nat
ASSUME NoneAssumption == None \notin Cards /\ None \notin Lists /\ None \notin Contexts

VARIABLES
    present, plugs, data, info, gpuPc, turn, cut,
    clPc, argv, sections, switches, flags, path, lists, value, cdi, next, report, held

G == INSTANCE GpuDrivers WITH pc <- gpuPc
C == INSTANCE CommandLine WITH NULL <- None, pc <- clPc

gpuVars == <<present, plugs, data, info, gpuPc, turn, cut>>
clVars == <<clPc, argv, sections, switches, flags, path, lists, value, cdi, next, report, held>>

\* See GpuDrivers.ContextsFollowList.
ContextsFollowList == G!ContextsFollowList
\* See GpuDrivers.EntriesStay.
EntriesStay == G!EntriesStay
\* See GpuDrivers.OneEntryEach.
OneEntryEach == G!OneEntryEach
\* See CommandLine.DoneAsAsked.
DoneAsAsked == C!DoneAsAsked
================================================================================
