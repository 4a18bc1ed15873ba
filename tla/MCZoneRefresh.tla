--------------------------- MODULE MCZoneRefresh ---------------------------
(***************************************************************************)
(* Instances of ZoneRefresh for TLC: bars of two hours, and a fetch window *)
(* of two bars, so that downtime can lose an hour.                         *)
(***************************************************************************)
EXTENDS ZoneRefresh, TLC

\* Cycles are interchangeable.
CycleSymmetry == Permutations(Cycle)
=============================================================================
