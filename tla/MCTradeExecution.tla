-------------------------- MODULE MCTradeExecution --------------------------
(***************************************************************************)
(* Instances of TradeExecution for TLC: days of two hours, live decisions  *)
(* in consecutive hours on both sides of midnight, and one dry run.        *)
(***************************************************************************)
EXTENDS TradeExecution, TLC

CONSTANTS live1, live2, dry

AllDecisions  == {live1, live2, dry}
LiveDecisions == {live1, live2}
Slots == live1 :> 1 @@ live2 :> 2 @@ dry :> 2

\* The rerun run is smaller.  The live decision has the last hour of the
\* clock, so that its hour never passes.
DryThenLive  == {dry, live1}
OneLive      == {live1}
DryLiveSlots == dry :> 0 @@ live1 :> 1

\* Cycles are interchangeable.
CycleSymmetry == Permutations(Cycle)
=============================================================================
