-------------------------- MODULE MCBacktestZones --------------------------
(***************************************************************************)
(* Instances of BacktestZones for TLC: two replays over three bars, with   *)
(* either nothing missing or a hole in the 4h table before the 1h window.  *)
(***************************************************************************)
EXTENDS BacktestZones, TLC

\* Windows that overlap, with the boundary of the 4h table at different bars.
Windows == {[first |-> 1, last |-> 2, covered |-> 1],
            [first |-> 2, last |-> 3, covered |-> 3]}

Holes == {{<<"4h", 2>>}}

\* Replays and configurations are interchangeable.
ReplaySymmetry == Permutations(Replay) \union Permutations(Config)
=============================================================================
