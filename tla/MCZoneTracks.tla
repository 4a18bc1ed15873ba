---------------------------- MODULE MCZoneTracks ----------------------------
(***************************************************************************)
(* Instances of ZoneTracks for TLC.  Prices are in units of $50 and        *)
(* bands are $500 wide, as the detector makes them; a step is a $650 edge  *)
(* gap or a $1000 midpoint.                                                *)
(***************************************************************************)
EXTENDS ZoneTracks

Body(low)  == [low |-> low, high |-> low + 10, family |-> "body"]
Local(low) == [low |-> low, high |-> low + 10, family |-> "local_reaction"]

\* Three steps of one family, each in the slot of its neighbour only: a shelf
\* can drift, and another appear where it began.
DriftBands  == {Body(0), Body(18), Body(36)}

\* A shelf and two bands as near to it, one on either side; and a rival of
\* another family that may be reported with the upper one, both in its step, as
\* where a gap was filled.
MixedBands  == {Body(0), Body(12), Body(24), Local(4)}

FlatScore   == [b \in Band |-> 0]
HigherFirst == [b \in Band |-> b.low]
OneScore    == {FlatScore}
TwoScores   == {FlatScore, HigherFirst}
=============================================================================
