-------------------------- MODULE MCHourlyDecision --------------------------
(***************************************************************************)
(* Instances of HourlyDecision for TLC.  A shelf at 10..14 with the next   *)
(* lower zone at 0..4 and the next higher at 22..26 or 30..34, so that the *)
(* midpoint of the range above it is 18 or 22.                             *)
(***************************************************************************)
EXTENDS HourlyDecision

Zone(shelf, low, source) == [shelf |-> shelf, low |-> low, high |-> low + 4, source |-> source]

Near  == {Zone("lower", 0, 0), Zone("shelf", 10, 0), Zone("near", 22, 0)}
Far   == {Zone("lower", 0, 0), Zone("shelf", 10, 0), Zone("far", 30, 0)}
Bare  == {Zone("lower", 0, 0), Zone("near", 22, 0)}

NearAndFar  == {Near, Far}
NearAndBare == {Near, Bare}

Moves == {[open |-> 20, close |-> 24], [open |-> 24, close |-> 20], [open |-> 12, close |-> 16],
          [open |-> 16, close |-> 12], [open |-> 12, close |-> 8]}
Steps == {[open |-> 20, close |-> 24], [open |-> 16, close |-> 12], [open |-> 12, close |-> 16]}
Falls == {[open |-> 20, close |-> 24], [open |-> 24, close |-> 20], [open |-> 16, close |-> 12],
          [open |-> 12, close |-> 8]}
=============================================================================
