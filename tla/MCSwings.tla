------------------------------ MODULE MCSwings ------------------------------
(***************************************************************************)
(* Three candle shapes around a price of 11, a calm one, a rise and a      *)
(* fall, over five UTC days of two 4h bars, the first of them perhaps cut. *)
(***************************************************************************)
EXTENDS Swings

Bar(high, low, close) == [high |-> high, low |-> low, close |-> close]

ThreeShapes == {Bar(12, 10, 11), Bar(17, 12, 16), Bar(9, 6, 7)}
=============================================================================
