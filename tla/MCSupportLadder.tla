--------------------------- MODULE MCSupportLadder ---------------------------
(***************************************************************************)
(* Ladders that grow out of six histories of nine or ten bars, one for     *)
(* each way a step can come about: a wide gap filled by reclaimed highs, a *)
(* narrow one, the early staircase, two local shelves with a flip between  *)
(* them, a bridge under the shelves of a deep rejection, and highs too     *)
(* close under a shelf.                                                    *)
(***************************************************************************)
EXTENDS PublishedLadder

Low(term, wick, body, top) ==
  [term |-> term, kind |-> "low", wick |-> wick, body |-> body, top |-> top]
High(term, wick, body) ==
  [term |-> term, kind |-> "high", wick |-> wick, body |-> body, top |-> body]

\* Floors of long wicks: apart, near, overlapping.
Deep     == Low("prominent", 1000, 1024, 1026)
Overlaid == Low("external", 1004, 1030, 1031)
Near     == Low("external", 1044, 1066, 1068)
Far      == Low("external", 1064, 1090, 1092)
\* A body that came back to the deep floor, and two bodies far above it.
Back     == Low("external", 994, 1001, 1006)
Shelf1   == Low("prominent", 1112, 1116, 1118)
Shelf2   == Low("prominent", 1114, 1118, 1120)
\* Highs between the floors, and one that is never reclaimed.
Wide1    == High("external", 1045, 1040)
Wide2    == High("prominent", 1049, 1042)
Narrow1  == High("external", 1036, 1032)
Narrow2  == High("internal", 1035, 1031)
Top1     == High("external", 1103, 1099)
Top2     == High("external", 1104, 1100)
Quiet    == High("internal", 1200, 1196)
\* The highs and lows of two local shelves and of the flip between them.
Brow1    == High("internal", 1004, 1000)
Brow2    == High("internal", 1012, 1009)
Brow3    == High("internal", 1026, 1023)
Rest1    == Low("internal", 998, 1002, 1004)
Rest2    == Low("internal", 999, 1003, 1004)
Retest1  == Low("internal", 1008, 1012, 1013)
Retest2  == Low("internal", 1009, 1011, 1013)
Upper1   == Low("internal", 1024, 1030, 1031)
Upper2   == Low("internal", 1025, 1032, 1033)
\* Bodies with a floor above them: a bridge between the shelves of Deep and Overlaid.
Body1    == Low("prominent", 1006, 1014, 1015)
Body2    == Low("prominent", 1007, 1013, 1015)
Hung     == Low("prominent", 1020, 1040, 1041)
HungBack == Low("external", 1014, 1021, 1022)
Dawn     == Low("daily", 1020, 1030, 1034)

LadderShapes ==
  {Deep, Overlaid, Wide1, Wide2, Narrow2, Upper2, Retest1, Back, Hung, Top2, Dawn}
LadderHistories ==
  { <<Quiet, Quiet, Quiet, Quiet, Deep, Far, Wide1, Wide2, Overlaid>>,
    <<Quiet, Quiet, Quiet, Deep, Near, Narrow1, Narrow2, Narrow1, Quiet>>,
    <<Quiet, Quiet, Quiet, Deep, Back, Shelf1, Shelf2, Wide1, Wide2>>,
    <<Quiet, Shelf1, Brow1, Brow2, Brow3, Rest1, Rest2, Retest1, Retest2, Upper1>>,
    <<Quiet, Quiet, Quiet, Body1, Body2, Hung, HungBack, Deep, Overlaid>>,
    <<Quiet, Quiet, Quiet, Near, Shelf1, Shelf2, Top1, Top2, Top2>> }
LadderPrices == {1030, 1130}

\* Bands the ladders may be of.
LadderBands ==
  {b \in [low : 980 .. 1130, high : 980 .. 1140,
          family : {"4h", "1d"} \X {"body", "support_floor", "local_reaction"}] :
     b.low <= b.high /\ b.high <= b.low + ZoneWidth}
\* The score of a snapshot is the ladder's own.
NoScores == {}
=============================================================================
