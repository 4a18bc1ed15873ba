--------------------------- MODULE PublishedLadder ---------------------------
(***************************************************************************)
(* The ladder of the detector (SupportLadder) and the tracks that publish  *)
(* it (ZoneTracks), joined by the refresh of a closed 4h bar               *)
(* (zone_refresh.py).  Bars close whether or not a cycle runs; a cycle     *)
(* rebuilds the ladder of the last bar once and hands it to the tracks,    *)
(* those of the last rebuild if that was of the bar before.                *)
(*                                                                         *)
(* ZoneTracks lets the detector report any bands that keep their distance. *)
(* Here it reports what it makes of its evidence, with its scores.         *)
(***************************************************************************)
EXTENDS SupportLadder, ZoneTracks

CONSTANT MinHistory   \* bars a rebuild needs: twice the external swing order and one

ASSUME HistoryAssumption == MinHistory \in Nat \ {0}

\* The tracks count the steps of the detector, whose fills may stand closer.
ASSUME StepAssumption ==
  /\ EdgeGap = MinGap /\ MidGap = Spacing
  /\ LadderEdge <= MinGap /\ (LadderEdge = 1 \/ LadderEdge <= FillClearance)
  /\ LadderMid <= Spacing /\ LadderMid <= FillSpacing

VARIABLE watermark    \* the bar of the last rebuild, 0 before the first

refreshVars == <<ladderVars, vars, watermark>>

(***************************************************************************)
(* What the tracks see of a zone: its bounds, its source timeframe and its *)
(* bounds style.                                                           *)
(***************************************************************************)
Family(z) == <<IF z.origin = "daily_body_support" THEN "1d" ELSE "4h", z.style>>

BandOf(z) == [low |-> z.low, high |-> z.high, family |-> Family(z)]

Reported(zones) == {BandOf(z) : z \in ToSet(zones)}

\* A band that is not reported has no score.
ScoreIn(zones) ==
  LET reported == Reported(zones)
  IN [b \in Band |-> IF b \in reported
                     THEN (CHOOSE z \in ToSet(zones) : BandOf(z) = b).score ELSE 0]

(***************************************************************************)
(* Bars and refreshes.                                                     *)
(***************************************************************************)
RefreshInit == LadderInit /\ Init /\ watermark = 0

\* Only the tracks of the bar before are restored: a gap bootstraps instead.
Restored == bootstrapped /\ watermark = bars - 1

Refresh ==
  /\ bars >= MinHistory /\ watermark < bars
  /\ \/ Restored /\ Advance(Reported(ladder), ScoreIn(ladder))
     \/ ~Restored /\ Bootstrap(Reported(ladder))
  /\ watermark' = bars
  /\ UNCHANGED ladderVars

Close == LadderNext /\ UNCHANGED <<vars, watermark>>

RefreshNext == Close \/ Refresh

RefreshSpec == RefreshInit /\ [][RefreshNext]_refreshVars

(***************************************************************************)
(* Properties.                                                             *)
(***************************************************************************)
\* Whatever the bars print, fills and floors and daily zones included, the detector
\* reports what the tracks take it to: bands with their edges in order, no two of
\* them closer than a step or the configured clearance of a fill.
ReportsSnapshots == Reported(ladder) \in Snapshot
=============================================================================
