---------------------------- MODULE SupportLadder ----------------------------
(***************************************************************************)
(* The support ladder: how the detector makes it of its evidence           *)
(* (detector.py, postprocess.py) out of structural and local zones,        *)
(* overlays and gap fills, while bars print pivots, reclaim highs and move *)
(* the price.                                                              *)
(*                                                                         *)
(* A bar may confirm one pivot, taken from a menu of shapes; a high is     *)
(* reclaimed by the first later close above its wick and margin.  An       *)
(* external pivot is an internal one too.  The prominent ones are kept as  *)
(* Swings has it: a new one may take the place of the last of its kind.    *)
(***************************************************************************)
EXTENDS StructureZones, LocalReactions, ZoneOverlays

CONSTANTS
  Shapes,           \* pivots a bar may confirm: [term, kind, wick, body, top]
  Histories,        \* sequences of shapes printed before the first ladder
  Prices,           \* closes of later bars
  FirstPrice,       \* close of every earlier bar
  MinTouches,       \* zones.min_touches
  FillClearance,    \* near_price_gap_fill_edge_clearance
  FillSpacing,      \* near_price_gap_fill_midpoint_spacing
  FillMinTouches,   \* near_price_gap_fill_min_touches
  ReclaimMargin,    \* break_atr_mult times the ATR of the pivot
  Lookback,         \* STRUCTURE_LOCAL_REACTION_LOOKBACK_BARS
  MaxBars           \* bound: bars in all

Terms == {"external", "prominent", "internal", "daily"}

PivotShape ==
  {s \in [term : Terms, kind : {"low", "high"}, wick : Nat, body : Nat, top : Nat] :
     /\ s.kind = "low" => s.wick <= s.body /\ s.body <= s.top
     /\ s.kind = "high" => s.wick >= s.body}

ASSUME ShapeAssumption == Shapes \subseteq PivotShape /\ Histories \subseteq Seq(PivotShape)
ASSUME PriceAssumption == FirstPrice \in Nat /\ Prices \subseteq Nat
ASSUME KnobAssumption ==
  {MinTouches, FillClearance, FillSpacing, FillMinTouches, ReclaimMargin, Lookback, MaxBars}
    \subseteq Nat

VARIABLES
  bars,        \* 4h bars closed
  evidence,    \* pivots by list, each with the bar that reclaimed it or 0
  price,       \* the last close
  spaced,      \* the ladder before its gaps are filled
  ladder       \* the ladder

ladderVars == <<bars, evidence, price, spaced, ladder>>

(***************************************************************************)
(* Distinct zones and their spacing.                                       *)
(***************************************************************************)
\* A persistent floor before any other zone, the older of two.
Prefers(a, b) ==
  IF IsPersistent(a) /\ IsPersistent(b) THEN Age(a) <= Age(b)
  ELSE IF IsPersistent(a) # IsPersistent(b) THEN IsPersistent(a)
  ELSE ~Outranks(b, a)

\* From low to high, one of each overlapping pair.
Distinct(zones) ==
  LET step(kept, z) ==
        IF kept = <<>> \/ ~Overlap(Last(kept), z) THEN Append(kept, z)
        ELSE IF Prefers(Last(kept), z) THEN kept
        ELSE Append(Front(kept), z)
  IN FoldLeft(step, <<>>, ByLow(zones))

\* Seeded fault: floors compete by score like the others.
ByStrengthOnly(zones) == SortBy(zones, Outranks)

ByPriority(zones) ==
  SortBy(zones, LAMBDA a, b :
    IF IsPersistent(a) /\ IsPersistent(b) THEN Age(a) < Age(b)
    ELSE IF IsPersistent(a) # IsPersistent(b) THEN IsPersistent(a)
    ELSE Outranks(a, b))

\* A zone that filled a gap near the price only keeps the configured distance.
Crowds(a, b) ==
  IF a.near \/ b.near THEN ShareSlotWithin(a, b, FillClearance, FillSpacing) ELSE ShareLadderSlot(a, b)

\* Seeded fault: a zone need only clear the last one kept.
ClearOfLast(zones) ==
  LET step(kept, z) == IF kept # <<>> /\ Crowds(z, Last(kept)) THEN kept ELSE Append(kept, z)
  IN ByLow(FoldLeft(step, <<>>, ByPriority(zones)))

EnforceSpacing(zones) == ByLow(KeepClear(ByPriority(zones), Crowds))

(***************************************************************************)
(* Reclaimed highs as stairs in a gap between two zones.                   *)
(***************************************************************************)
ReclaimedHighs(pivots) ==
  LET highs == Selection(pivots, LAMBDA p : p.kind = "high" /\ p.reclaim # 0)
  IN [k \in DOMAIN highs |->
        Candidate(highs[k], highs[k].body, "stair_step_flipped_resistance", "body")]

\* Candidates whose band would hang inside the gap; `below` keeps them under the price.
InGap(highs, lower, upper, below, p) ==
  Selection(highs, LAMBDA c : /\ c.price > lower.high + ZoneWidth
                              /\ c.price < upper.low
                              /\ below => 10000 * c.price < 9985 * p)

Inside(zones, lower, upper) ==
  Selection(zones, LAMBDA z : z.low > lower.high /\ z.high < upper.low)

\* The most central first, then the highest score, then the most touches, then by midpoint.
GapRank(z, lower, upper) ==
  LET offset == (z.low - lower.high) - (upper.low - z.high)
      centre == Mid2(z) - (lower.high + upper.low)
      Size(n) == IF n < 0 THEN -n ELSE n
  IN <<Size(offset), -z.score, -z.touches, Size(centre)>>

Precedes(r, s) ==
  \E k \in DOMAIN r : r[k] < s[k] /\ \A j \in 1..k - 1 : r[j] = s[j]

BestIn(zones, lower, upper) ==
  Head(SortBy(zones, LAMBDA a, b : Precedes(GapRank(a, lower, upper), GapRank(b, lower, upper))))

(***************************************************************************)
(* The early staircase: gaps over $4000 above a zone under the price.      *)
(***************************************************************************)
StairIn(zones, k, highs, p) ==
  Inside(BuildSupportZones(InGap(highs, zones[k], zones[k + 1], TRUE, p), MinTouches),
         zones[k], zones[k + 1])

\* The best stair of each wide gap that has one.
StairOffers(zones, highs, p) ==
  LET wide  == {k \in 1..Len(zones) - 1 : /\ PriceState(zones[k], p) = "support"
                                          /\ zones[k + 1].low - zones[k].high > StairGap}
      found == [k \in wide |-> StairIn(zones, k, highs, p)]
  IN {[gap |-> k, lower |-> zones[k], upper |-> zones[k + 1],
       stair |-> BestIn(found[k], zones[k], zones[k + 1])] : k \in {j \in wide : found[j] # <<>>}}

\* Of equals the one in the lowest gap.
BestOffer(offers) ==
  LET Rank(o) == Append(GapRank(o.stair, o.lower, o.upper), o.gap)
  IN (CHOOSE o \in offers : \A other \in offers : ~Precedes(Rank(other), Rank(o))).stair

\* A turn inserts one stair, or goes on from external to internal highs.
StairTurn(fill, offers) ==
  IF fill.inserted = MaxInsertions THEN fill
  ELSE IF offers = {} THEN [fill EXCEPT !.internal = TRUE]
  ELSE [fill EXCEPT !.zones = Distinct(Append(@, BestOffer(offers))), !.inserted = @ + 1]

\* Six stairs in all.
FillStaircase(zones, externals, internals, p) ==
  FoldLeft(LAMBDA fill, turn :
             StairTurn(fill, StairOffers(fill.zones,
                                         IF fill.internal THEN internals ELSE externals, p)),
           [zones |-> ByLow(zones), internal |-> FALSE, inserted |-> 0],
           [turn \in 1..MaxInsertions + 1 |-> turn]).zones

(***************************************************************************)
(* The last fill: one stair in each gap of the spaced ladder.              *)
(***************************************************************************)
\* Seeded fault: the upper boundary is not asked.
ClearsLower(z, lower, upper, clearance, spacing) == ~ShareSlotWithin(z, lower, clearance, spacing)

ClearsBoth(z, lower, upper, clearance, spacing) ==
  /\ ~ShareSlotWithin(z, lower, clearance, spacing)
  /\ ~ShareSlotWithin(z, upper, clearance, spacing)

\* No macro groups here: they could swallow the stair.
GapFills(lower, upper, pivotSets, minTouches, clearance, spacing) ==
  LET found == FoldLeft(LAMBDA all, highs :
                          all \o Inside(ZonesOfClusters(InGap(highs, lower, upper, FALSE, 0),
                                                        minTouches), lower, upper),
                        <<>>, pivotSets)
  IN IF upper.low - lower.high < ZoneWidth + 2 * clearance THEN <<>>
     ELSE Selection(found, LAMBDA z : ClearsBoth(z, lower, upper, clearance, spacing))

\* Only where that finds nothing, and not above the price, the configured distances do.
GapFill(lower, upper, pivotSets, p) ==
  LET regular == GapFills(lower, upper, pivotSets, MinTouches, MinGap, Spacing)
      near    == IF PriceState(lower, p) = "resistance" THEN <<>>
                 ELSE GapFills(lower, upper, pivotSets, Max({MinTouches, FillMinTouches}),
                               FillClearance, FillSpacing)
  IN IF regular # <<>> THEN <<BestIn(regular, lower, upper)>>
     ELSE IF near # <<>> THEN <<[BestIn(near, lower, upper) EXCEPT !.near = TRUE]>>
     ELSE <<>>

FillGaps(zones, pivotSets, p) ==
  LET fill(all, k) == all \o GapFill(zones[k], zones[k + 1], pivotSets, p)
  IN Distinct(zones \o FoldLeft(fill, <<>>, [k \in 1..Max({0, Len(zones) - 1}) |-> k]))

(***************************************************************************)
(* The ladder of the evidence.                                             *)
(***************************************************************************)
PivotSets(ev) == <<ReclaimedHighs(ev.raw), ReclaimedHighs(ev.internal)>>

Staircase(ev, n, p) ==
  FillStaircase(Distinct(BuildSupportZones(SupportCandidates(ev.raw, ev.prominent), MinTouches)
                           \o BuildLocalReactions(ev.internal, n - Lookback + 1, MinTouches)),
                PivotSets(ev)[1], PivotSets(ev)[2], p)

WithRejections(zones, ev) ==
  Distinct(OverlayRejections(zones, RejectionPairs(ev.prominent, ev.internal)))

WithDaily(zones, ev) == Distinct(OverlayDaily(zones, DailyZones(ev.daily)))

WithFloors(zones, ev) == Distinct(OverlayPersistent(zones, PersistentFloors(ev.raw)))

\* Without a prominent pivot there is no evidence, and no ladder.
SpacedLadder(ev, n, p) ==
  IF ev.prominent = <<>> THEN <<>>
  ELSE EnforceSpacing(WithFloors(WithDaily(WithRejections(Staircase(ev, n, p), ev), ev), ev))

FilledLadder(zones, ev, p) ==
  LET filled == EnforceSpacing(FillGaps(zones, PivotSets(ev), p))
  IN [k \in DOMAIN filled |-> [filled[k] EXCEPT !.near = FALSE]]

(***************************************************************************)
(* Bars.                                                                   *)
(***************************************************************************)
\* A reclaimed high keeps the bar that cleared it.
ReclaimIn(pivots, n, close) ==
  [k \in DOMAIN pivots |->
     IF /\ pivots[k].kind = "high" /\ pivots[k].reclaim = 0
        /\ close > pivots[k].wick + ReclaimMargin
     THEN [pivots[k] EXCEPT !.reclaim = n] ELSE pivots[k]]

\* A prominent pivot may push out the last one of its kind.
AddProminent(prominent, p, replaces) ==
  IF replaces THEN Append(Front(prominent), p) ELSE Append(prominent, p)

MayReplace(prominent, p) == prominent # <<>> /\ Last(prominent).kind = p.kind

AddPivot(ev, shape, n, replaces) ==
  LET p == [index |-> n, kind |-> shape.kind, wick |-> shape.wick, body |-> shape.body,
            top |-> shape.top, reclaim |-> 0]
  IN CASE shape.term = "daily"     -> [ev EXCEPT !.daily = Append(@, p)]
       [] shape.term = "internal"  -> [ev EXCEPT !.internal = Append(@, p)]
       [] shape.term = "external"  -> [ev EXCEPT !.internal = Append(@, p), !.raw = Append(@, p)]
       [] shape.term = "prominent" -> [ev EXCEPT !.internal = Append(@, p), !.raw = Append(@, p),
                                                 !.prominent = AddProminent(@, p, replaces)]

NoEvidence == [raw |-> <<>>, prominent |-> <<>>, internal |-> <<>>, daily |-> <<>>]

Materialize ==
  /\ spaced' = SpacedLadder(evidence', bars', price')
  /\ ladder' = FilledLadder(spaced', evidence', price')

\* A bar closes: it reclaims highs before it, and may confirm one pivot.
Closed(ev, n, close) ==
  [ev EXCEPT !.raw = ReclaimIn(@, n, close), !.prominent = ReclaimIn(@, n, close),
             !.internal = ReclaimIn(@, n, close)]

LadderInit ==
  \E h \in Histories :
    LET bar(acc, s) == [n  |-> acc.n + 1,
                        ev |-> AddPivot(Closed(acc.ev, acc.n + 1, FirstPrice), s, acc.n + 1, FALSE)]
        printed == FoldLeft(bar, [n |-> 0, ev |-> NoEvidence], h)
    IN /\ bars = printed.n
       /\ evidence = printed.ev
       /\ price = FirstPrice
       /\ spaced = SpacedLadder(evidence, bars, price)
       /\ ladder = FilledLadder(spaced, evidence, price)

Bar(close) ==
  /\ bars < MaxBars
  /\ bars' = bars + 1
  /\ price' = close
  /\ evidence' = Closed(evidence, bars', close)
  /\ Materialize

Confirm(close, shape, replaces) ==
  /\ bars < MaxBars
  /\ replaces => shape.term = "prominent" /\ MayReplace(evidence.prominent, shape)
  /\ bars' = bars + 1
  /\ price' = close
  /\ evidence' = AddPivot(Closed(evidence, bars', close), shape, bars', replaces)
  /\ Materialize

LadderNext ==
  \E close \in Prices :
    \/ Bar(close)
    \/ \E shape \in Shapes, replaces \in BOOLEAN : Confirm(close, shape, replaces)

LadderSpec == LadderInit /\ [][LadderNext]_ladderVars

(***************************************************************************)
(* Properties.                                                             *)
(***************************************************************************)
\* "A later deeper low must not erase an earlier shelf": once a persistent floor is
\* on the ladder no pivot, price, overlay, overlap, spacing or fill moves it or takes
\* it off.
PersistentFloorsStay ==
  [][\A z \in ToSet(ladder) : IsPersistent(z) => z \in ToSet(ladder')]_ladderVars

\* The last fill only adds: "inserted stairs cannot sit on top of a neighbor", nor can
\* the second spacing, which ranks all zones anew, take away one the first had kept.
FillsDisplaceNothing == ToSet(spaced) \subseteq ToSet(ladder)

\* Each zone above the one before it, at both edges.
Climbs(zones) ==
  \A j, k \in DOMAIN zones :
    j < k => zones[j].low < zones[k].low /\ zones[j].high <= zones[k].high

\* "A middle flip must not collapse two independently valid support steps into one":
\* of zones that climb there are no fewer local steps with the flips than without.
StepsSurvive ==
  LET eligible == Eligible(LocalZones(evidence.internal, bars - Lookback + 1, MinTouches))
  IN Climbs(eligible) => Len(SelectSteps(eligible)) >= Len(OrdinarySteps(eligible))
=============================================================================
