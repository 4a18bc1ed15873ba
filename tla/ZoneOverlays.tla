---------------------------- MODULE ZoneOverlays ----------------------------
(***************************************************************************)
(* Zones laid over the structural ones: the two shelves of a deep          *)
(* rejection (rejections.py), daily lows (daily.py) and the floors of long *)
(* wicks that stay for good (persistent.py).                               *)
(***************************************************************************)
EXTENDS ZoneBands

(***************************************************************************)
(* Split rejections.                                                       *)
(***************************************************************************)
\* The first internal low soon after that came back near the wick and held the body.
RejectionRetests(low, internal) ==
  Selection(internal, LAMBDA r : /\ r.kind = "low"
                                 /\ r.index - low.index \in 1..MaxRetestBars
                                 /\ r.wick - low.wick \in RetestTolerance..ZoneWidth
                                 /\ r.body >= low.top)

RejectionPair(low, retest) ==
  LET sources == {low.index, retest.index}
  IN << Zone("wick_retest_support", "local_reaction", low.wick, retest.wick,
             <<low.wick, retest.wick>>, sources, 2, 4),
        Zone("body_rejection_support", "support_floor", low.top, low.top + ZoneWidth,
             <<low.top, retest.body>>, sources, 2, 4) >>

RejectionPairs(prominent, internal) ==
  LET deep == Selection(prominent, LAMBDA p : /\ p.kind = "low"
                                              /\ p.top - p.wick >= MinRejectionWick
                                              /\ RejectionRetests(p, internal) # <<>>)
  IN [k \in DOMAIN deep |-> RejectionPair(deep[k], Head(RejectionRetests(deep[k], internal)))]

\* A mixed zone between the two shelves gives way to both.
OverlayRejections(zones, pairs) ==
  LET Between(z, pair) ==
        z.origin = "mixed_structure" /\ z.low >= pair[1].low /\ z.high <= pair[2].high
      lay(selected, pair) ==
        IF AnyOf(selected, LAMBDA z : Between(z, pair))
        THEN Selection(selected, LAMBDA z : ~Between(z, pair)) \o pair
        ELSE selected
  IN ByLow(FoldLeft(lay, zones, pairs))

(***************************************************************************)
(* Daily lows.                                                             *)
(***************************************************************************)
DailyScore == 102

DailyZones(daily) ==
  LET lows == Selection(daily, LAMBDA p : p.kind = "low")
  IN [k \in DOMAIN lows |->
        Zone("daily_body_support", "body", lows[k].body - ZoneWidth, lows[k].body,
             <<lows[k].body>>, {lows[k].index}, 1, DailyScore)]

DailyMayReplace(z) == z.origin \in {"daily_body_support", "mixed_structure"}

\* A reclaimed high right above a daily zone that overlaps nothing makes room, the nearest.
Crowding(zones, d) ==
  {k \in DOMAIN zones : /\ zones[k].low - d.high \in 0..MinGap - 1
                        /\ zones[k].style = "body" /\ zones[k].origin = "flipped_resistance"}

NearestAbove(zones, d) ==
  CHOOSE k \in Crowding(zones, d) :
    \A j \in Crowding(zones, d) :
      zones[k].low < zones[j].low \/ (zones[k].low = zones[j].low /\ k <= j)

OverlayDaily(zones, dailyZones) ==
  LET lay(selected, d) ==
        IF AnyOf(selected, LAMBDA z : Overlap(z, d) /\ ~DailyMayReplace(z)) THEN selected
        ELSE IF AnyOf(selected, LAMBDA z : Overlap(z, d))
        THEN Append(Selection(selected, LAMBDA z : ~Overlap(z, d)), d)
        ELSE IF Crowding(selected, d) = {} THEN Append(selected, d)
        ELSE Append(RemoveAt(selected, NearestAbove(selected, d)), d)
  IN IF dailyZones = <<>> THEN zones
     ELSE ByLow(FoldLeft(lay, zones, ByLow(dailyZones)))

(***************************************************************************)
(* Persistent floors.                                                      *)
(***************************************************************************)
IsPersistent(z) == z.origin = "persistent_wick_floor"

Age(z) == Min(z.sources)

\* Every external low, prominent or not, whose wick hangs two percent of its price down.
PersistentFloors(raw) ==
  LET long == Selection(raw, LAMBDA p : /\ p.kind = "low" /\ p.wick > 0
                                        /\ 100 * (p.body - p.wick) >= PersistentWickPct * p.wick)
  IN [k \in DOMAIN long |->
        Zone("persistent_wick_floor", "support_floor", long[k].wick, long[k].wick + ZoneWidth,
             <<long[k].wick>>, {long[k].index}, 1, 2)]

\* Seeded fault: the newest of two overlapping floors is kept.
NewestFirst(floors) == SortBy(floors, LAMBDA a, b : Age(a) > Age(b))

OldestFirst(floors) ==
  SortBy(floors, LAMBDA a, b : Age(a) < Age(b) \/ (Age(a) = Age(b) /\ a.low < b.low))

\* The oldest floors that do not overlap, and what they leave free.
OverlayPersistent(zones, floors) ==
  LET kept == KeepClear(OldestFirst(floors), Overlap)
  IN ByLow(Selection(zones, LAMBDA z : /\ ~IsPersistent(z)
                                       /\ ~AnyOf(kept, LAMBDA k : Overlap(z, k)))
             \o kept)
=============================================================================
