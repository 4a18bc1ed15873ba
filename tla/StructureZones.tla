--------------------------- MODULE StructureZones ---------------------------
(***************************************************************************)
(* Structural zones: the candidates of the external swings (candidates.py) *)
(* and how clusters of them are merged, bridged and thinned (build.py).    *)
(***************************************************************************)
EXTENDS ZoneBands

(***************************************************************************)
(* Candidates: prominent lows, reclaimed highs, and the floors of long     *)
(* wicks with every low whose body came back to them.                      *)
(***************************************************************************)
FloorCandidates(raw, prominent) ==
  LET Retests(low) ==
        Selection(raw, LAMBDA r : /\ r.kind = "low" /\ r.index # low.index
                                  /\ r.body - low.wick \in -RetestTolerance..RetestTolerance)
      Floor(low) ==
        LET retests == Retests(low)
        IN <<Candidate(low, low.wick, "structure_swing_low_wick", "support_floor")>>
             \o [k \in DOMAIN retests |->
                   Candidate(retests[k], retests[k].body, "structure_swing_low_body_floor",
                             "support_floor")]
      long == Selection(prominent, LAMBDA p : p.kind = "low" /\ p.body - p.wick >= ZoneWidth)
  IN FoldLeft(LAMBDA all, low : all \o Floor(low), <<>>, long)

SupportCandidates(raw, prominent) ==
  LET usable == Selection(prominent, LAMBDA p : p.kind = "low" \/ p.reclaim # 0)
      body   == [k \in DOMAIN usable |->
                   Candidate(usable[k], usable[k].body,
                             IF usable[k].kind = "low" THEN "structure_swing_low"
                             ELSE "flipped_resistance", "body")]
  IN body \o FloorCandidates(raw, prominent)

(***************************************************************************)
(* Macro groups.                                                           *)
(***************************************************************************)
\* One style throughout, or a first floor on top of bodies.
StylesAgree(group, zone) ==
  LET styles == {z.style : z \in ToSet(group)}
  IN styles = {zone.style} \/ (styles = {"body"} /\ zone.style = "support_floor")

CanJoin(group, zone) ==
  LET closes == UNION {ToSet(z.closes) : z \in ToSet(group) \union {zone}}
  IN /\ StylesAgree(group, zone)
     /\ zone.low - Last(group).high <= MacroGap
     /\ Max(closes) - Min(closes) <= MacroSpan

Combine(group) ==
  LET closes == FoldLeft(LAMBDA all, z : all \o z.closes, <<>>, group)
      bounds == FixedBounds(closes, group[1].style)
  IN IF Len(group) = 1 THEN group[1]
     ELSE Zone(OriginOf({z.origin : z \in ToSet(group)}), group[1].style, bounds[1], bounds[2],
               closes, UNION {z.sources : z \in ToSet(group)}, Len(closes),
               FoldLeft(LAMBDA sum, z : sum + z.score, 0, group))

MergeMacroGroups(zones) ==
  LET step(acc, z) ==
        IF acc = <<>> \/ ~CanJoin(Last(acc), z) THEN Append(acc, <<z>>)
        ELSE [acc EXCEPT ![Len(acc)] = Append(@, z)]
      groups == FoldLeft(step, <<>>, ByLow(zones))
  IN [k \in DOMAIN groups |-> Combine(groups[k])]

(***************************************************************************)
(* Bridges between a body low and the floor that confirms it from above.   *)
(***************************************************************************)
Bridged(lower, upper) ==
  /\ lower.style = "body" /\ lower.origin = "structure_swing_low"
  /\ upper.style = "support_floor" /\ upper.origin = "structure_support_floor"
  /\ upper.low - lower.high \in 1..BridgeGap

Bridge(lower, upper) ==
  Zone("mixed_structure", "body", lower.high, lower.high + ZoneWidth,
       lower.closes \o upper.closes, lower.sources \union upper.sources,
       lower.touches + upper.touches, lower.score + upper.score)

\* A floor of the same candles just below the body goes with it.
Companion(floor, body) ==
  /\ floor.style = "support_floor"
  /\ floor.sources \intersect body.sources # {}
  /\ body.low - floor.high \in 0..BridgeGap

BridgeGaps(zones) ==
  LET sorted  == ByLow(zones)
      pairs   == {k \in 1..Len(sorted) - 1 : Bridged(sorted[k], sorted[k + 1])}
      gone(z) == \E k \in pairs : z \in {sorted[k], sorted[k + 1]} \/ Companion(z, sorted[k])
      built   == Selection([k \in DOMAIN sorted |-> k], LAMBDA k : k \in pairs)
  IN Selection(zones, LAMBDA z : ~gone(z))
       \o [k \in DOMAIN built |-> Bridge(sorted[built[k]], sorted[built[k] + 1])]

(***************************************************************************)
(* Thinning.                                                               *)
(***************************************************************************)
\* Of two close zones of one style the upper one stays, unless the lower has been
\* touched more often by a margin.
CollapseAdjacent(zones) ==
  LET step(kept, z) ==
        IF kept = <<>> \/ Last(kept).style # z.style \/ z.low - Last(kept).high >= MinGap
        THEN Append(kept, z)
        ELSE IF Last(kept).touches - z.touches >= TouchMargin THEN kept
        ELSE Append(Front(kept), z)
  IN FoldLeft(step, <<>>, ByLow(zones))

Suppress(zones) ==
  KeepClear(SortBy(CollapseAdjacent(zones), Outranks),
            LAMBDA a, b : Mid2(a) - Mid2(b) \in (1 - 2 * Spacing)..(2 * Spacing - 1))

BuildSupportZones(candidates, minTouches) ==
  Suppress(BridgeGaps(MergeMacroGroups(ZonesOfClusters(candidates, minTouches))))
=============================================================================
