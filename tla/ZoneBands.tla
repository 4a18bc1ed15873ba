------------------------------ MODULE ZoneBands ------------------------------
(***************************************************************************)
(* What every builder of the ladder shares: the widths and gaps of         *)
(* types.py, a zone and its bounds (factory.py), its state against the     *)
(* price (state.py), and when two zones overlap or stand on one step of    *)
(* the ladder.                                                             *)
(*                                                                         *)
(* Prices are in units of $50.  A midpoint is kept doubled, and width_pct  *)
(* compared by cross multiplication, so nothing is rounded.  Left out are  *)
(* the fields no decision reads: role and bias, structure_role,            *)
(* broken_index, last_touch_index.                                         *)
(***************************************************************************)
EXTENDS Integers, FiniteSets, SequencesExt, FiniteSetsExt, TLC

ZoneWidth         == 10    \* $500
LocalMinWidth     == 2     \* 20% of it
RetestTolerance   == 2
MinGap            == 13    \* $650
Spacing           == 20    \* $1000
MacroGap          == 6     \* $300
MacroSpan         == 40    \* $2000
BridgeGap         == 20    \* $1000
StairGap          == 80    \* $4000
TouchMargin       == 3
MaxInsertions     == 6
MinRejectionWick  == 20    \* twice the zone width
MaxRetestBars     == 4
PersistentWickPct == 2

(***************************************************************************)
(* Sequences.                                                              *)
(***************************************************************************)
\* The elements at some of the places of a sequence, in their order.
Pick(s, places) ==
  LET picked[n \in 0..Len(s)] ==
        IF n = 0 THEN <<>>
        ELSE IF n \in places THEN Append(picked[n - 1], s[n]) ELSE picked[n - 1]
  IN picked[Len(s)]

Selection(s, Test(_)) == Pick(s, {k \in DOMAIN s : Test(s[k])})

\* Each element goes in behind those before it that it does not precede.
Insert(sorted, x, precedes) ==
  InsertAt(sorted, Cardinality({k \in DOMAIN sorted : <<x, sorted[k]>> \notin precedes}) + 1, x)

\* Python's sorted: stable.
Sorted(s, precedes) ==
  LET sorted[n \in 0..Len(s)] ==
        IF n = 0 THEN <<>> ELSE Insert(sorted[n - 1], s[n], precedes)
  IN sorted[Len(s)]

SortBy(s, Before(_, _)) ==
  Sorted(s, {p \in ToSet(s) \X ToSet(s) : Before(p[1], p[2])})

ByLow(zones) == SortBy(zones, LAMBDA a, b : a.low < b.low)

AnyOf(s, Test(_)) == \E k \in DOMAIN s : Test(s[k])

(***************************************************************************)
(* A zone.                                                                 *)
(***************************************************************************)
Zone(origin, style, low, high, closes, sources, touches, score) ==
  [origin |-> origin, style |-> style, low |-> low, high |-> high, closes |-> closes,
   sources |-> sources, touches |-> touches, score |-> score, near |-> FALSE]

Mid2(z)  == z.low + z.high
Width(z) == z.high - z.low

\* The share of the price that a zone is wide: width_pct.
Narrower(a, b) == Width(a) * Mid2(b) < Width(b) * Mid2(a)

\* The tenth percentile of sorted prices.
LowerDecile(sorted) == sorted[((Len(sorted) - 1) \div 10) + 1]

\* A body band hangs from its highest close, a floor stands on its lowest; of
\* more than ten closes the tenth percentile counts in both.
FixedBounds(prices, style) ==
  LET sorted == SortBy(prices, LAMBDA a, b : a < b)
      anchor(edge) == IF Len(prices) <= 10 THEN sorted[edge] ELSE LowerDecile(sorted)
  IN IF style = "support_floor"
     THEN <<anchor(1), anchor(1) + ZoneWidth>>
     ELSE <<anchor(Len(prices)) - ZoneWidth, anchor(Len(prices))>>

FloorOrigins == {"structure_swing_low_wick", "structure_swing_low_body_floor"}

OriginOf(origins) ==
  CASE origins \subseteq FloorOrigins    -> "structure_support_floor"
    [] Cardinality(origins) = 1          -> CHOOSE o \in origins : TRUE
    [] "flipped_resistance" \in origins  -> "flipped_resistance"
    [] OTHER                             -> "mixed_structure"

\* 0.15% around the price: buffer_pct.
PriceState(z, price) ==
  CASE 10000 * z.high < 9985 * price  -> "support"
    [] 10000 * z.low > 10015 * price  -> "resistance"
    [] OTHER                          -> "active"

(***************************************************************************)
(* Two zones.                                                              *)
(***************************************************************************)
Overlap(a, b) == a.low <= b.high /\ b.low <= a.high

\* One step of the ladder: edges closer than `clearance` or midpoints than `spacing`.
ShareSlotWithin(a, b, clearance, spacing) ==
  LET lower == IF a.low <= b.low THEN a ELSE b
      upper == IF a.low <= b.low THEN b ELSE a
      apart == Mid2(a) - Mid2(b)
  IN \/ upper.low - lower.high < clearance
     \/ apart < 2 * spacing /\ -apart < 2 * spacing

ShareLadderSlot(a, b) == ShareSlotWithin(a, b, MinGap, Spacing)

\* Score, then touches, then the narrower band.
Outranks(a, b) ==
  \/ a.score > b.score
  \/ a.score = b.score /\ a.touches > b.touches
  \/ a.score = b.score /\ a.touches = b.touches /\ Narrower(a, b)

\* Each zone of the ranking is kept that clears all kept before it.
KeepClear(ranked, Crowds(_, _)) ==
  FoldLeft(LAMBDA kept, z : IF AnyOf(kept, LAMBDA k : Crowds(z, k)) THEN kept ELSE Append(kept, z),
           <<>>, ranked)

(***************************************************************************)
(* Clusters of candidates.                                                 *)
(***************************************************************************)
Candidate(pivot, price, origin, style) ==
  [price |-> price, index |-> pivot.index, origin |-> origin, style |-> style,
   wick |-> pivot.wick, reclaim |-> pivot.reclaim]

\* Candidates come in price order, so the first of a cluster is its lowest.
Cluster(candidates) ==
  FoldLeft(LAMBDA clusters, c :
             LET fits == {k \in DOMAIN clusters :
                            /\ clusters[k][1].style = c.style
                            /\ c.price - clusters[k][1].price <= ZoneWidth}
             IN IF fits = {} THEN Append(clusters, <<c>>)
                ELSE [clusters EXCEPT ![Min(fits)] = Append(@, c)],
           <<>>, SortBy(candidates, LAMBDA a, b : \/ a.price < b.price
                                                  \/ a.price = b.price /\ a.index < b.index))

Touched(cluster, minTouches) ==
  Cardinality({<<c.index, c.origin>> : c \in ToSet(cluster)}) >= minTouches

ZoneOfCluster(cluster) ==
  LET closes  == [k \in DOMAIN cluster |-> cluster[k].price]
      bounds  == FixedBounds(closes, cluster[1].style)
      flipped == Len(Selection(cluster, LAMBDA c : c.origin = "flipped_resistance"))
  IN Zone(OriginOf({c.origin : c \in ToSet(cluster)}), cluster[1].style, bounds[1], bounds[2],
          closes, {c.index : c \in ToSet(cluster)}, Len(cluster), 2 * Len(cluster) + flipped)

ZonesOfClusters(candidates, minTouches) ==
  LET clusters == Selection(Cluster(candidates), LAMBDA c : Touched(c, minTouches))
  IN [k \in DOMAIN clusters |-> ZoneOfCluster(clusters[k])]
=============================================================================
