--------------------------- MODULE LocalReactions ---------------------------
(***************************************************************************)
(* Zones of the recent internal swings (reactions.py): clusters of lows    *)
(* with a reclaimed high below them, and reclaimed highs that were         *)
(* retested from above.                                                    *)
(***************************************************************************)
EXTENDS ZoneBands

(***************************************************************************)
(* Candidates: the internal lows and reclaimed highs of the lookback.      *)
(***************************************************************************)
LocalCandidates(internal, since) ==
  LET usable == Selection(internal, LAMBDA p : p.index >= since /\ (p.kind = "low" \/ p.reclaim # 0))
  IN [k \in DOMAIN usable |->
        Candidate(usable[k], usable[k].body,
                  IF usable[k].kind = "low" THEN "local_swing_low" ELSE "local_flipped_resistance",
                  "local_reaction")]

LowsOf(candidates)  == Selection(candidates, LAMBDA c : c.origin = "local_swing_low")
HighsOf(candidates) == Selection(candidates, LAMBDA c : c.origin = "local_flipped_resistance")

Indexes(candidates) == {c.index : c \in ToSet(candidates)}

(***************************************************************************)
(* Clusters.                                                               *)
(***************************************************************************)
\* A band under a low reaches down to the nearest earlier reclaimed high, or else to its wick.
LowerEdge(anchor, highs) ==
  LET prior == {h \in ToSet(highs) : h.index < anchor.index /\ h.price < anchor.price}
  IN IF prior = {} THEN anchor.wick ELSE Max({h.price : h \in prior})

\* The highest low that gives a band of lawful width.
Anchors(cluster) ==
  Selection(SortBy(LowsOf(cluster), LAMBDA a, b : \/ a.price > b.price
                                                  \/ a.price = b.price /\ a.index < b.index),
            LAMBDA a : a.price - LowerEdge(a, HighsOf(cluster)) \in LocalMinWidth..ZoneWidth)

ReactionZone(cluster) ==
  LET anchor == Head(Anchors(cluster))
  IN Zone("local_reaction_support", "local_reaction", LowerEdge(anchor, HighsOf(cluster)),
          anchor.price, [k \in DOMAIN cluster |-> cluster[k].price], Indexes(cluster),
          Len(cluster), 2 * Len(cluster) + Len(HighsOf(cluster)))

ReactionZones(candidates, minTouches) ==
  LET clusters == Selection(Cluster(candidates),
                            LAMBDA c : /\ Touched(c, minTouches)
                                       /\ Cardinality(Indexes(LowsOf(c))) >= minTouches
                                       /\ HighsOf(c) # <<>>
                                       /\ Anchors(c) # <<>>)
  IN [k \in DOMAIN clusters |-> ReactionZone(clusters[k])]

(***************************************************************************)
(* Retested flips.                                                         *)
(***************************************************************************)
\* Lows after the reclaim that held above the high, at most a zone's width away.
Retests(high, lows) ==
  Selection(lows, LAMBDA l : l.index > high.reclaim /\ l.price - high.price \in 1..ZoneWidth)

FlipZone(high, lows) ==
  LET first   == Head(Retests(high, lows))
      retests == Selection(lows, LAMBDA l : /\ l.index > high.reclaim
                                            /\ high.price < l.price /\ l.price <= first.price)
  IN Zone("local_retested_flip_support", "local_reaction", high.price, first.price,
          <<high.price>> \o [k \in DOMAIN retests |-> retests[k].price],
          {high.index} \union Indexes(retests), Len(retests) + 1, 2 * (Len(retests) + 1) + 1)

\* Pivots come in index order, so the first retest is the earliest.
FlipZones(candidates, existing, minTouches) ==
  LET lows == LowsOf(candidates)
      add(flips, h) ==
        IF Retests(h, lows) = <<>> THEN flips
        ELSE LET z == FlipZone(h, lows)
             IN IF \/ Cardinality(z.sources \ {h.index}) < minTouches
                   \/ AnyOf(existing \o flips, LAMBDA other : Overlap(z, other))
                THEN flips ELSE Append(flips, z)
  IN FoldLeft(add, <<>>, HighsOf(candidates))

(***************************************************************************)
(* One winner for each step of the ladder.                                 *)
(***************************************************************************)
IsFlip(z) == z.origin = "local_retested_flip_support"

Eligible(zones) == ByLow(Selection(zones, LAMBDA z : Width(z) >= LocalMinWidth))

\* The steps of eligible zones, from low to high, without the flips: the lowest zone of each.
OrdinarySteps(eligible) ==
  FoldLeft(LAMBDA kept, z :
             IF IsFlip(z) \/ (kept # <<>> /\ ShareLadderSlot(Last(kept), z)) THEN kept
             ELSE Append(kept, z),
           <<>>, eligible)

\* Seeded fault: a flip in the middle of two steps is let in.
AdmitsEveryFlip(z, steps) == TRUE

\* A flip that shares a slot with two of them stays out.
Admits(z, steps) ==
  IsFlip(z) => Cardinality({k \in DOMAIN steps : ShareLadderSlot(z, steps[k])}) < 2

\* A flip first, then the lower band, then the higher score.
Beats(a, b) ==
  \/ IsFlip(a) /\ ~IsFlip(b)
  \/ IsFlip(a) = IsFlip(b) /\ (a.low < b.low \/ (a.low = b.low /\ a.score > b.score))

SelectSteps(eligible) ==
  LET steps == OrdinarySteps(eligible)
      step(kept, z) ==
        IF ~Admits(z, steps) THEN kept
        ELSE IF kept = <<>> \/ ~ShareLadderSlot(Last(kept), z) THEN Append(kept, z)
        ELSE IF Beats(z, Last(kept)) THEN Append(Front(kept), z)
        ELSE kept
  IN FoldLeft(step, <<>>, eligible)

LocalZones(internal, since, minTouches) ==
  LET candidates == LocalCandidates(internal, since)
      touches    == Max({2, minTouches})
      reactions  == ReactionZones(candidates, touches)
  IN reactions \o FlipZones(candidates, reactions, touches)

BuildLocalReactions(internal, since, minTouches) ==
  SelectSteps(Eligible(LocalZones(internal, since, minTouches)))
=============================================================================
