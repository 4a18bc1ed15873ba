------------------------------- MODULE Swings -------------------------------
(***************************************************************************)
(* The evidence of the zone detector: swing pivots, the prominent ones,    *)
(* reclaimed highs and daily pivots (src/zones/incremental.py, pivots.py,  *)
(* candidates.py, ohlc.py, daily.py, timeframes.py).  A replay keeps it up *)
(* to date bar by bar; the live refresh extracts it from the whole frame.  *)
(* The second is the definition of the first here as in the source, and    *)
(* both are written below.                                                 *)
(*                                                                         *)
(* An ATR is a fraction [sum, n], so nothing is rounded.  Opens and bodies *)
(* are left out: a pivot's body is read off the bar at its index.  So is   *)
(* the window of recent internal pivots, which nothing reads.  Bars are    *)
(* numbered from 1.                                                        *)
(***************************************************************************)
EXTENDS Integers, SequencesExt

CONSTANTS
  Candle,         \* closed 4h candles, records [high, low, close]
  MaxBars,        \* bound of the bars ingested
  ExternalOrder,  \* external_swing_order, bars on each side of a pivot
  InternalOrder,  \* internal_swing_order
  AtrPeriod,
  BreakAtrPct,    \* break_atr_mult, in hundredths
  MinSwingAtr,    \* external_min_swing_atr_mult
  MinSwingPct,    \* external_min_swing_pct
  DayBars,        \* 4h bars in a UTC day
  None

ASSUME OrderAssumption ==
  {ExternalOrder, InternalOrder, AtrPeriod, DayBars} \subseteq Nat \ {0}

ASSUME KnobAssumption == {MaxBars, BreakAtrPct, MinSwingAtr, MinSwingPct} \subseteq Nat

ASSUME CandleAssumption ==
  /\ Candle \subseteq [high : Nat, low : Nat, close : Nat]
  /\ \A c \in Candle : c.low <= c.close /\ c.close <= c.high

ASSUME NoneAssumption == None \notin Nat

VARIABLES
  start,       \* 4h slot of the UTC day in which the history begins
  series,      \* bars, true ranges and ATRs
  raw,         \* labelled external pivots
  prominent,   \* those the reducer keeps
  internal,    \* labelled internal pivots
  pending,     \* highs no close has cleared yet
  reclaims,    \* first bar that cleared a high, by its term and index
  bucket,      \* the UTC day being filled
  daily,       \* bars, true ranges and ATRs of the days completed
  dailyDays,   \* which days they are
  dailyProminent

vars == <<start, series, raw, prominent, internal, pending, reclaims,
          bucket, daily, dailyDays, dailyProminent>>

(***************************************************************************)
(* Bars and their average true range.                                      *)
(***************************************************************************)
EmptySeries == [bars |-> << >>, tr |-> << >>, atr |-> << >>]

Distance(x, y) == IF x < y THEN y - x ELSE x - y

\* The first bar has no previous close.
TrueRange(bars, bar) ==
  Max({bar.high - bar.low} \union
      {Distance(edge, Last(bars).close) : edge \in IF bars = << >> THEN {} ELSE {bar.high, bar.low}})

Window(seq, n) == SubSeq(seq, Max({1, Len(seq) - n + 1}), Len(seq))

RollingAtr(tr) ==
  [sum |-> FoldLeft(LAMBDA x, y : x + y, 0, Window(tr, AtrPeriod)), n |-> Len(Window(tr, AtrPeriod))]

AppendBar(s, bar) ==
  LET tr == Append(s.tr, TrueRange(s.bars, bar))
  IN  [bars |-> Append(s.bars, bar), tr |-> tr, atr |-> Append(s.atr, RollingAtr(tr))]

(***************************************************************************)
(* Pivots.  Of two at one bar the low comes first.                         *)
(***************************************************************************)
Pivot(s, center, kind, term) ==
  [index |-> center, kind |-> kind, term |-> term, role |-> None, atr |-> s.atr[center],
   wick |-> IF kind = "high" THEN s.bars[center].high ELSE s.bars[center].low]

\* The bar alone has the lowest low, or the highest high, of its window.
PivotsAtCenter(s, center, order, term) ==
  LET others == (center - order .. center + order) \ {center}
      lowest == \A i \in others : s.bars[center].low < s.bars[i].low
      highest == \A i \in others : s.bars[center].high > s.bars[i].high
  IN  (IF lowest THEN <<Pivot(s, center, "low", term)>> ELSE << >>)
        \o (IF highest THEN <<Pivot(s, center, "high", term)>> ELSE << >>)

\* The one center whose right side the newest bar completed.
PivotsAtNewCenter(s, order, term) ==
  IF Len(s.bars) < 2 * order + 1 THEN << >>
  ELSE PivotsAtCenter(s, Len(s.bars) - order, order, term)

FindPivots(s, order, term) ==
  FlattenSeq([k \in 1 .. Max({0, Len(s.bars) - 2 * order}) |-> PivotsAtCenter(s, k + order, order, term)])

SameKind(pivots, kind) == SelectSeq(pivots, LAMBDA p : p.kind = kind)

\* The role relative to the previous pivot of the kind in a list.
WithRole(pivots, p) ==
  LET before == SameKind(pivots, p.kind)
      rising == p.wick > Last(before).wick
      roles == IF p.kind = "high" THEN [first |-> "H", up |-> "HH", down |-> "LH"]
                                  ELSE [first |-> "L", up |-> "HL", down |-> "LL"]
  IN  [p EXCEPT !.role = IF before = << >> THEN roles.first
                         ELSE IF rising THEN roles.up ELSE roles.down]

AppendLabeled(pivots, p) == Append(pivots, WithRole(pivots, p))

AppendAllLabeled(pivots, new) == FoldLeft(AppendLabeled, pivots, new)

MoreExtreme(p, q) == IF p.kind = "high" THEN p.wick > q.wick ELSE p.wick < q.wick

\* The move is at least the pivot's min_move, max(ATR * mult, wick * pct / 100).
IsSwing(move, p) ==
  /\ move * p.atr.n >= p.atr.sum * MinSwingAtr
  /\ move * 100 >= p.wick * MinSwingPct

KeepsEveryPivot == MinSwingAtr = 0 /\ MinSwingPct = 0

\* Seeded fault: the newest pivot of a kind is kept, whatever its extreme.
AppendProminentLatest(pivots, p) ==
  IF KeepsEveryPivot \/ pivots = << >> THEN AppendLabeled(pivots, p)
  ELSE LET last == Last(pivots)
           move == Distance(p.wick, last.wick)
       IN  CASE p.kind = last.kind -> AppendLabeled(Front(pivots), p)
             [] p.kind # last.kind /\ IsSwing(move, last) /\ IsSwing(move, p) -> AppendLabeled(pivots, p)
             [] OTHER -> pivots

\* A more extreme pivot of the last one's kind replaces it, one of the other
\* kind is added if it reverses far enough.
AppendProminent(pivots, p) ==
  IF KeepsEveryPivot \/ pivots = << >> THEN AppendLabeled(pivots, p)
  ELSE LET last == Last(pivots)
           move == Distance(p.wick, last.wick)
       IN  CASE p.kind = last.kind /\ MoreExtreme(p, last) -> AppendLabeled(Front(pivots), p)
             [] p.kind # last.kind /\ IsSwing(move, last) /\ IsSwing(move, p) -> AppendLabeled(pivots, p)
             [] OTHER -> pivots

AppendAllProminent(pivots, new) == FoldLeft(AppendProminent, pivots, new)

(***************************************************************************)
(* Reclaims: a later close above the wick by a share of the ATR.           *)
(***************************************************************************)
Clears(bar, p) ==
  /\ bar.close > p.wick
  /\ (bar.close - p.wick) * p.atr.n * 100 > p.atr.sum * BreakAtrPct

FirstReclaim(p, bars) ==
  LET hits == {i \in p.index + 1 .. Len(bars) : Clears(bars[i], p)}
  IN  IF hits = {} THEN None ELSE Min(hits)

Highs(pivots) == {p \in Range(pivots) : p.kind = "high"}

Key(p) == <<p.term, p.index>>

Reclaimed(highs, bars) == {p \in highs : FirstReclaim(p, bars) # None}

\* Entries of the first map win.
Merge(f, g) == [x \in DOMAIN f \union DOMAIN g |-> IF x \in DOMAIN f THEN f[x] ELSE g[x]]

FirstReclaims(highs, bars) ==
  [key \in {Key(p) : p \in Reclaimed(highs, bars)} |->
     FirstReclaim(CHOOSE p \in highs : Key(p) = key, bars)]

(***************************************************************************)
(* UTC days.                                                               *)
(***************************************************************************)
DayOf(i) == (start + i - 1) \div DayBars

DayBar(bars) ==
  [high |-> Max({b.high : b \in Range(bars)}), low |-> Min({b.low : b \in Range(bars)}),
   close |-> Last(bars).close]

(***************************************************************************)
(* The whole frame at once: extract_zone_detector_evidence.                *)
(***************************************************************************)
\* The rows grouped by day, the days in order, and those with all their rows.
BarsOfDay(bars, d) == {i \in DOMAIN bars : DayOf(i) = d}

IsComplete(bars, d) == Cardinality(BarsOfDay(bars, d)) >= DayBars

CompleteDays(bars) ==
  FoldLeft(LAMBDA days, d : IF IsComplete(bars, d) THEN Append(days, d) ELSE days,
           << >>, [k \in 1 .. DayOf(Len(bars)) + 1 |-> k - 1])

AggregateDay(bars, rows) ==
  [high |-> Max({bars[i].high : i \in rows}), low |-> Min({bars[i].low : i \in rows}),
   close |-> bars[Max(rows)].close]

AggregateDaily(bars, days) == [k \in DOMAIN days |-> AggregateDay(bars, BarsOfDay(bars, days[k]))]

Series(bars) == FoldLeft(AppendBar, EmptySeries, bars)

Filter(pivots) == AppendAllProminent(<< >>, pivots)

Label(pivots) == AppendAllLabeled(<< >>, pivots)

ExtractDaily(bars) ==
  LET s == Series(AggregateDaily(bars, CompleteDays(bars)))
  IN  Label(Filter(FindPivots(s, ExternalOrder, "external")))

Extract(bars) ==
  LET s == Series(bars)
      external == FindPivots(s, ExternalOrder, "external")
      inner == FindPivots(s, InternalOrder, "internal")
  IN  IF Len(bars) < 2 * ExternalOrder + 1 \/ Filter(external) = << >> THEN None
      ELSE [raw |-> Label(external),
            prominent |-> Label(Filter(external)),
            internal |-> Label(inner),
            daily |-> ExtractDaily(bars),
            days |-> CompleteDays(bars),
            reclaims |-> FirstReclaims(Highs(external) \union Highs(inner), bars)]

(***************************************************************************)
(* One bar at a time: IncrementalZoneDetectorState.  A candle that is not  *)
(* the next one is refused before anything is written.                     *)
(***************************************************************************)
Snapshot ==
  IF Len(series.bars) < 2 * ExternalOrder + 1 \/ prominent = << >> THEN None
  ELSE [raw |-> raw, prominent |-> prominent, internal |-> internal,
        daily |-> dailyProminent, days |-> dailyDays, reclaims |-> reclaims]

\* What a snapshot draws zones from: prominent lows, prominent highs that were
\* reclaimed, and daily lows.
Lows(pivots) == {p \in Range(pivots) : p.kind = "low"}

ReclaimIndex(p) == IF Key(p) \in DOMAIN reclaims THEN reclaims[Key(p)] ELSE None

Candidate(p, origin, broken) ==
  [index |-> p.index, origin |-> origin, role |-> p.role, broken |-> broken]

Candidates(pivots) ==
  {Candidate(p, "structure_swing_low", None) : p \in Lows(pivots)}
    \union {Candidate(p, "flipped_resistance", ReclaimIndex(p)) :
              p \in {q \in Highs(pivots) : ReclaimIndex(q) # None}}

DailyOrigins(pivots) == {Candidate(p, "daily_body_support", None) : p \in Lows(pivots)}

Init ==
  /\ start \in 0 .. DayBars - 1
  /\ series = EmptySeries /\ daily = EmptySeries
  /\ raw = << >> /\ prominent = << >> /\ internal = << >>
  /\ dailyDays = << >> /\ dailyProminent = << >>
  /\ pending = {}
  /\ reclaims = << >>
  /\ bucket = [day |-> None, bars |-> << >>]

\* Seeded fault: a high stays pending once it is reclaimed.
AdvanceReclaimsAgain(s, bar, confirmed) ==
  LET waiting == pending \union (confirmed \ Reclaimed(confirmed, s.bars))
      cleared == {p \in waiting : Clears(bar, p)}
  IN  /\ reclaims' = Merge([key \in {Key(p) : p \in cleared} |-> Len(s.bars)],
                           Merge(FirstReclaims(confirmed, s.bars), reclaims))
      /\ pending' = waiting

\* A high cleared before it was confirmed would be recorded at once; the others
\* wait for the close that clears them.
AdvanceReclaims(s, bar, confirmed) ==
  LET waiting == pending \union (confirmed \ Reclaimed(confirmed, s.bars))
      cleared == {p \in waiting : Clears(bar, p)}
  IN  /\ reclaims' = Merge([key \in {Key(p) : p \in cleared} |-> Len(s.bars)],
                           Merge(FirstReclaims(confirmed, s.bars), reclaims))
      /\ pending' = waiting \ cleared

\* What a full day adds to the daily series.
CompleteDay(today, held) ==
  LET days == AppendBar(daily, DayBar(held))
  IN  /\ daily' = days
      /\ dailyDays' = Append(dailyDays, today)
      /\ dailyProminent' = AppendAllProminent(dailyProminent,
                             PivotsAtNewCenter(days, ExternalOrder, "external"))

\* Seeded fault: a day is any six bars.
AdvanceDailyByCount(today, bar) ==
  LET held == Append(IF Len(bucket.bars) < DayBars THEN bucket.bars ELSE << >>, bar)
  IN  /\ bucket' = [day |-> today, bars |-> held]
      /\ IF Len(held) < DayBars THEN UNCHANGED <<daily, dailyDays, dailyProminent>>
         ELSE CompleteDay(today, held)

\* A day becomes a daily bar when it has all its 4h bars.
AdvanceDaily(today, bar) ==
  LET held == Append(IF bucket.day = today THEN bucket.bars ELSE << >>, bar)
  IN  /\ bucket' = [day |-> today, bars |-> held]
      /\ IF Len(held) < DayBars THEN UNCHANGED <<daily, dailyDays, dailyProminent>>
         ELSE CompleteDay(today, held)

Advance(bar) ==
  LET s == AppendBar(series, bar)
      inner == PivotsAtNewCenter(s, InternalOrder, "internal")
      external == PivotsAtNewCenter(s, ExternalOrder, "external")
  IN  /\ Len(series.bars) < MaxBars
      /\ series' = s
      /\ internal' = AppendAllLabeled(internal, inner)
      /\ raw' = AppendAllLabeled(raw, external)
      /\ prominent' = AppendAllProminent(prominent, external)
      /\ AdvanceReclaims(s, bar, Highs(inner) \union Highs(external))
      /\ AdvanceDaily(DayOf(Len(s.bars)), bar)
      /\ UNCHANGED start

Next == \E bar \in Candle : Advance(bar)

Spec == Init /\ [][Next]_vars

-----------------------------------------------------------------------------
\* The class promises "the same evidence as a full-prefix extract": after any
\* bar, and wherever in the day the history began, what the incremental state
\* holds is what the stateless detector reads off the same bars.
IncrementalAgrees == Snapshot = Extract(series.bars)

\* _resolve_pending_reclaims: "the first hit is frozen and never moved".  A
\* reclaim is recorded by the bar whose close clears the high, never for an
\* earlier bar: until a high is confirmed the bars to its right stay below it.
ReclaimsAreFrozen ==
  [][/\ DOMAIN reclaims \subseteq DOMAIN reclaims'
     /\ \A key \in DOMAIN reclaims' :
          reclaims'[key] = IF key \in DOMAIN reclaims THEN reclaims[key] ELSE Len(series'.bars)]_vars

\* The reducer looks back one pivot.  The last prominent pivot only gives way
\* to a more extreme one of its kind, and what a zone is drawn from, whether a
\* low, a reclaimed high or a daily low, stays with its role and its break once
\* another pivot follows: a shelf cannot lose its origin to a later bar.
OriginsPersist ==
  [][/\ prominent # << >> => Candidates(Front(prominent)) \subseteq Candidates(prominent)'
     /\ dailyProminent # << >> =>
          DailyOrigins(Front(dailyProminent)) \subseteq DailyOrigins(dailyProminent)'
     /\ \A step \in {<<prominent, prominent'>>, <<dailyProminent, dailyProminent'>>} :
          step[1] # << >> =>
            LET last == Last(step[1])
                kept == step[2][Len(step[1])]
            IN  kept = last \/ (kept.kind = last.kind /\ MoreExtreme(kept, last))]_vars

=============================================================================
