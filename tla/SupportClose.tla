---------------------------- MODULE SupportClose ----------------------------
(***************************************************************************)
(* The strategy `support_close_v2` (src/trading/signal.py): buy the dip to *)
(* the nearest support.  A BUY is the conjunction of the gates, each named *)
(* for the reason code of its HOLD; which gate fails first is abstracted.  *)
(*                                                                         *)
(* Hours are numbered from 1 and `candles` is the sequence of the closed   *)
(* ones.  Prices are integers, so ratios are compared by products.         *)
(***************************************************************************)
EXTENDS Integers, Sequences

CONSTANTS
  Lookback,                    \* dip_lookback_hours
  BelowMinPct, InsideMaxPct    \* entry region, in hundredths of the band

ASSUME LookbackAssumption == Lookback \in Nat \ {0}
ASSUME RegionAssumption == {BelowMinPct, InsideMaxPct} \subseteq 0 .. 100

Lowest(zones)  == CHOOSE z \in zones : \A y \in zones : z.low <= y.low
Highest(zones) == CHOOSE z \in zones : \A y \in zones : z.low >= y.low

Red(candle) == candle.close < candle.open

Containing(zones, price) == {z \in zones : z.low <= price /\ price <= z.high}
Above(zones, price)      == {z \in zones : z.low > price}

\* The shelf the close has reached: the highest around it, or the next above.
Selected(zones, price) ==
  IF Containing(zones, price) # {} THEN Highest(Containing(zones, price))
  ELSE Lowest(Above(zones, price))

Inside(z, price) == z.low <= price /\ (price - z.low) * 100 <= InsideMaxPct * (z.high - z.low)

\* Just below: the upper part of the gap down to the next lower zone.
Below(zones, z, price) ==
  LET lower == {y \in zones : y.high < z.low} IN
  \E y \in lower :
    /\ \A x \in lower : x.high <= y.high
    /\ price < z.low
    /\ (price - y.high) * 100 >= BelowMinPct * (z.low - y.high)

\* The entry region is the inside of a zone, or the gap when in none.
InEntryRegion(zones, price) ==
  IF Containing(zones, price) # {} THEN Inside(Selected(zones, price), price)
  ELSE Above(zones, price) # {} /\ Below(zones, Selected(zones, price), price)

Higher(zones, z) == {y \in zones : y.low > z.high}

\* Closes above the midpoint of the internal range, since the zone exists.
\* The candles in memory begin at the hour `first`.
Origins(candles, zones, z, first, t) ==
  LET mid2 == z.high + Lowest(Higher(zones, z)).low IN
  {h \in first .. t - 1 : h >= t - Lookback /\ h >= z.source /\ 2 * candles[h].close > mid2}

DipOrigin(candles, zones, z, first, t) ==
  CHOOSE h \in Origins(candles, zones, z, first, t) :
    \A k \in Origins(candles, zones, z, first, t) : k <= h

\* Seeded fault: only a close below the zone speaks against the approach.
FromAboveUnlessBelow(candles, z, first, t) ==
  \E h \in first .. t - 1 : candles[h].close > z.high

\* The last close outside the zone before the trigger is above it.
FromAbove(candles, z, first, t) ==
  \E h \in first .. t - 1 :
    /\ candles[h].close > z.high
    /\ \A k \in h + 1 .. t - 1 : z.low <= candles[k].close /\ candles[k].close <= z.high

\* All gates but the two that look at earlier decisions.
Dips(candles, zones, first, t) ==
  LET price == candles[t].close
      z == Selected(zones, price)
  IN /\ Red(candles[t])
     /\ InEntryRegion(zones, price)
     /\ Higher(zones, z) # {}
     /\ Origins(candles, zones, z, first, t) # {}
     /\ FromAbove(candles, z, first, t)
=============================================================================
