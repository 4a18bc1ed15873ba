------------------------ MODULE HourlyDecisionProofs ------------------------
(***************************************************************************)
(* The strategy and the record of its decisions.  First what is true of    *)
(* the strategy alone, on any finite ladder: a replay (backtest.py), which *)
(* holds the candles from dip_lookback_hours before its start and none     *)
(* older, decides like a live cycle that holds them all.  Then what is     *)
(* true of the table: a BUY is taken in the first fall whatever runs at    *)
(* once, and with cycles one after the other, as the timer runs them, a    *)
(* setup is bought once and the cooldown is kept, for all candles and zone *)
(* sets, whatever the ladder does between the hours, and whatever is rerun.*)
(***************************************************************************)
EXTENDS HourlyDecision, FiniteSetTheorems, TLAPS

(***************************************************************************)
(* The strategy.                                                           *)
(***************************************************************************)
\* A ladder: numbers for bounds, and a lowest and a highest zone in each part of
\* it, which every finite ladder has.
Laddered(ladder) ==
  /\ \A z \in ladder : z.low \in Int /\ z.high \in Int
  /\ \A part \in SUBSET ladder : part # {} =>
       /\ \E z \in part : \A y \in part : z.low <= y.low
       /\ \E z \in part : \A y \in part : z.low >= y.low

\* A finite ladder has them: the zones below the lowest one are the fewest.
LEMMA FiniteLadder ==
  ASSUME NEW ladder, IsFiniteSet(ladder), \A z \in ladder : z.low \in Int /\ z.high \in Int
  PROVE  Laddered(ladder)
<1>1. ASSUME NEW part \in SUBSET ladder, part # {}
      PROVE  \E z \in part : \A y \in part : z.low <= y.low
  <2> DEFINE under(z) == {y \in ladder : y.low < z.low}
             tails == {under(z) : z \in part}
  <2>1. \A z : under(z) \in SUBSET ladder /\ IsFiniteSet(under(z))
    BY FS_Subset
  <2>2. tails \subseteq FiniteSubsetsOf(ladder) /\ tails # {}
    BY <1>1, <2>1 DEF FiniteSubsetsOf
  <2> HIDE DEF tails
  <2>3. \E s \in tails : \A u \in tails : ~(<<u, s>> \in StrictSubsetOrdering(ladder))
    BY <2>2, FS_StrictSubsetOrderingWellFounded, WFMin
  <2>4. PICK z \in part : \A y \in part : ~(<<under(y), under(z)>> \in StrictSubsetOrdering(ladder))
    BY <2>3 DEF tails
  <2>5. ASSUME NEW y \in part, y.low < z.low PROVE FALSE
    <3>1. under(y) \subseteq under(z) /\ y \in under(z) /\ y \notin under(y)
      BY <2>5
    <3> QED BY <2>4, <3>1 DEF StrictSubsetOrdering
  <2> QED BY <2>5
<1>2. ASSUME NEW part \in SUBSET ladder, part # {}
      PROVE  \E z \in part : \A y \in part : z.low >= y.low
  <2> DEFINE over(z) == {y \in ladder : y.low > z.low}
             tails == {over(z) : z \in part}
  <2>1. \A z : over(z) \in SUBSET ladder /\ IsFiniteSet(over(z))
    BY FS_Subset
  <2>2. tails \subseteq FiniteSubsetsOf(ladder) /\ tails # {}
    BY <1>2, <2>1 DEF FiniteSubsetsOf
  <2> HIDE DEF tails
  <2>3. \E s \in tails : \A u \in tails : ~(<<u, s>> \in StrictSubsetOrdering(ladder))
    BY <2>2, FS_StrictSubsetOrderingWellFounded, WFMin
  <2>4. PICK z \in part : \A y \in part : ~(<<over(y), over(z)>> \in StrictSubsetOrdering(ladder))
    BY <2>3 DEF tails
  <2>5. ASSUME NEW y \in part, y.low > z.low PROVE FALSE
    <3>1. over(y) \subseteq over(z) /\ y \in over(z) /\ y \notin over(y)
      BY <2>5
    <3> QED BY <2>4, <3>1 DEF StrictSubsetOrdering
  <2> QED BY <2>5
<1> QED BY <1>1, <1>2 DEF Laddered

\* A dip origin is a close above the zone it belongs to.
LEMMA OriginAboveZone ==
  ASSUME NEW ladder, Laddered(ladder), NEW z, z.high \in Int, Higher(ladder, z) # {},
         NEW cs, NEW first \in Int, NEW t \in Int,
         \A h \in first .. t - 1 : cs[h].close \in Int,
         NEW o \in Origins(cs, ladder, z, first, t)
  PROVE  cs[o].close > z.high
<1> DEFINE above == Lowest(Higher(ladder, z))
<1>1. above \in Higher(ladder, z)
  <2>1. \E y \in Higher(ladder, z) : \A x \in Higher(ladder, z) : y.low <= x.low
    BY DEF Laddered, Higher
  <2> QED BY <2>1 DEF Lowest
<1>2. above.low > z.high /\ above.low \in Int
  BY <1>1 DEF Higher, Laddered
<1> HIDE DEF above
<1>3. o \in first .. t - 1 /\ 2 * cs[o].close > z.high + above.low
  BY DEF Origins, above
<1> QED BY <1>2, <1>3

\* In the entry region a zone is selected.
LEMMA SelectedIsOfLadder ==
  ASSUME NEW ladder, Laddered(ladder), NEW price \in Int, InEntryRegion(ladder, price)
  PROVE  Selected(ladder, price) \in ladder
<1>1. CASE Containing(ladder, price) # {}
  <2>1. \E z \in Containing(ladder, price) : \A y \in Containing(ladder, price) : z.low >= y.low
    BY <1>1 DEF Laddered, Containing
  <2>2. Highest(Containing(ladder, price)) \in Containing(ladder, price)
    BY <2>1 DEF Highest
  <2> QED BY <1>1, <2>2 DEF Selected, Containing
<1>2. CASE Containing(ladder, price) = {}
  <2>1. Above(ladder, price) # {}
    BY <1>2 DEF InEntryRegion
  <2>2. \E z \in Above(ladder, price) : \A y \in Above(ladder, price) : z.low <= y.low
    BY <2>1 DEF Laddered, Above
  <2>3. Lowest(Above(ladder, price)) \in Above(ladder, price)
    BY <2>2 DEF Lowest
  <2> QED BY <1>2, <2>3 DEF Selected, Above
<1> QED BY <1>1, <1>2

\* The warm-up is enough: with the hours of the lookback in memory a replay
\* decides what a cycle that holds every older candle decides, on the same
\* ladder and the same earlier buys.  The walk back to the last close outside
\* the zone has no bound of its own in the code; the dip origin bounds it.
THEOREM WarmUpSuffices ==
  ASSUME NEW ladder, IsFiniteSet(ladder), \A z \in ladder : z.low \in Int /\ z.high \in Int,
         NEW cs, NEW first \in Int, NEW t \in Int,
         1 <= first, first <= t - Lookback,
         \A h \in 1 .. t : cs[h].close \in Int
  PROVE  LET z == Selected(ladder, cs[t].close) IN
         /\ Dips(cs, ladder, first, t) <=> Dips(cs, ladder, 1, t)
         /\ DipOrigin(cs, ladder, z, first, t) = DipOrigin(cs, ladder, z, 1, t)
<1> DEFINE z == Selected(ladder, cs[t].close)
<1>0. Laddered(ladder)
  BY FiniteLadder
<1> USE LookbackAssumption
<1>1. InEntryRegion(ladder, cs[t].close) => z.low \in Int /\ z.high \in Int
  BY <1>0, SelectedIsOfLadder DEF Laddered
<1>2. Origins(cs, ladder, z, first, t) = Origins(cs, ladder, z, 1, t)
  BY DEF Origins
<1>3. ASSUME NEW o \in Origins(cs, ladder, z, 1, t), Higher(ladder, z) # {},
             InEntryRegion(ladder, cs[t].close), FromAbove(cs, z, 1, t)
      PROVE  FromAbove(cs, z, first, t)
  <2>1. PICK h \in 1 .. t - 1 :
          /\ cs[h].close > z.high
          /\ \A k \in h + 1 .. t - 1 : z.low <= cs[k].close /\ cs[k].close <= z.high
    BY <1>3 DEF FromAbove
  <2>2. cs[o].close > z.high
    BY <1>0, <1>1, <1>3, OriginAboveZone
  <2>3. o \in 1 .. t - 1 /\ o >= t - Lookback
    BY DEF Origins
  <2>4. h >= o
    BY <1>1, <1>3, <2>1, <2>2, <2>3
  <2>5. h \in first .. t - 1
    BY <2>1, <2>3, <2>4
  <2> QED BY <2>1, <2>5 DEF FromAbove
<1>4. FromAbove(cs, z, first, t) => FromAbove(cs, z, 1, t)
  BY DEF FromAbove
<1> QED BY <1>2, <1>3, <1>4 DEF Dips, DipOrigin

(***************************************************************************)
(* The record of the decisions.                                            *)
(***************************************************************************)
USE HourAssumption DEF Hour

\* With no rows and no running cycle the invariant holds.
LEMMA InitIInv == Init => IInv
BY DEF Init, IInv, TypeOK, RowsAreOfClosedHours, ViewHeld, NoLaterRow, VerdictStands,
       OneBuyPerSetup, CooldownKept, SameShelf, IsBuy

\* Steps that write no row leave the record as it is.
LEMMA RecordStep ==
  ASSUME IInv, UNCHANGED rows, TypeOK', Len(candles') >= Len(candles),
         \A p \in Runner : ViewHeld(p)' /\ NoLaterRow(p)' /\ VerdictStands(p)'
  PROVE  IInv'
<1>1. Len(candles) \in Nat /\ Len(candles') \in Nat
  BY DEF IInv, TypeOK
<1>2. RowsAreOfClosedHours'
  BY <1>1 DEF IInv, RowsAreOfClosedHours
<1>3. \A m, n, g, h : SameShelf(m, g, n, h)' <=> SameShelf(m, g, n, h)
  BY DEF SameShelf, IsBuy
<1>4. OneBuyPerSetup' /\ CooldownKept'
  BY <1>3 DEF IInv, OneBuyPerSetup, CooldownKept
<1> QED BY <1>2, <1>4 DEF IInv

\* A new hour comes after every row and trigger.
LEMMA CloseHourPreserves == ASSUME IInv, CloseHour PROVE IInv'
<1>1. PICK c \in Candle : candles' = Append(candles, c)
  BY DEF CloseHour
<1>2. candles' \in Seq(Candle) /\ Len(candles') = Len(candles) + 1 /\ Len(candles) \in Nat
  BY <1>1 DEF IInv, TypeOK
<1>3. TypeOK'
  BY <1>2 DEF IInv, TypeOK, CloseHour
<1>4. ASSUME NEW p \in Runner PROVE ViewHeld(p)' /\ NoLaterRow(p)' /\ VerdictStands(p)'
  BY <1>2 DEF IInv, CloseHour, ViewHeld, NoLaterRow, VerdictStands, RecentBuy, SetupBuy, Bought,
     IsBuy
<1> QED BY <1>2, <1>3, <1>4, RecordStep DEF CloseHour

\* No row is newer than the last closed hour, which is the trigger.
LEMMA LoadPreserves == ASSUME IInv, Sequential, NEW p \in Runner, Load(p) PROVE IInv'
<1>1. PICK bar \in {Len(candles) \div HoursPerBar, (Len(candles) - 1) \div HoursPerBar},
           m \in Mode :
        /\ bar >= 1
        /\ view' = [view EXCEPT ![p] = [mode |-> m, trigger |-> Len(candles), asOf |-> bar,
                                        zones |-> zones', row |-> None]]
  BY DEF Load
<1>2. Len(candles) \in Nat /\ Len(candles) >= 1
  <2>1. Len(candles) \in Nat /\ HoursPerBar \in Nat \ {0}
    BY DEF IInv, TypeOK
  <2>2. Len(candles) # 0
    <3>1. ASSUME Len(candles) = 0 PROVE FALSE
      <4>1. 0 \div HoursPerBar = 0 /\ (0 - 1) \div HoursPerBar < 0
        BY <2>1
      <4> QED BY <1>1, <3>1, <4>1
    <3> QED BY <3>1
  <2> QED BY <2>1, <2>2
<1>3. TypeOK'
  BY <1>1 DEF IInv, TypeOK, Load
<1>4. ASSUME NEW q \in Runner PROVE ViewHeld(q)' /\ NoLaterRow(q)' /\ VerdictStands(q)'
  <2>1. q = p
    BY DEF Sequential
  <2>2. /\ pc'[p] = "evaluate" /\ candles' = candles /\ rows' = rows
        /\ view'[p] = [mode |-> m, trigger |-> Len(candles), asOf |-> bar, zones |-> zones',
                       row |-> None]
    BY <1>1 DEF Load, IInv, TypeOK
  <2> QED BY <1>2, <2>1, <2>2
          DEF IInv, ViewHeld, NoLaterRow, VerdictStands, RowsAreOfClosedHours
<1> QED BY <1>3, <1>4, RecordStep DEF Load, IInv, TypeOK

\* The lookups stand until the row is written: nothing else writes.
LEMMA EvaluatePreserves == ASSUME IInv, Sequential, NEW p \in Runner, Evaluate(p) PROVE IInv'
<1> DEFINE v == view[p]
           z == Selected(v.zones, candles[v.trigger].close)
           origin == DipOrigin(candles, v.zones, z, 1, v.trigger)
           buys == /\ Dips(candles, v.zones, 1, v.trigger)
                   /\ ~RecentBuy(z.shelf, v.trigger) /\ ~SetupBuy(z.shelf, origin, v.trigger)
           row == IF buys THEN Buy(v.asOf, z, origin) ELSE Hold(v.asOf)
<1>1. /\ pc[p] = "evaluate" /\ pc' = [pc EXCEPT ![p] = "insert"]
      /\ view' = [view EXCEPT ![p].row = row]
      /\ UNCHANGED <<candles, rows>>
  BY DEF Evaluate
<1> HIDE DEF row
<1>2. /\ view'[p].row = row /\ view'[p].mode = v.mode /\ view'[p].trigger = v.trigger
      /\ DOMAIN view'[p] = DOMAIN v
  BY <1>1 DEF IInv, TypeOK, ViewHeld
<1>3. IsBuy(row) => buys /\ row.shelf = z.shelf /\ row.origin = origin
  BY DEF row, IsBuy, Buy, Hold
<1>4. TypeOK'
  BY <1>1 DEF IInv, TypeOK
<1>5. ASSUME NEW q \in Runner PROVE ViewHeld(q)' /\ NoLaterRow(q)' /\ VerdictStands(q)'
  <2>1. q = p /\ pc'[p] = "insert"
    BY <1>1 DEF Sequential, IInv, TypeOK
  <2>2. ViewHeld(q)' /\ NoLaterRow(q)'
    BY <1>1, <1>2, <2>1 DEF IInv, ViewHeld, NoLaterRow
  <2>3. VerdictStands(q)'
    BY <1>1, <1>2, <1>3, <2>1 DEF VerdictStands, RecentBuy, SetupBuy, Bought, IsBuy
  <2> QED BY <2>2, <2>3
<1> QED BY <1>1, <1>4, <1>5, RecordStep DEF IInv, TypeOK

\* The new row is the newest, and it was looked up against all the others.
LEMMA InsertPreserves == ASSUME IInv, Sequential, NEW p \in Runner, Insert(p) PROVE IInv'
<1> DEFINE v == view[p]
           t == v.trigger
<1>1. /\ pc[p] = "insert" /\ candles' = candles
      /\ rows' = [rows EXCEPT ![v.mode][t] = v.row]
      /\ pc' \in {[pc EXCEPT ![p] = "execute"], [pc EXCEPT ![p] = "idle"]}
      /\ view' \in {view, [view EXCEPT ![p] = None]}
      /\ pc' = [pc EXCEPT ![p] = "execute"] => view' = view
  BY DEF Insert, Exit, IInv, TypeOK
<1>2. v.mode \in Mode /\ t \in Hour /\ t <= Len(candles) /\ Len(candles) \in Nat
  BY <1>1 DEF IInv, TypeOK, ViewHeld
<1>3. \A m \in Mode, h \in Hour :
        rows'[m][h] = IF m = v.mode /\ h = t THEN v.row ELSE rows[m][h]
  BY <1>1, <1>2 DEF IInv, TypeOK
<1>4. \A m \in Mode, h \in Hour : h > t => ~IsBuy(rows'[m][h])
  BY <1>1, <1>2, <1>3 DEF IInv, NoLaterRow, IsBuy
<1>5. ASSUME IsBuy(v.row), NEW m \in Mode, NEW h \in Hour, h < t, IsBuy(rows[m][h]),
             rows[m][h].shelf = v.row.shelf
      PROVE  rows[m][h].origin # v.row.origin /\ t - h >= Cooldown
  <2>1. h <= t - Cooldown \/ ~Bought(v.row.shelf, h)
    BY <1>1, <1>2, <1>5 DEF IInv, VerdictStands, RecentBuy
  <2>2. rows[m][h].origin # v.row.origin
    BY <1>1, <1>2, <1>5 DEF IInv, VerdictStands, SetupBuy
  <2> QED BY <1>2, <1>5, <2>1, <2>2 DEF Bought
<1>6. ASSUME NEW m \in Mode, NEW n \in Mode, NEW g \in Hour, NEW h \in Hour, g < h, SameShelf(m, g, n, h)'
      PROVE  rows'[m][g].origin # rows'[n][h].origin /\ h - g >= Cooldown
  <2>1. rows'[m][g] = rows[m][g]
    <3>1. IsBuy(rows'[n][h])
      BY <1>6 DEF SameShelf, IsBuy
    <3>2. ~(h > t)
      BY <1>4, <3>1
    <3>3. g # t
      BY <1>2, <1>6, <3>2 DEF Hour
    <3> QED BY <1>3, <3>3
  <2>2. CASE n = v.mode /\ h = t
    <3>1. rows'[n][h] = v.row
      BY <1>3, <2>2
    <3>2. IsBuy(v.row) /\ IsBuy(rows[m][g]) /\ rows[m][g].shelf = v.row.shelf
      BY <1>6, <2>1, <3>1 DEF SameShelf, IsBuy
    <3>3. rows[m][g].origin # v.row.origin /\ t - g >= Cooldown
      BY <1>5, <1>6, <2>2, <3>2
    <3> QED BY <2>1, <2>2, <3>1, <3>3
  <2>3. CASE rows'[n][h] = rows[n][h]
    BY <1>6, <2>1, <2>3 DEF IInv, OneBuyPerSetup, CooldownKept, SameShelf, IsBuy
  <2> QED BY <1>3, <2>2, <2>3
<1>7. OneBuyPerSetup' /\ CooldownKept'
  BY <1>6 DEF OneBuyPerSetup, CooldownKept
<1>8. TypeOK'
  BY <1>1, <1>2 DEF IInv, TypeOK
<1>9. RowsAreOfClosedHours'
  BY <1>1, <1>2, <1>3 DEF IInv, RowsAreOfClosedHours
<1>10. ASSUME NEW q \in Runner PROVE ViewHeld(q)' /\ NoLaterRow(q)' /\ VerdictStands(q)'
  <2>1. q = p /\ pc'[p] \in {"execute", "idle"}
    BY <1>1 DEF Sequential, IInv, TypeOK
  <2>2. pc'[p] = "execute" => view'[p] = view[p]
    BY <1>1 DEF IInv, TypeOK
  <2> QED BY <1>1, <2>1, <2>2 DEF IInv, ViewHeld, NoLaterRow, VerdictStands
<1> QED BY <1>7, <1>8, <1>9, <1>10 DEF IInv

\* A cycle that is over holds nothing.
LEMMA ExitPreserves == ASSUME IInv, Sequential, NEW p \in Runner, Execute(p) \/ Stop(p) PROVE IInv'
<1>1. /\ pc' = [pc EXCEPT ![p] = "idle"] /\ view' = [view EXCEPT ![p] = None]
      /\ UNCHANGED <<candles, rows>>
  BY DEF Execute, Stop, Exit
<1>2. TypeOK'
  BY <1>1 DEF IInv, TypeOK
<1>3. ASSUME NEW q \in Runner PROVE ViewHeld(q)' /\ NoLaterRow(q)' /\ VerdictStands(q)'
  BY <1>1 DEF Sequential, IInv, TypeOK, ViewHeld, NoLaterRow, VerdictStands
<1> QED BY <1>1, <1>2, <1>3, RecordStep DEF IInv, TypeOK

\* Nothing changes.
LEMMA StutterPreserves == ASSUME IInv, UNCHANGED vars PROVE IInv'
<1>1. UNCHANGED <<pc, view, candles, rows>>
  BY DEF vars
<1>2. TypeOK'
  BY <1>1 DEF IInv, TypeOK
<1>3. ASSUME NEW p \in Runner PROVE ViewHeld(p)' /\ NoLaterRow(p)' /\ VerdictStands(p)'
  BY <1>1 DEF IInv, ViewHeld, NoLaterRow, VerdictStands, RecentBuy, SetupBuy, Bought, IsBuy
<1> QED BY <1>1, <1>2, <1>3, RecordStep DEF IInv, TypeOK

\* The record and what the running cycle knows of it agree for ever.
THEOREM InductiveInvariant == ASSUME Sequential PROVE Spec => []IInv
<1>1. Init => IInv
  BY InitIInv
<1>2. IInv /\ [Next]_vars => IInv'
  BY CloseHourPreserves, LoadPreserves, EvaluatePreserves, InsertPreserves, ExitPreserves,
     StutterPreserves DEF Next
<1> QED BY <1>1, <1>2, PTL DEF Spec

\* A setup is bought once.
THEOREM SetupOnce == ASSUME Sequential PROVE Spec => []OneBuyPerSetup
<1>1. IInv => OneBuyPerSetup
  BY DEF IInv
<1> QED BY <1>1, InductiveInvariant, PTL

\* A shelf is not bought again within the cooldown.
THEOREM Cooldown24 == ASSUME Sequential PROVE Spec => []CooldownKept
<1>1. IInv => CooldownKept
  BY DEF IInv
<1> QED BY <1>1, InductiveInvariant, PTL

(***************************************************************************)
(* The first fall, for any number of cycles at once.                       *)
(***************************************************************************)
\* A close that is not above the shelf but inside it is not below it either.
LEMMA DipsFromAbove ==
  ASSUME NEW ladder \in Ladder, NEW cs \in Seq(Candle), NEW t \in 1 .. Len(cs), Dips(cs, ladder, 1, t)
  PROVE  t > 1 /\ cs[t - 1].close >= Selected(ladder, cs[t].close).low
<1> DEFINE z == Selected(ladder, cs[t].close)
<1>1. Laddered(ladder)
  BY LadderAssumption, FiniteLadder
<1>2. \A h \in 1 .. Len(cs) : cs[h].close \in Int
  <2>1. \A h \in 1 .. Len(cs) : cs[h] \in Candle
    OBVIOUS
  <2> QED BY <2>1, CandleAssumption
<1>3. z \in ladder
  BY <1>1, <1>2, SelectedIsOfLadder DEF Dips
<1>4. z.low \in Int /\ z.high \in Int /\ z.low < z.high
  BY <1>3, LadderAssumption
<1>5. PICK h \in 1 .. t - 1 :
        /\ cs[h].close > z.high
        /\ \A k \in h + 1 .. t - 1 : z.low <= cs[k].close /\ cs[k].close <= z.high
  BY DEF Dips, FromAbove
<1> HIDE DEF z
<1>6. t > 1 /\ t - 1 \in 1 .. Len(cs) /\ Len(cs) \in Nat
  BY <1>5
<1>7. cs[t - 1].close >= z.low
  <2>1. CASE h = t - 1
    <3>1. cs[t - 1].close > z.high /\ cs[t - 1].close \in Int
      BY <1>2, <1>5, <1>6, <2>1
    <3> QED BY <1>4, <3>1
  <2>2. CASE h # t - 1
    <3>1. t - 1 \in h + 1 .. t - 1
      BY <1>6, <2>2
    <3>2. z.low <= cs[t - 1].close
      BY <1>5, <3>1
    <3> QED BY <1>2, <1>4, <1>6, <3>2
  <2> QED BY <2>1, <2>2
<1> QED BY <1>6, <1>7 DEF z

LEMMA InitFall == Init => FallInv
BY DEF Init, FallInv, TypeOK, RowsAreOfClosedHours, ViewHeld, CameFromAbove, IsBuy

\* Steps that add no row and hold no new verdict.
LEMMA FallKept ==
  ASSUME FallInv, UNCHANGED rows, TypeOK', Len(candles') >= Len(candles),
         \A k \in 1 .. Len(candles) : candles'[k] = candles[k],
         asOf' \in Nat, asOf' >= 1 => zones' \in Ladder,
         \A p \in Runner : ViewHeld(p)' /\ (pc'[p] # "idle" => view'[p].zones \in Ladder),
         \A p \in Runner : pc'[p] = "insert" =>
           pc[p] = "insert" /\ view'[p].row = view[p].row /\ view'[p].trigger = view[p].trigger
  PROVE  FallInv'
<1>1. Len(candles) \in Nat /\ Len(candles') \in Nat
  BY DEF FallInv, TypeOK
<1>2. RowsAreOfClosedHours'
  BY <1>1 DEF FallInv, RowsAreOfClosedHours
<1>3. ASSUME NEW row, NEW h \in 1 .. Len(candles), CameFromAbove(row, h) PROVE CameFromAbove(row, h)'
  BY <1>1, <1>3 DEF CameFromAbove, IsBuy
<1>4. ASSUME NEW m \in Mode, NEW h \in Hour PROVE CameFromAbove(rows[m][h], h)'
  <2>1. CASE rows[m][h] = None
    BY <2>1 DEF CameFromAbove, IsBuy
  <2>2. CASE rows[m][h] # None
    BY <1>1, <1>3, <2>2 DEF FallInv, RowsAreOfClosedHours
  <2> QED BY <2>1, <2>2
<1>5. ASSUME NEW p \in Runner, pc'[p] = "insert" PROVE CameFromAbove(view[p].row, view[p].trigger)'
  <2>1. /\ pc[p] = "insert" /\ view'[p].row = view[p].row /\ view'[p].trigger = view[p].trigger
        /\ view[p].trigger \in 1 .. Len(candles) /\ CameFromAbove(view[p].row, view[p].trigger)
    BY <1>5 DEF FallInv, ViewHeld
  <2>2. PICK row, h : row = view[p].row /\ h = view[p].trigger
    OBVIOUS
  <2>3. CameFromAbove(row, h)'
    BY <1>3, <2>1, <2>2
  <2>4. row = view'[p].row /\ h = view'[p].trigger
    BY <2>1, <2>2
  <2> QED BY <2>3, <2>4 DEF CameFromAbove, IsBuy
<1> QED BY <1>2, <1>4, <1>5 DEF FallInv

LEMMA CloseHourFall == ASSUME FallInv, CloseHour PROVE FallInv'
<1>1. PICK c \in Candle : candles' = Append(candles, c)
  BY DEF CloseHour
<1>2. /\ candles' \in Seq(Candle) /\ Len(candles') = Len(candles) + 1 /\ Len(candles) \in Nat
      /\ \A k \in 1 .. Len(candles) : candles'[k] = candles[k]
  BY <1>1 DEF FallInv, TypeOK
<1>3. UNCHANGED <<pc, view, asOf, zones, rows>> /\ Len(candles) < MaxHour
  BY DEF CloseHour
<1>4. TypeOK'
  BY <1>2, <1>3 DEF FallInv, TypeOK
<1>5. \A p \in Runner : ViewHeld(p)' /\ (pc'[p] # "idle" => view'[p].zones \in Ladder)
  BY <1>2, <1>3 DEF FallInv, ViewHeld
<1> QED BY <1>2, <1>3, <1>4, <1>5, FallKept DEF FallInv

LEMMA LoadFall == ASSUME FallInv, NEW p \in Runner, Load(p) PROVE FallInv'
<1>1. Len(candles) \in Nat /\ HoursPerBar \in Nat \ {0} /\ DOMAIN view = Runner
  BY DEF FallInv, TypeOK
<1>2. PICK bar \in {Len(candles) \div HoursPerBar, (Len(candles) - 1) \div HoursPerBar}, m \in Mode :
        /\ bar >= 1 /\ asOf' = bar /\ zones' \in IF bar = asOf THEN {zones} ELSE Ladder
        /\ view' = [view EXCEPT ![p] = [mode |-> m, trigger |-> Len(candles), asOf |-> bar,
                                        zones |-> zones', row |-> None]]
  BY DEF Load
<1>3. pc' = [pc EXCEPT ![p] = "evaluate"] /\ UNCHANGED <<candles, rows>>
  BY DEF Load
<1>4. bar \in Nat /\ Len(candles) >= 1
  <2>1. 0 \div HoursPerBar = 0 /\ (0 - 1) \div HoursPerBar < 0
    BY <1>1
  <2> QED BY <1>1, <1>2, <2>1
<1>5. asOf' \in Nat /\ zones' \in Ladder
  BY <1>2, <1>4 DEF FallInv
<1>6. TypeOK'
  BY <1>2, <1>3 DEF FallInv, TypeOK
<1>7. ASSUME NEW q \in Runner
      PROVE  /\ ViewHeld(q)' /\ (pc'[q] # "idle" => view'[q].zones \in Ladder)
             /\ pc'[q] = "insert" => pc[q] = "insert" /\ view'[q] = view[q]
  <2>1. CASE q = p
    <3>1. /\ pc'[q] = "evaluate"
          /\ view'[q] = [mode |-> m, trigger |-> Len(candles), asOf |-> bar, zones |-> zones', row |-> None]
      BY <1>1, <1>2, <1>3, <2>1 DEF FallInv, TypeOK
    <3> QED BY <1>1, <1>3, <1>4, <1>5, <3>1 DEF ViewHeld
  <2>2. CASE q # p
    BY <1>1, <1>2, <1>3, <2>2 DEF FallInv, TypeOK, ViewHeld
  <2> QED BY <2>1, <2>2
<1> QED BY <1>1, <1>3, <1>5, <1>6, <1>7, FallKept DEF FallInv

\* The verdict of the cycle, on candles that no later hour changes.
LEMMA EvaluateFall == ASSUME FallInv, NEW p \in Runner, Evaluate(p) PROVE FallInv'
<1> DEFINE v == view[p]
           t == v.trigger
           z == Selected(v.zones, candles[t].close)
           row == view'[p].row
<1>1. /\ pc[p] = "evaluate" /\ pc' = [pc EXCEPT ![p] = "insert"]
      /\ UNCHANGED <<candles, asOf, zones, rows>>
  BY DEF Evaluate
<1>2. /\ v.zones \in Ladder /\ t \in 1 .. Len(candles) /\ candles \in Seq(Candle)
      /\ DOMAIN view = Runner /\ ViewHeld(p)
  BY <1>1 DEF FallInv, ViewHeld, TypeOK
<1>3. PICK r : view' = [view EXCEPT ![p].row = r] /\ (IsBuy(r) => Dips(candles, v.zones, 1, t) /\ r.low = z.low)
  <2> DEFINE origin == DipOrigin(candles, v.zones, z, 1, t)
             buys == Dips(candles, v.zones, 1, t) /\ ~RecentBuy(z.shelf, t) /\ ~SetupBuy(z.shelf, origin, t)
             r == IF buys THEN Buy(v.asOf, z, origin) ELSE Hold(v.asOf)
  <2>1. view' = [view EXCEPT ![p].row = r]
    BY DEF Evaluate
  <2>2. IsBuy(r) => buys /\ r.low = z.low
    BY DEF IsBuy, Buy, Hold
  <2> QED BY <2>1, <2>2
<1>4. /\ row = r /\ view'[p].trigger = t /\ view'[p].zones = v.zones /\ view'[p].mode = v.mode
      /\ DOMAIN view'[p] = DOMAIN v /\ DOMAIN view' = Runner
      /\ \A q \in Runner \ {p} : view'[q] = view[q]
  BY <1>1, <1>2, <1>3 DEF ViewHeld
<1>5. CameFromAbove(r, t)
  BY <1>2, <1>3, DipsFromAbove DEF CameFromAbove
<1>6. TypeOK'
  BY <1>1, <1>4 DEF FallInv, TypeOK
<1>7. ASSUME NEW q \in Runner
      PROVE  /\ ViewHeld(q)' /\ (pc'[q] # "idle" => view'[q].zones \in Ladder)
             /\ pc'[q] = "insert" => CameFromAbove(view[q].row, view[q].trigger)'
  <2>1. CASE q = p
    <3>1. ViewHeld(q)' /\ view'[q].zones \in Ladder
      BY <1>1, <1>2, <1>4, <2>1 DEF ViewHeld
    <3>2. CameFromAbove(view[q].row, view[q].trigger)'
      BY <1>1, <1>4, <1>5, <2>1 DEF CameFromAbove, IsBuy
    <3> QED BY <3>1, <3>2
  <2>2. CASE q # p
    BY <1>1, <1>4, <2>2 DEF FallInv, TypeOK, ViewHeld, CameFromAbove, IsBuy
  <2> QED BY <2>1, <2>2
<1>8. \A m \in Mode, h \in Hour : CameFromAbove(rows[m][h], h)'
  BY <1>1 DEF FallInv, CameFromAbove, IsBuy
<1>9. RowsAreOfClosedHours'
  BY <1>1 DEF FallInv, RowsAreOfClosedHours
<1> QED BY <1>1, <1>6, <1>7, <1>8, <1>9 DEF FallInv

LEMMA InsertFall == ASSUME FallInv, NEW p \in Runner, Insert(p) PROVE FallInv'
<1> DEFINE v == view[p]
           t == v.trigger
<1>1. /\ pc[p] = "insert" /\ UNCHANGED <<candles, asOf, zones>>
      /\ rows' = [rows EXCEPT ![v.mode][t] = v.row]
      /\ \/ pc' = [pc EXCEPT ![p] = "execute"] /\ UNCHANGED view
         \/ pc' = [pc EXCEPT ![p] = "idle"] /\ view' = [view EXCEPT ![p] = None]
  BY DEF Insert, Exit
<1>2. /\ v.mode \in Mode /\ t \in Hour /\ t <= Len(candles) /\ Len(candles) \in Nat
      /\ CameFromAbove(v.row, t)
  BY <1>1 DEF FallInv, TypeOK, ViewHeld
<1>3. \A m \in Mode, h \in Hour :
        rows'[m][h] = IF m = v.mode /\ h = t THEN v.row ELSE rows[m][h]
  BY <1>1, <1>2 DEF FallInv, TypeOK
<1>4. TypeOK'
  BY <1>1, <1>2 DEF FallInv, TypeOK
<1>5. RowsAreOfClosedHours'
  BY <1>1, <1>2, <1>3 DEF FallInv, RowsAreOfClosedHours
<1>6. ASSUME NEW m \in Mode, NEW h \in Hour PROVE CameFromAbove(rows[m][h], h)'
  <2>1. CameFromAbove(rows'[m][h], h)
    BY <1>2, <1>3 DEF FallInv
  <2> QED BY <1>1, <2>1 DEF CameFromAbove, IsBuy
<1>7. ASSUME NEW q \in Runner
      PROVE  /\ ViewHeld(q)' /\ (pc'[q] # "idle" => view'[q].zones \in Ladder)
             /\ pc'[q] = "insert" => CameFromAbove(view[q].row, view[q].trigger)'
  BY <1>1 DEF FallInv, TypeOK, ViewHeld, CameFromAbove, IsBuy
<1> QED BY <1>1, <1>4, <1>5, <1>6, <1>7 DEF FallInv

LEMMA ExitFall == ASSUME FallInv, NEW p \in Runner, Execute(p) \/ Stop(p) PROVE FallInv'
<1>1. /\ pc' = [pc EXCEPT ![p] = "idle"] /\ view' = [view EXCEPT ![p] = None]
      /\ UNCHANGED <<candles, asOf, zones, rows>>
  BY DEF Execute, Stop, Exit
<1>2. TypeOK'
  BY <1>1 DEF FallInv, TypeOK
<1>3. ASSUME NEW q \in Runner
      PROVE  /\ ViewHeld(q)' /\ (pc'[q] # "idle" => view'[q].zones \in Ladder)
             /\ pc'[q] = "insert" => pc[q] = "insert" /\ view'[q] = view[q]
  BY <1>1 DEF FallInv, TypeOK, ViewHeld
<1> QED BY <1>1, <1>2, <1>3, FallKept DEF FallInv, TypeOK

LEMMA StutterFall == ASSUME FallInv, UNCHANGED vars PROVE FallInv'
<1>1. UNCHANGED <<pc, view, candles, asOf, zones, rows>>
  BY DEF vars
<1>2. TypeOK' /\ \A p \in Runner : ViewHeld(p)'
  BY <1>1 DEF FallInv, TypeOK, ViewHeld
<1> QED BY <1>1, <1>2, FallKept DEF FallInv, TypeOK

LEMMA FallInvariance == Spec => []FallInv
<1>1. FallInv /\ [Next]_vars => FallInv'
  BY CloseHourFall, LoadFall, EvaluateFall, InsertFall, ExitFall, StutterFall DEF Next
<1> QED BY InitFall, <1>1, PTL DEF Spec

\* The tables keep their shape, however many cycles run at once.
THEOREM TypeCorrectness == Spec => []TypeOK
<1>1. FallInv => TypeOK
  BY DEF FallInv
<1> QED BY <1>1, FallInvariance, PTL

\* A BUY below its shelf is taken in the first hour that closes there, however
\* many cycles run at once and on whatever finite ladders: the hour before had
\* not closed below the shelf.
THEOREM BoughtInTheFirstFall == Spec => []FirstFallOnly
<1>1. FallInv => FirstFallOnly
  BY DEF FallInv, FirstFallOnly, CameFromAbove
<1> QED BY <1>1, FallInvariance, PTL

(***************************************************************************)
(* Reruns.  What the hour h decides is a function of the zone set of the   *)
(* watermark and of the rows before h, and neither moves under it: the     *)
(* rows before the trigger of a cycle are never written again.             *)
(***************************************************************************)
Verdict(h) ==
  LET z == Selected(zones, candles[h].close)
      origin == DipOrigin(candles, zones, z, 1, h)
  IN IF Dips(candles, zones, 1, h) /\ ~RecentBuy(z.shelf, h) /\ ~SetupBuy(z.shelf, origin, h)
       THEN Buy(asOf, z, origin) ELSE Hold(asOf)

RowsFollow ==
  \A m \in Mode, h \in Hour :
    rows[m][h] # None =>
      /\ rows[m][h].asOf \in Int /\ rows[m][h].asOf <= asOf
      /\ rows[m][h].asOf = asOf => rows[m][h] = Verdict(h)

ViewFollows(p) ==
  /\ pc[p] # "idle" => view[p].asOf = asOf /\ view[p].zones = zones
  /\ pc[p] = "insert" => \A t \in Hour : t = view[p].trigger => view[p].row = Verdict(t)

Follows == asOf \in Int /\ RowsFollow /\ \A p \in Runner : ViewFollows(p)

\* The strategy looks at nothing after the trigger.
LEMMA StrategyKept ==
  ASSUME NEW cs, NEW ds, NEW ladder, NEW t \in Nat, \A k \in 1 .. t : ds[k] = cs[k], t >= 1
  PROVE  /\ Dips(ds, ladder, 1, t) <=> Dips(cs, ladder, 1, t)
         /\ \A z : DipOrigin(ds, ladder, z, 1, t) = DipOrigin(cs, ladder, z, 1, t)
<1>1. ds[t] = cs[t] /\ \A k \in 1 .. t - 1 : ds[k] = cs[k]
  OBVIOUS
<1>2. ASSUME NEW z PROVE Origins(ds, ladder, z, 1, t) = Origins(cs, ladder, z, 1, t)
  BY <1>1 DEF Origins
<1>3. ASSUME NEW z PROVE FromAbove(ds, z, 1, t) <=> FromAbove(cs, z, 1, t)
  BY <1>1 DEF FromAbove
<1> QED BY <1>1, <1>2, <1>3 DEF Dips, DipOrigin

LEMMA VerdictKept ==
  ASSUME NEW h \in Hour, UNCHANGED <<asOf, zones>>, \A k \in 1 .. h : candles'[k] = candles[k],
         \A m \in Mode, k \in Hour : k < h => rows'[m][k] = rows[m][k]
  PROVE  Verdict(h)' = Verdict(h)
<1>1. candles'[h] = candles[h]
  OBVIOUS
<1>2. /\ Dips(candles', zones, 1, h) <=> Dips(candles, zones, 1, h)
      /\ \A z : DipOrigin(candles', zones, z, 1, h) = DipOrigin(candles, zones, z, 1, h)
  BY StrategyKept
<1>3. ASSUME NEW shelf, NEW origin
      PROVE  /\ RecentBuy(shelf, h)' <=> RecentBuy(shelf, h)
             /\ SetupBuy(shelf, origin, h)' <=> SetupBuy(shelf, origin, h)
  BY DEF RecentBuy, SetupBuy, Bought, IsBuy
<1> DEFINE z == Selected(zones, candles[h].close)
           origin == DipOrigin(candles, zones, z, 1, h)
<1>4. /\ z' = z /\ origin' = origin
      /\ Dips(candles, zones, 1, h)' <=> Dips(candles, zones, 1, h)
  BY <1>1, <1>2
<1> QED BY <1>1, <1>2, <1>3 DEF Verdict, Buy, Hold

\* Steps that write no row and leave the zone set alone.
LEMMA FollowsKept ==
  ASSUME IInv, Follows, UNCHANGED <<rows, asOf, zones>>,
         \A k \in 1 .. Len(candles) : candles'[k] = candles[k]
  PROVE  /\ asOf' \in Int /\ RowsFollow'
         /\ \A h \in Hour : h <= Len(candles) => Verdict(h)' = Verdict(h)
<1>1. ASSUME NEW h \in Hour, h <= Len(candles) PROVE Verdict(h)' = Verdict(h)
  <2>1. Len(candles) \in Nat
    BY DEF IInv, TypeOK
  <2>2. \A k \in 1 .. h : candles'[k] = candles[k]
    BY <1>1, <2>1
  <2> QED BY <2>2, VerdictKept
<1>2. ASSUME NEW m \in Mode, NEW h \in Hour, rows[m][h] # None PROVE Verdict(h)' = Verdict(h)
  BY <1>1, <1>2 DEF IInv, RowsAreOfClosedHours
<1>3. RowsFollow'
  BY <1>2 DEF Follows, RowsFollow
<1> QED BY <1>1, <1>3 DEF Follows

LEMMA CloseHourFollows == ASSUME IInv, Follows, CloseHour PROVE Follows'
<1>1. /\ UNCHANGED <<pc, view, rows, asOf, zones>> /\ Len(candles) \in Nat
      /\ \A k \in 1 .. Len(candles) : candles'[k] = candles[k]
  BY DEF CloseHour, IInv, TypeOK
<1>2. ASSUME NEW p \in Runner, pc[p] = "insert", NEW t \in Hour, t = view[p].trigger
      PROVE  view[p].row = Verdict(t)'
  <2>1. t <= Len(candles)
    BY <1>1, <1>2 DEF IInv, ViewHeld
  <2>2. Verdict(t)' = Verdict(t)
    BY <1>1, <2>1, FollowsKept
  <2> QED BY <1>2, <2>2 DEF Follows, ViewFollows
<1> QED BY <1>1, <1>2, FollowsKept DEF Follows, ViewFollows

\* A newer zone set leaves every row behind; the same one confirms them.
LEMMA LoadFollows == ASSUME IInv, Follows, Sequential, NEW p \in Runner, Load(p) PROVE Follows'
<1>1. /\ pc' = [pc EXCEPT ![p] = "evaluate"] /\ UNCHANGED <<candles, rows>>
      /\ asOf' >= asOf /\ asOf' \in Int /\ (asOf' = asOf => zones' = zones)
      /\ view'[p].asOf = asOf' /\ view'[p].zones = zones'
  <2>1. Len(candles) \in Nat /\ HoursPerBar \in Nat \ {0} /\ DOMAIN view = Runner
    BY DEF IInv, TypeOK
  <2>2. PICK bar \in {Len(candles) \div HoursPerBar, (Len(candles) - 1) \div HoursPerBar}, m \in Mode :
          /\ bar >= asOf /\ asOf' = bar /\ (bar = asOf => zones' = zones)
          /\ view' = [view EXCEPT ![p] = [mode |-> m, trigger |-> Len(candles), asOf |-> bar,
                                          zones |-> zones', row |-> None]]
    BY DEF Load
  <2>3. bar \in Int
    BY <2>1
  <2> QED BY <2>1, <2>2, <2>3 DEF Load
<1>2. ASSUME NEW q \in Runner PROVE ViewFollows(q)'
  <2>1. q = p /\ pc'[p] = "evaluate"
    BY <1>1 DEF Sequential, IInv, TypeOK
  <2> QED BY <1>1, <2>1 DEF ViewFollows
<1>3. ASSUME NEW m \in Mode, NEW h \in Hour, rows[m][h] # None
      PROVE  /\ rows[m][h].asOf \in Int /\ rows[m][h].asOf <= asOf'
             /\ rows[m][h].asOf = asOf' => rows[m][h] = Verdict(h)'
  <2>1. /\ rows[m][h].asOf \in Int /\ rows[m][h].asOf <= asOf /\ asOf \in Int
        /\ rows[m][h].asOf = asOf => rows[m][h] = Verdict(h)
    BY <1>3 DEF Follows, RowsFollow
  <2>2. CASE asOf' = asOf
    <3>1. Verdict(h)' = Verdict(h)
      BY <1>1, <2>2, VerdictKept
    <3> QED BY <2>1, <2>2, <3>1
  <2>3. CASE asOf' # asOf
    BY <1>1, <2>1, <2>3
  <2> QED BY <2>2, <2>3
<1> QED BY <1>1, <1>2, <1>3 DEF Follows, RowsFollow

LEMMA EvaluateFollows == ASSUME IInv, Follows, Sequential, NEW p \in Runner, Evaluate(p) PROVE Follows'
<1>1. /\ pc[p] = "evaluate" /\ pc' = [pc EXCEPT ![p] = "insert"]
      /\ UNCHANGED <<candles, rows, asOf, zones>>
  BY DEF Evaluate
<1>2. view[p].asOf = asOf /\ view[p].zones = zones /\ view[p].trigger \in 1 .. Len(candles)
      /\ DOMAIN view[p] = {"mode", "trigger", "asOf", "zones", "row"}
      /\ DOMAIN view = Runner /\ Len(candles) \in Nat
  BY <1>1 DEF Follows, ViewFollows, IInv, ViewHeld, TypeOK
<1>3. PICK t : t = view[p].trigger
  OBVIOUS
<1>4. view' = [view EXCEPT ![p].row = Verdict(t)]
  BY <1>2, <1>3 DEF Evaluate, Verdict
<1>5. /\ view'[p].row = Verdict(t) /\ view'[p].trigger = t /\ view'[p].asOf = asOf /\ view'[p].zones = zones
  BY <1>2, <1>3, <1>4
<1>6. t \in 1 .. Len(candles) /\ Verdict(t)' = Verdict(t)
  <2>1. t \in Hour /\ t <= Len(candles)
    BY <1>2, <1>3 DEF IInv, TypeOK
  <2> QED BY <1>1, <2>1, <1>2, FollowsKept
<1>7. ASSUME NEW q \in Runner PROVE ViewFollows(q)'
  <2>1. q = p
    BY DEF Sequential
  <2> QED BY <1>1, <1>5, <1>6, <2>1 DEF ViewFollows
<1> QED BY <1>1, <1>7, FollowsKept DEF Follows

\* The row that is written is the verdict, which reads none of the rows it may replace.
LEMMA InsertFollows ==
  ASSUME IInv, Follows, Sequential, NEW p \in Runner, Insert(p)
  PROVE  /\ Follows'
         /\ \A m \in Mode, h \in Hour :
              rows[m][h] # None /\ rows'[m][h] # rows[m][h] => rows'[m][h].asOf > rows[m][h].asOf
<1>1. PICK t \in Hour, m \in Mode : t = view[p].trigger /\ m = view[p].mode /\ pc[p] = "insert"
  BY DEF Insert, IInv, ViewHeld, TypeOK
<1>2. view[p].row = Verdict(t) /\ asOf \in Int
  BY <1>1 DEF Follows, ViewFollows
<1>3. /\ UNCHANGED <<candles, asOf, zones>>
      /\ rows' = [rows EXCEPT ![m][t] = Verdict(t)]
  BY <1>1, <1>2 DEF Insert
<1>4. \A n \in Mode, h \in Hour : rows'[n][h] = IF n = m /\ h = t THEN Verdict(t) ELSE rows[n][h]
  BY <1>3 DEF IInv, TypeOK
<1>5. ASSUME NEW h \in Hour, h <= t PROVE Verdict(h)' = Verdict(h)
  <2>1. \A n \in Mode, k \in Hour : k < h => rows'[n][k] = rows[n][k]
    BY <1>4, <1>5
  <2> QED BY <1>3, <2>1, VerdictKept
<1>6. ASSUME NEW n \in Mode, NEW h \in Hour, rows[n][h] # None PROVE h <= t
  BY <1>1, <1>6 DEF IInv, NoLaterRow
<1>7. Verdict(t).asOf = asOf
  BY DEF Verdict, Buy, Hold
<1>8. RowsFollow'
  <2>1. ASSUME NEW n \in Mode, NEW h \in Hour, rows'[n][h] # None
        PROVE  /\ rows'[n][h].asOf \in Int /\ rows'[n][h].asOf <= asOf
               /\ rows'[n][h].asOf = asOf => rows'[n][h] = Verdict(h)'
    <3>1. CASE n = m /\ h = t
      BY <1>2, <1>4, <1>5, <1>7, <3>1
    <3>2. CASE ~(n = m /\ h = t)
      <4>1. rows'[n][h] = rows[n][h] /\ Verdict(h)' = Verdict(h)
        BY <1>4, <1>5, <1>6, <2>1, <3>2
      <4> QED BY <2>1, <4>1 DEF Follows, RowsFollow
    <3> QED BY <3>1, <3>2
  <2> QED BY <1>3, <2>1 DEF RowsFollow
<1>9. ASSUME NEW q \in Runner PROVE ViewFollows(q)'
  <2>1. q = p /\ (pc'[p] = "idle" \/ (pc'[p] = "execute" /\ view' = view))
    BY DEF Insert, Exit, Sequential, IInv, TypeOK
  <2> QED BY <1>1, <1>3, <2>1 DEF Follows, ViewFollows
<1>10. ASSUME NEW n \in Mode, NEW h \in Hour, rows[n][h] # None, rows'[n][h] # rows[n][h]
       PROVE  rows'[n][h].asOf > rows[n][h].asOf
  <2>1. n = m /\ h = t /\ rows'[n][h] = Verdict(t)
    BY <1>4, <1>10
  <2>2. rows[n][h].asOf \in Int /\ rows[n][h].asOf <= asOf /\ rows[n][h].asOf # asOf
    BY <1>10, <2>1 DEF Follows, RowsFollow
  <2> QED BY <1>2, <1>7, <2>1, <2>2
<1> QED BY <1>3, <1>8, <1>9, <1>10, <1>2 DEF Follows

LEMMA ExitFollows == ASSUME IInv, Follows, Sequential, NEW p \in Runner, Execute(p) \/ Stop(p) PROVE Follows'
<1>1. pc' = [pc EXCEPT ![p] = "idle"] /\ UNCHANGED <<candles, rows, asOf, zones>>
  BY DEF Execute, Stop, Exit
<1>2. ASSUME NEW q \in Runner PROVE ViewFollows(q)'
  BY <1>1 DEF Sequential, IInv, TypeOK, ViewFollows
<1> QED BY <1>1, <1>2, FollowsKept DEF Follows

LEMMA StutterFollows == ASSUME IInv, Follows, UNCHANGED vars PROVE Follows'
<1>1. UNCHANGED <<pc, view, candles, rows, asOf, zones>>
  BY DEF vars
<1>2. ASSUME NEW h \in Hour PROVE Verdict(h)' = Verdict(h)
  BY <1>1, VerdictKept
<1> QED BY <1>1, <1>2 DEF Follows, RowsFollow, ViewFollows

\* A rerun decides as before unless it saw a newer zone set: for all candles,
\* ladders and cooldowns, with cycles one after the other.
THEOREM RerunDecidesTheSame == ASSUME Sequential PROVE Spec => RerunAgrees
<1>1. Init => Follows
  BY DEF Init, Follows, RowsFollow, ViewFollows
<1>2. IInv /\ Follows /\ [Next]_vars => Follows'
  BY CloseHourFollows, LoadFollows, EvaluateFollows, InsertFollows, ExitFollows,
     StutterFollows DEF Next
<1>3. IInv /\ Follows /\ [Next]_vars =>
        [\A m \in Mode, h \in Hour :
           rows[m][h] # None /\ rows'[m][h] # rows[m][h] => rows'[m][h].asOf > rows[m][h].asOf]_vars
  <2>1. ASSUME NEW p \in Runner, Load(p) \/ Evaluate(p) \/ Execute(p) \/ Stop(p) PROVE UNCHANGED rows
    BY <2>1 DEF Load, Evaluate, Execute, Stop
  <2>2. CASE CloseHour
    BY <2>2 DEF CloseHour
  <2> QED BY <2>1, <2>2, InsertFollows DEF Next
<1> QED BY <1>1, <1>2, <1>3, InductiveInvariant, PTL DEF Spec, RerunAgrees
=============================================================================
