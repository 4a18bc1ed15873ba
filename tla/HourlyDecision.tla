--------------------------- MODULE HourlyDecision ---------------------------
(***************************************************************************)
(* The hourly decision and its record (src/trading/runner.py, store.py):   *)
(* a cycle loads the closed candles and the zones of its 4h bar, asks the  *)
(* `decisions` table what was bought before, and upserts one row per mode  *)
(* and hour.  ZoneRefresh tells which zone set a cycle may load, and       *)
(* TradeExecution what becomes of a BUY.                                   *)
(***************************************************************************)
EXTENDS SupportClose, FiniteSets

CONSTANTS
  Runner, Mode,
  Candle,       \* records [open, close]
  Ladder,       \* zone sets: zones are records [shelf, low, high, source]
  HoursPerBar, Cooldown,
  MaxHour,      \* bound of the candles
  None

ASSUME HourAssumption == {HoursPerBar, Cooldown, MaxHour} \subseteq Nat \ {0}
ASSUME CandleAssumption == Candle \subseteq [open : Int, close : Int]
ASSUME LadderAssumption ==
  \A zones \in Ladder :
    /\ IsFiniteSet(zones)
    /\ \A z \in zones : z.low \in Int /\ z.high \in Int /\ z.low < z.high /\ z.source \in Nat
    /\ \A y, z \in zones : y # z => y.low # z.low /\ y.shelf # z.shelf

VARIABLES
  pc,       \* next statement of each runner
  view,     \* what its cycle holds in memory
  candles,  \* closed 1h candles
  asOf,     \* the zone watermark: how many bars had ended
  zones,    \* the zone set of the watermark
  rows,     \* table `decisions`, by mode and hour
  executed  \* table `trade_executions`: the BUY each decision executed

vars == <<pc, view, candles, asOf, zones, rows, executed>>

Hour == 1 .. MaxHour

Shelf == {z.shelf : z \in UNION Ladder}

Hold(bar) == [asOf |-> bar, shelf |-> None, origin |-> 0, low |-> 0]
Buy(bar, z, origin) == [asOf |-> bar, shelf |-> z.shelf, origin |-> origin, low |-> z.low]

IsBuy(row) == row # None /\ row.shelf # None

\* Buys of any mode at an hour before the trigger.
Bought(shelf, h) == \E m \in Mode : IsBuy(rows[m][h]) /\ rows[m][h].shelf = shelf

\* Seeded fault: the oldest hour of the window is left out.
RecentBuyShort(shelf, t) == \E h \in Hour : h > t - Cooldown + 1 /\ h < t /\ Bought(shelf, h)

RecentBuy(shelf, t) == \E h \in Hour : h > t - Cooldown /\ h < t /\ Bought(shelf, h)

\* Seeded fault: only the buys of the cooldown window are looked up.
SetupBuyRecent(shelf, origin, t) ==
  \E h \in Hour, m \in Mode :
    h > t - Cooldown /\ h < t /\ Bought(shelf, h) /\ rows[m][h].origin = origin

SetupBuy(shelf, origin, t) ==
  \E h \in Hour, m \in Mode :
    /\ h < t /\ IsBuy(rows[m][h])
    /\ rows[m][h].shelf = shelf /\ rows[m][h].origin = origin

Init ==
  /\ pc = [p \in Runner |-> "idle"]
  /\ view = [p \in Runner |-> None]
  /\ candles = <<>>
  /\ asOf = 0
  /\ zones = {}
  /\ rows = [m \in Mode |-> [h \in Hour |-> None]]
  /\ executed = [m \in Mode |-> [h \in Hour |-> None]]

Exit(p) == pc' = [pc EXCEPT ![p] = "idle"] /\ view' = [view EXCEPT ![p] = None]

\* An hour closes.
CloseHour ==
  /\ Len(candles) < MaxHour
  /\ \E c \in Candle : candles' = Append(candles, c)
  /\ UNCHANGED <<pc, view, asOf, zones, rows, executed>>

\* The bar is the last that had ended when the cycle read its clock, which
\* may be before the last hour closed; a bar behind the watermark is refused.
Load(p) ==
  LET ended == Len(candles) \div HoursPerBar IN
  /\ pc[p] = "idle"
  /\ \E bar \in {ended, (Len(candles) - 1) \div HoursPerBar}, m \in Mode :
       /\ bar >= 1 /\ bar >= asOf
       /\ asOf' = bar
       /\ zones' \in IF bar = asOf THEN {zones} ELSE Ladder
       /\ view' = [view EXCEPT ![p] =
            [mode |-> m, trigger |-> Len(candles), asOf |-> bar, zones |-> zones', row |-> None]]
  /\ pc' = [pc EXCEPT ![p] = "evaluate"]
  /\ UNCHANGED <<candles, rows, executed>>

\* Seeded fault: the buys of the trigger's own hour block too.
EvaluateOwnHour(p) ==
  LET v == view[p]  t == v.trigger
      z == Selected(v.zones, candles[t].close)
      origin == DipOrigin(candles, v.zones, z, 1, t)
      buys == /\ Dips(candles, v.zones, 1, t)
              /\ ~RecentBuy(z.shelf, t + 1) /\ ~SetupBuy(z.shelf, origin, t + 1)
  IN /\ pc[p] = "evaluate"
     /\ view' = [view EXCEPT ![p].row = IF buys THEN Buy(v.asOf, z, origin) ELSE Hold(v.asOf)]
     /\ pc' = [pc EXCEPT ![p] = "insert"]
     /\ UNCHANGED <<candles, asOf, zones, rows, executed>>

\* The gates; the two lookups are not in a transaction with the upsert.
Evaluate(p) ==
  LET v == view[p]  t == v.trigger
      z == Selected(v.zones, candles[t].close)
      origin == DipOrigin(candles, v.zones, z, 1, t)
      buys == /\ Dips(candles, v.zones, 1, t)
              /\ ~RecentBuy(z.shelf, t) /\ ~SetupBuy(z.shelf, origin, t)
  IN /\ pc[p] = "evaluate"
     /\ view' = [view EXCEPT ![p].row = IF buys THEN Buy(v.asOf, z, origin) ELSE Hold(v.asOf)]
     /\ pc' = [pc EXCEPT ![p] = "insert"]
     /\ UNCHANGED <<candles, asOf, zones, rows, executed>>

\* A later cycle of the hour overwrites what an earlier one decided.
Insert(p) ==
  LET v == view[p] IN
  /\ pc[p] = "insert"
  /\ rows' = [rows EXCEPT ![v.mode][v.trigger] = v.row]
  /\ IF IsBuy(v.row) /\ v.mode # "observe"
       THEN pc' = [pc EXCEPT ![p] = "execute"] /\ UNCHANGED view
       ELSE Exit(p)
  /\ UNCHANGED <<candles, asOf, zones, executed>>

\* A decision executes once; a cycle that finds its execution rejoins it.
Execute(p) ==
  LET v == view[p] IN
  /\ pc[p] = "execute"
  /\ executed' = IF executed[v.mode][v.trigger] # None THEN executed
                 ELSE [executed EXCEPT ![v.mode][v.trigger] = v.row]
  /\ Exit(p)
  /\ UNCHANGED <<candles, asOf, zones, rows>>

\* An exception, a failed gate of the execution, or a killed process.
Stop(p) ==
  /\ pc[p] # "idle"
  /\ Exit(p)
  /\ UNCHANGED <<candles, asOf, zones, rows, executed>>

Next ==
  \/ CloseHour
  \/ \E p \in Runner : Load(p) \/ Evaluate(p) \/ Insert(p) \/ Execute(p) \/ Stop(p)

Spec == Init /\ [][Next]_vars

(***************************************************************************)
(* Properties.                                                             *)
(***************************************************************************)
TypeOK ==
  /\ candles \in Seq(Candle) /\ Len(candles) <= MaxHour
  /\ pc \in [Runner -> {"idle", "evaluate", "insert", "execute"}]
  /\ DOMAIN view = Runner
  /\ DOMAIN rows = Mode /\ \A m \in Mode : DOMAIN rows[m] = Hour

SameShelf(m, g, n, h) ==
  IsBuy(rows[m][g]) /\ IsBuy(rows[n][h]) /\ rows[m][g].shelf = rows[n][h].shelf

\* README: each dip setup, a shelf and its dip origin, is bought only once,
\* in whatever modes the cycles run.
OneBuyPerSetup ==
  \A m, n \in Mode, g, h \in Hour :
    g < h /\ SameShelf(m, g, n, h) => rows[m][g].origin # rows[n][h].origin

\* Within the cooldown a shelf is not bought again, reruns included.
CooldownKept ==
  \A m, n \in Mode, g, h \in Hour : g < h /\ SameShelf(m, g, n, h) => h - g >= Cooldown

\* A rerun of the hour decides as before, unless it saw a newer zone set: a
\* recorded BUY is not turned into a HOLD by the trace it left itself.
RerunAgrees ==
  [][\A m \in Mode, h \in Hour :
       rows[m][h] # None /\ rows'[m][h] # rows[m][h] =>
         rows'[m][h].asOf > rows[m][h].asOf]_vars

\* A BUY below the shelf is taken in the first hour that closes there: no
\* shelf is bought while the price stays, or recovers, below it.
FirstFallOnly ==
  \A m \in Mode, h \in Hour :
    IsBuy(rows[m][h]) /\ candles[h].close < rows[m][h].low =>
      h > 1 /\ candles[h - 1].close >= rows[m][h].low

(***************************************************************************)
(* The inductive invariant behind the record of setups, for one runner at  *)
(* a time: no row is newer than the trigger a cycle holds, so what it      *)
(* looked up before that trigger stays true until it writes.               *)
(***************************************************************************)
Sequential == \A p, q \in Runner : p = q

ViewHeld(p) ==
  pc[p] # "idle" =>
    /\ DOMAIN view[p] = {"mode", "trigger", "asOf", "zones", "row"}
    /\ view[p].mode \in Mode
    /\ view[p].trigger \in 1 .. Len(candles)

NoLaterRow(p) ==
  pc[p] \in {"evaluate", "insert"} =>
    \A m \in Mode, h \in Hour : h > view[p].trigger => rows[m][h] = None

VerdictStands(p) ==
  LET v == view[p] IN
  pc[p] = "insert" /\ IsBuy(v.row) =>
    ~RecentBuy(v.row.shelf, v.trigger) /\ ~SetupBuy(v.row.shelf, v.row.origin, v.trigger)

RowsAreOfClosedHours ==
  \A m \in Mode, h \in Hour : rows[m][h] # None => h <= Len(candles)

IInv ==
  /\ TypeOK
  /\ RowsAreOfClosedHours
  /\ \A p \in Runner : ViewHeld(p) /\ NoLaterRow(p) /\ VerdictStands(p)
  /\ OneBuyPerSetup
  /\ CooldownKept

(***************************************************************************)
(* The inductive invariant behind the first fall, for any number of        *)
(* runners: a cycle decides on a ladder of the table, and whoever holds or *)
(* has written a BUY saw the price come down to its shelf.                 *)
(***************************************************************************)
CameFromAbove(row, h) == IsBuy(row) => h > 1 /\ candles[h - 1].close >= row.low

FallInv ==
  /\ TypeOK
  /\ RowsAreOfClosedHours
  /\ asOf \in Nat /\ (asOf >= 1 => zones \in Ladder)
  /\ \A p \in Runner :
       /\ ViewHeld(p)
       /\ pc[p] # "idle" => view[p].zones \in Ladder
       /\ pc[p] = "insert" => CameFromAbove(view[p].row, view[p].trigger)
  /\ \A m \in Mode, h \in Hour : CameFromAbove(rows[m][h], h)
=============================================================================
