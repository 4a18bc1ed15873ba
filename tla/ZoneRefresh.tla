----------------------------- MODULE ZoneRefresh -----------------------------
(***************************************************************************)
(* One `trade-once` cycle up to its decision: read the clock, fetch the    *)
(* closed hours, derive the 4h bars that are due, then load the zones of   *)
(* the last bar or rebuild them from the detector and the sticky tracks of *)
(* the bar before (src/trading/runner.py, aggregate_4h.py, zone_refresh.py *)
(* and state_store.py).                                                    *)
(*                                                                         *)
(* Several cycles may run at once over one SQLite file; an action is one   *)
(* connection's work on it.  A bar is numbered by its position, an hour    *)
(* too.  What the detector and the tracks compute is abstracted to the     *)
(* origin of a zone set: the bar at which its tracks were bootstrapped.    *)
(* Every bar from there to the set's own has been advanced over.           *)
(***************************************************************************)
EXTENDS Integers

CONSTANTS
  Cycle,
  HoursPerBar,   \* 4
  FetchLimit,    \* rows a fetch returns, the open hour included
  MaxLag,        \* hours the exchange's newest rows may be late
  MaxHour        \* bound of the clock

ASSUME BarAssumption   == HoursPerBar \in Nat \ {0}
ASSUME FetchAssumption == FetchLimit \in Nat \ {0}
ASSUME LagAssumption   == MaxLag \in Nat
ASSUME HourAssumption  == MaxHour \in Nat

VARIABLES
  pc,        \* next statement of each cycle
  due,       \* latest_due of each cycle, from the clock it read first
  asked,     \* the exchange's hour when it answered the fetch
  trigger,   \* its trigger: the last closed hour it loaded
  origin,    \* origin of the tracks it restored, then of its zones
  hours,     \* 1h candles
  bars,      \* 4h candles derived by the cycles
  watermark, \* bot_state: the bar of the current zone set
  snapshot,  \* zones and zone_sets: the origin of the set stored for a bar
  payload,   \* bot_state: the sticky tracks
  now        \* hours since the epoch

local  == <<pc, due, asked, trigger, origin>>
tables == <<hours, bars, watermark, snapshot, payload>>
vars   == <<local, tables, now>>

Hour  == 0 .. MaxHour
NoBar == -1
Bars  == Hour \union {NoBar}

Pc == {"idle", "request", "store", "derive", "check", "restore", "commit", "decide"}

TypeOK ==
  /\ pc \in [Cycle -> Pc]
  /\ due \in [Cycle -> Bars]
  /\ asked \in [Cycle -> Hour]
  /\ trigger \in [Cycle -> Hour]
  /\ origin \in [Cycle -> Bars]
  /\ hours \in [Hour -> {"absent", "partial", "final"}]
  /\ bars \subseteq Hour
  /\ watermark \in Bars
  /\ snapshot \in [Hour -> Bars]
  /\ payload \in [origin : Bars, asOf : Bars]
  /\ now \in Hour

Init ==
  /\ pc = [p \in Cycle |-> "idle"]
  /\ due = [p \in Cycle |-> NoBar]
  /\ asked = [p \in Cycle |-> 0]
  /\ trigger = [p \in Cycle |-> 0]
  /\ origin = [p \in Cycle |-> NoBar]
  /\ hours = [h \in Hour |-> "absent"]
  /\ bars = {}
  /\ watermark = NoBar
  /\ snapshot = [b \in Hour |-> NoBar]
  /\ payload = [origin |-> NoBar, asOf |-> NoBar]
  /\ now = 0

(***************************************************************************)
(* Helpers.                                                                *)
(***************************************************************************)
\* latest_overdue_bucket_open_time: the last bar that has ended at hour t.
LatestDue(t) == t \div HoursPerBar - 1

HoursOf(b) == b * HoursPerBar .. b * HoursPerBar + HoursPerBar - 1

\* Seeded fault: the bar's last hour may still be missing.
CompleteButLast(b) ==
  \A h \in HoursOf(b) : h \in Hour /\ (h % HoursPerBar # HoursPerBar - 1 => hours[h] # "absent")

Complete(b) == \A h \in HoursOf(b) : h \in Hour /\ hours[h] # "absent"

\* aggregate_overdue_buckets: every bar after the watermark, or the last one.
Overdue(d) == IF watermark = NoBar THEN {d} ELSE watermark + 1 .. d

Goto(p, label) == pc' = [pc EXCEPT ![p] = label]

\* The cycle ends; nothing it read survives it.
Exit(p) ==
  /\ Goto(p, "idle")
  /\ due' = [due EXCEPT ![p] = NoBar]
  /\ asked' = [asked EXCEPT ![p] = 0]
  /\ trigger' = [trigger EXCEPT ![p] = 0]
  /\ origin' = [origin EXCEPT ![p] = NoBar]

\* Its zones are those of the set stored for its bar.
LoadSnapshot(p) ==
  /\ Goto(p, "decide")
  /\ origin' = [origin EXCEPT ![p] = snapshot[due[p]]]
  /\ UNCHANGED <<due, asked, trigger, tables>>

(***************************************************************************)
(* Clock, fetch and derivation.                                            *)
(***************************************************************************)
Start(p) ==
  /\ pc[p] = "idle"
  /\ due' = [due EXCEPT ![p] = LatestDue(now)]
  /\ Goto(p, "request")
  /\ UNCHANGED <<asked, trigger, origin, tables, now>>

\* The exchange answers with its last rows, the one of the hour still open
\* included; its newest rows may be late.
Request(p) ==
  /\ pc[p] = "request"
  /\ \E lag \in 0 .. MaxLag : now >= lag /\ asked' = [asked EXCEPT ![p] = now - lag]
  /\ Goto(p, "store")
  /\ UNCHANGED <<due, trigger, origin, tables, now>>

\* A row counts as closed by the clock at parsing: if the hour has ended
\* since the answer, its open row is stored with what it held by then.
Store(p) ==
  /\ pc[p] = "store"
  /\ hours' = [h \in Hour |->
       IF asked[p] - h \in 0 .. FetchLimit - 1 /\ h < now
         THEN IF h < asked[p] THEN "final" ELSE "partial"
         ELSE hours[h]]
  /\ Goto(p, "derive")
  /\ UNCHANGED <<due, asked, trigger, origin, bars, watermark, snapshot, payload, now>>

Derive(p) ==
  LET d == due[p]
      closed == {h \in Hour : hours[h] # "absent"} IN
  /\ pc[p] = "derive"
  /\ d # NoBar
  /\ \A b \in Overdue(d) \union {d} : Complete(b)
  /\ d \in bars \union Overdue(d)
  /\ bars' = bars \union Overdue(d)
  /\ \E last \in closed :
       /\ \A h \in closed : h <= last
       /\ trigger' = [trigger EXCEPT ![p] = last]
  /\ Goto(p, "check")
  /\ UNCHANGED <<due, asked, origin, hours, watermark, snapshot, payload, now>>

(***************************************************************************)
(* refresh_zones.                                                          *)
(***************************************************************************)
\* Seeded fault: after a gap there is nothing to go on from.
CheckWatermarkNoGap(p) ==
  /\ pc[p] = "check"
  /\ \/ watermark = due[p] /\ LoadSnapshot(p)
     \/ /\ watermark \in {NoBar, due[p] - 1}
        /\ Goto(p, IF watermark = due[p] - 1 /\ watermark # NoBar THEN "restore" ELSE "commit")
        /\ UNCHANGED <<due, asked, trigger, origin, tables>>
  /\ UNCHANGED now

\* Seeded fault: tracks are restored across a gap.
CheckWatermarkRestores(p) ==
  /\ pc[p] = "check"
  /\ \/ watermark = due[p] /\ LoadSnapshot(p)
     \/ /\ watermark < due[p]
        /\ Goto(p, IF watermark # NoBar THEN "restore" ELSE "commit")
        /\ UNCHANGED <<due, asked, trigger, origin, tables>>
  /\ UNCHANGED now

\* Only the tracks of the bar just before are restored.
CheckWatermark(p) ==
  /\ pc[p] = "check"
  /\ \/ watermark = due[p] /\ LoadSnapshot(p)
     \/ /\ watermark < due[p]
        /\ Goto(p, IF watermark = due[p] - 1 /\ watermark # NoBar THEN "restore" ELSE "commit")
        /\ UNCHANGED <<due, asked, trigger, origin, tables>>
  /\ UNCHANGED now

\* A second read: the tracks may have moved on, and then advance refuses.
Restore(p) ==
  /\ pc[p] = "restore"
  /\ payload.asOf < due[p]
  /\ origin' = [origin EXCEPT ![p] = payload.origin]
  /\ Goto(p, "commit")
  /\ UNCHANGED <<due, asked, trigger, tables, now>>

\* Seeded fault: the watermark is not read again inside the transaction.
CommitBlindly(p) ==
  LET d == due[p]  o == IF origin[p] = NoBar THEN due[p] ELSE origin[p] IN
  /\ pc[p] = "commit"
  /\ snapshot' = [snapshot EXCEPT ![d] = o]
  /\ payload' = [origin |-> o, asOf |-> d]
  /\ watermark' = d
  /\ origin' = [origin EXCEPT ![p] = o]
  /\ Goto(p, "decide")
  /\ UNCHANGED <<due, asked, trigger, hours, bars, now>>

\* Seeded fault: the tracks are not saved with the zones.
CommitForgetsTracks(p) ==
  LET d == due[p]  o == IF origin[p] = NoBar THEN due[p] ELSE origin[p] IN
  /\ pc[p] = "commit"
  /\ watermark < d
  /\ snapshot' = [snapshot EXCEPT ![d] = o]
  /\ watermark' = d
  /\ origin' = [origin EXCEPT ![p] = o]
  /\ Goto(p, "decide")
  /\ UNCHANGED <<due, asked, trigger, hours, bars, payload, now>>

\* Seeded fault: the loser of a race goes on with the zones it built.
CommitKeepsOwn(p) ==
  LET d == due[p]  o == IF origin[p] = NoBar THEN due[p] ELSE origin[p] IN
  /\ pc[p] = "commit"
  /\ watermark <= d
  /\ IF watermark = d
       THEN UNCHANGED <<snapshot, payload, watermark>>
       ELSE /\ snapshot' = [snapshot EXCEPT ![d] = o]
            /\ payload' = [origin |-> o, asOf |-> d]
            /\ watermark' = d
  /\ origin' = [origin EXCEPT ![p] = o]
  /\ Goto(p, "decide")
  /\ UNCHANGED <<due, asked, trigger, hours, bars, now>>

\* Zones, manifest, watermark and tracks in one BEGIN IMMEDIATE transaction;
\* without restored tracks the set bootstraps.
Commit(p) ==
  LET d == due[p]  o == IF origin[p] = NoBar THEN due[p] ELSE origin[p] IN
  /\ pc[p] = "commit"
  /\ \/ watermark = d /\ LoadSnapshot(p)
     \/ /\ watermark < d
        /\ snapshot' = [snapshot EXCEPT ![d] = o]
        /\ payload' = [origin |-> o, asOf |-> d]
        /\ watermark' = d
        /\ origin' = [origin EXCEPT ![p] = o]
        /\ Goto(p, "decide")
        /\ UNCHANGED <<due, asked, trigger, hours, bars>>
  /\ UNCHANGED now

\* The decision is evaluated on the zones; HourlyDecision models its record.
Decide(p) ==
  /\ pc[p] = "decide"
  /\ Exit(p)
  /\ UNCHANGED <<tables, now>>

\* An exception of any step, a rolled back transaction, or a killed process.
Stop(p) ==
  /\ pc[p] # "idle"
  /\ Exit(p)
  /\ UNCHANGED <<tables, now>>

TickHour ==
  /\ now < MaxHour
  /\ now' = now + 1
  /\ UNCHANGED <<local, tables>>

Step(p) ==
  \/ Request(p) \/ Store(p) \/ Derive(p)
  \/ CheckWatermark(p) \/ Restore(p) \/ Commit(p) \/ Decide(p)

Next ==
  \/ \E p \in Cycle : Start(p) \/ Step(p) \/ Stop(p)
  \/ TickHour

Spec == Init /\ [][Next]_vars

(***************************************************************************)
(* Fairness: the timer starts cycle after cycle, a running cycle goes on   *)
(* until it ends, and the hours pass.  A cycle may fail now and then, not  *)
(* for ever at the same statement.                                         *)
(***************************************************************************)
TimerSpec ==
  /\ Spec
  /\ WF_vars(TickHour)
  /\ \A p \in Cycle :
       /\ WF_vars(Start(p)) /\ WF_vars(Stop(p))
       /\ SF_vars(Request(p)) /\ SF_vars(Store(p)) /\ SF_vars(Derive(p))
       /\ SF_vars(CheckWatermark(p)) /\ SF_vars(Restore(p)) /\ SF_vars(Commit(p))

(***************************************************************************)
(* Properties.                                                             *)
(***************************************************************************)
\* The watermark, the zones and the tracks move together: whoever reads the
\* watermark finds its zone set, and tracks that were advanced exactly to it.
SetOfWatermark ==
  watermark # NoBar =>
    /\ payload.asOf = watermark
    /\ payload.origin \in 0 .. watermark
    /\ snapshot[watermark] = payload.origin

\* A slow runner never takes the database back to an older bar.
WatermarkNeverFalls == [][watermark' >= watermark]_vars

\* A published set is never rebuilt differently: every decision of a bar, by
\* any runner, sees the same zones.
OneSetPerBar ==
  [][\A b \in Hour : snapshot[b] # NoBar => snapshot'[b] = snapshot[b]]_vars

\* Sticky tracks are continued only from the set of the bar just before, so
\* that no count of misses or confirmations skips a bar.
TracksSkipNoBar ==
  \A b \in Hour : snapshot[b] \notin {NoBar, b} =>
    b > 0 /\ snapshot[b - 1] = snapshot[b]

\* Cycles that race to rebuild a bar decide on the set that was committed,
\* the losers too.
DecidesOnStoredSet ==
  \A p \in Cycle : pc[p] = "decide" =>
    origin[p] # NoBar /\ origin[p] = snapshot[due[p]]

\* No look-ahead: the zones' bar consists of hours up to the trigger.
NoLookAhead ==
  \A p \in Cycle : pc[p] = "decide" => \A h \in HoursOf(due[p]) : h <= trigger[p]

\* After downtime and failures the zones catch up with the clock, unless an
\* hour has left the fetch window unseen, and then the cycles stay closed.
HourLost ==
  \E b \in Overdue(LatestDue(now)) \intersect Hour : \E h \in HoursOf(b) :
    hours[h] = "absent" /\ h < now - FetchLimit + 1

ZonesCatchUp == <>[](watermark = LatestDue(MaxHour) \/ HourLost)

(***************************************************************************)
(* The inductive invariant behind the safety properties.  What a cycle has *)
(* read stays true while it waits: sets are only added, always above the   *)
(* watermark, and restored tracks belong to the set of the bar before.     *)
(***************************************************************************)
SetsUpToWatermark == \A b \in Hour : snapshot[b] # NoBar => b <= watermark

CycleConsistent(p) ==
  /\ pc[p] \in {"check", "restore", "commit", "decide"} =>
       /\ due[p] \in Hour
       /\ \A h \in HoursOf(due[p]) : h <= trigger[p]
  /\ pc[p] \notin {"commit", "decide"} => origin[p] = NoBar
  /\ pc[p] = "restore" => due[p] - 1 \in 0 .. watermark
  /\ pc[p] = "commit" /\ origin[p] # NoBar =>
       due[p] > 0 /\ origin[p] = snapshot[due[p] - 1]
  /\ pc[p] = "decide" => origin[p] # NoBar /\ origin[p] = snapshot[due[p]]

IInv ==
  /\ TypeOK
  /\ SetOfWatermark
  /\ SetsUpToWatermark
  /\ TracksSkipNoBar
  /\ \A p \in Cycle : CycleConsistent(p)
=============================================================================
