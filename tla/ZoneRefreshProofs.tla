-------------------------- MODULE ZoneRefreshProofs --------------------------
(***************************************************************************)
(* For any number of cycles, bar length, fetch window and clock: IInv is   *)
(* inductive, so the zone set, the watermark and the sticky tracks stay in *)
(* step whatever cycles race, fail or die.                                 *)
(***************************************************************************)
EXTENDS ZoneRefresh, TLAPS

USE BarAssumption, FetchAssumption, HourAssumption, LagAssumption
    DEF Hour, NoBar, Bars, Pc, Goto, local, tables

\* The last ended bar is numbered below the hour.
LEMMA LatestDueBound == ASSUME NEW t \in Hour PROVE LatestDue(t) \in Bars
<1>1. t \div HoursPerBar \in 0 .. t
  OBVIOUS
<1> QED BY <1>1 DEF LatestDue

\* Nothing is stored and no cycle runs.
LEMMA InitIInv == Init => IInv
BY DEF Init, IInv, TypeOK, SetOfWatermark, SetsUpToWatermark, TracksSkipNoBar, CycleConsistent

\* Steps that write no zone set, watermark or tracks disturb only the cycle
\* that takes them.
LEMMA LocalStep ==
  ASSUME IInv, NEW p \in Cycle, UNCHANGED <<watermark, snapshot, payload>>, TypeOK',
         CycleConsistent(p)',
         \A q \in Cycle \ {p} : /\ pc'[q] = pc[q] /\ due'[q] = due[q]
                                /\ trigger'[q] = trigger[q] /\ origin'[q] = origin[q]
  PROVE  IInv'
<1>1. SetOfWatermark' /\ SetsUpToWatermark' /\ TracksSkipNoBar'
  BY DEF IInv, SetOfWatermark, SetsUpToWatermark, TracksSkipNoBar
<1>2. ASSUME NEW q \in Cycle PROVE CycleConsistent(q)'
  <2>1. CASE q = p
    BY <2>1
  <2>2. CASE q # p
    BY <2>2 DEF IInv, CycleConsistent, HoursOf
  <2> QED BY <2>1, <2>2
<1> QED BY <1>1, <1>2 DEF IInv

\* A cycle that starts has read nothing but the clock.
LEMMA StartPreserves == ASSUME IInv, NEW p \in Cycle, Start(p) PROVE IInv'
<1>1. LatestDue(now) \in Bars
  BY LatestDueBound DEF IInv, TypeOK
<1>2. TypeOK'
  BY <1>1 DEF IInv, TypeOK, Start
<1>3. CycleConsistent(p)'
  BY DEF IInv, TypeOK, CycleConsistent, Start
<1>4. \A q \in Cycle \ {p} : /\ pc'[q] = pc[q] /\ due'[q] = due[q]
                             /\ trigger'[q] = trigger[q] /\ origin'[q] = origin[q]
  BY DEF IInv, TypeOK, Start
<1> QED BY <1>2, <1>3, <1>4, LocalStep DEF Start

\* The fetch touches candles only.
LEMMA FetchPreserves == ASSUME IInv, NEW p \in Cycle, Request(p) \/ Store(p) PROVE IInv'
<1>1. TypeOK'
  <2>1. CASE Request(p)
    BY <2>1 DEF IInv, TypeOK, Request
  <2>2. CASE Store(p)
    BY <2>2 DEF IInv, TypeOK, Store
  <2> QED BY <2>1, <2>2
<1>2. CycleConsistent(p)'
  BY DEF IInv, TypeOK, CycleConsistent, Request, Store
<1>3. \A q \in Cycle \ {p} : /\ pc'[q] = pc[q] /\ due'[q] = due[q]
                             /\ trigger'[q] = trigger[q] /\ origin'[q] = origin[q]
  BY DEF IInv, TypeOK, Request, Store
<1>4. UNCHANGED <<watermark, snapshot, payload>>
  BY DEF Request, Store
<1> QED BY <1>1, <1>2, <1>3, <1>4, LocalStep

\* The due bar is complete, so the trigger is not before its last hour.
LEMMA DerivePreserves == ASSUME IInv, NEW p \in Cycle, Derive(p) PROVE IInv'
<1> DEFINE closed == {h \in Hour : hours[h] # "absent"}
<1>1. PICK last \in closed : /\ \A h \in closed : h <= last
                             /\ trigger' = [trigger EXCEPT ![p] = last]
  BY DEF Derive
<1>2. /\ pc[p] = "derive" /\ due[p] # NoBar /\ Complete(due[p])
      /\ pc' = [pc EXCEPT ![p] = "check"]
      /\ UNCHANGED <<due, asked, origin, hours, watermark, snapshot, payload, now>>
      /\ bars' = bars \union Overdue(due[p])
      /\ \A b \in Overdue(due[p]) : Complete(b)
  BY DEF Derive
<1>3. due[p] \in Hour /\ last \in Hour
  BY <1>2 DEF IInv, TypeOK
<1>4. Overdue(due[p]) \subseteq Hour
  BY <1>3 DEF Overdue, IInv, TypeOK
<1>5. TypeOK'
  BY <1>1, <1>2, <1>3, <1>4 DEF IInv, TypeOK
<1>6. \A h \in HoursOf(due[p]) : h <= last
  BY <1>1, <1>2 DEF Complete
<1>7. CycleConsistent(p)'
  BY <1>1, <1>2, <1>3, <1>6 DEF IInv, TypeOK, CycleConsistent, HoursOf
<1>8. \A q \in Cycle \ {p} : /\ pc'[q] = pc[q] /\ due'[q] = due[q]
                             /\ trigger'[q] = trigger[q] /\ origin'[q] = origin[q]
  BY <1>1, <1>2 DEF IInv, TypeOK
<1> QED BY <1>2, <1>5, <1>7, <1>8, LocalStep

\* A cycle that loads the set of its bar decides on what is stored.
LEMMA LoadPreserves ==
  ASSUME IInv, NEW p \in Cycle, pc[p] \in {"check", "commit"}, watermark = due[p],
         LoadSnapshot(p), UNCHANGED now
  PROVE  IInv'
<1>1. due[p] \in Hour
  BY DEF IInv, CycleConsistent
<1>2. /\ pc' = [pc EXCEPT ![p] = "decide"]
      /\ origin' = [origin EXCEPT ![p] = snapshot[due[p]]]
      /\ UNCHANGED <<due, asked, trigger, hours, bars, watermark, snapshot, payload>>
  BY DEF LoadSnapshot
<1>3. TypeOK'
  BY <1>1, <1>2 DEF IInv, TypeOK
<1>4. snapshot[due[p]] # NoBar
  BY <1>1 DEF IInv, TypeOK, SetOfWatermark
<1>5. CycleConsistent(p)'
  BY <1>1, <1>2, <1>4 DEF IInv, TypeOK, CycleConsistent, HoursOf
<1>6. \A q \in Cycle \ {p} : /\ pc'[q] = pc[q] /\ due'[q] = due[q]
                             /\ trigger'[q] = trigger[q] /\ origin'[q] = origin[q]
  BY <1>2 DEF IInv, TypeOK
<1> QED BY <1>2, <1>3, <1>5, <1>6, LocalStep

\* What is loaded is the stored set, and what may be restored is its
\* predecessor's.
LEMMA CheckPreserves == ASSUME IInv, NEW p \in Cycle, CheckWatermark(p) PROVE IInv'
<1>1. CASE watermark = due[p] /\ LoadSnapshot(p)
  BY <1>1, LoadPreserves DEF CheckWatermark
<1>2. CASE /\ watermark < due[p]
           /\ pc' = [pc EXCEPT ![p] = IF watermark = due[p] - 1 /\ watermark # NoBar
                                        THEN "restore" ELSE "commit"]
           /\ UNCHANGED <<due, asked, trigger, origin, tables>>
  <2>1. TypeOK'
    BY <1>2 DEF IInv, TypeOK, CheckWatermark
  <2>2. CycleConsistent(p)'
    BY <1>2 DEF IInv, TypeOK, CycleConsistent, CheckWatermark, HoursOf
  <2>3. \A q \in Cycle \ {p} : /\ pc'[q] = pc[q] /\ due'[q] = due[q]
                               /\ trigger'[q] = trigger[q] /\ origin'[q] = origin[q]
    BY <1>2 DEF IInv, TypeOK
  <2> QED BY <1>2, <2>1, <2>2, <2>3, LocalStep
<1> QED BY <1>1, <1>2 DEF CheckWatermark

\* Tracks not yet at the cycle's bar are those of the bar before.
LEMMA RestorePreserves == ASSUME IInv, NEW p \in Cycle, Restore(p) PROVE IInv'
<1>1. /\ due[p] - 1 \in 0 .. watermark /\ watermark \in Hour /\ due[p] \in Hour
      /\ payload.asOf = watermark /\ payload.asOf < due[p]
  BY DEF IInv, TypeOK, CycleConsistent, SetOfWatermark, Restore
<1>2. watermark = due[p] - 1 /\ payload.origin = snapshot[due[p] - 1]
  BY <1>1 DEF IInv, TypeOK, SetOfWatermark
<1>3. TypeOK'
  BY DEF IInv, TypeOK, Restore
<1>4. CycleConsistent(p)'
  BY <1>1, <1>2 DEF IInv, TypeOK, CycleConsistent, Restore, HoursOf
<1>5. \A q \in Cycle \ {p} : /\ pc'[q] = pc[q] /\ due'[q] = due[q]
                             /\ trigger'[q] = trigger[q] /\ origin'[q] = origin[q]
  BY DEF IInv, TypeOK, Restore
<1> QED BY <1>3, <1>4, <1>5, LocalStep DEF Restore

\* A new set is stored above all others and continues the one just before.
LEMMA BuildPreserves ==
  ASSUME IInv, NEW p \in Cycle, pc[p] = "commit", watermark < due[p], Commit(p)
  PROVE  IInv'
<1> DEFINE d == due[p]
           o == IF origin[p] = NoBar THEN d ELSE origin[p]
<1>1. /\ snapshot' = [snapshot EXCEPT ![d] = o]
      /\ payload' = [origin |-> o, asOf |-> d]
      /\ watermark' = d
      /\ origin' = [origin EXCEPT ![p] = o]
      /\ pc' = [pc EXCEPT ![p] = "decide"]
      /\ UNCHANGED <<due, asked, trigger, hours, bars, now>>
  BY DEF Commit, IInv, TypeOK
<1>2. d \in Hour /\ watermark \in Bars /\ origin[p] \in Bars
  BY DEF IInv, TypeOK, CycleConsistent
<1>3. origin[p] # NoBar => d > 0 /\ origin[p] = snapshot[d - 1]
  BY DEF IInv, CycleConsistent
<1>4. \A b \in Hour : b >= d => snapshot[b] = NoBar
  BY <1>2 DEF IInv, SetsUpToWatermark
<1>5. origin[p] # NoBar => watermark = d - 1 /\ origin[p] \in 0 .. d - 1
  BY <1>2, <1>3 DEF IInv, TypeOK, SetsUpToWatermark, SetOfWatermark
<1>6. o \in 0 .. d
  BY <1>2, <1>5
<1>7. TypeOK'
  BY <1>1, <1>2, <1>6 DEF IInv, TypeOK
<1>8. SetOfWatermark'
  BY <1>1, <1>2, <1>6 DEF SetOfWatermark, IInv, TypeOK
<1>9. SetsUpToWatermark'
  BY <1>1, <1>2, <1>4 DEF SetsUpToWatermark, IInv, TypeOK
<1>10. TracksSkipNoBar'
  BY <1>1, <1>2, <1>3, <1>4, <1>6 DEF TracksSkipNoBar, IInv, TypeOK
<1>11. ASSUME NEW q \in Cycle PROVE CycleConsistent(q)'
  <2>1. CASE q = p
    BY <1>1, <1>2, <1>6, <2>1 DEF IInv, TypeOK, CycleConsistent, HoursOf
  <2>2. CASE q # p
    <3>1. /\ pc'[q] = pc[q] /\ due'[q] = due[q] /\ trigger'[q] = trigger[q]
          /\ origin'[q] = origin[q]
      BY <1>1, <2>2 DEF IInv, TypeOK
    <3>2. \A b \in Hour : snapshot[b] # NoBar => snapshot'[b] = snapshot[b]
      BY <1>1, <1>2, <1>4 DEF IInv, TypeOK
    <3>3. CASE pc[q] = "restore"
      <4>1. due[q] \in Hour /\ due[q] - 1 \in 0 .. watermark /\ CycleConsistent(q)
        BY <3>3 DEF IInv, CycleConsistent
      <4>2. due'[q] - 1 \in 0 .. watermark'
        BY <1>1, <1>2, <3>1, <4>1
      <4> QED BY <3>1, <3>3, <4>1, <4>2 DEF CycleConsistent, HoursOf
    <3>4. CASE pc[q] = "commit"
      <4>1. due[q] \in Hour
        BY <3>4 DEF IInv, CycleConsistent
      <4>2. origin[q] # NoBar => snapshot'[due[q] - 1] = snapshot[due[q] - 1]
        BY <3>2, <3>4, <4>1 DEF IInv, CycleConsistent
      <4> QED BY <3>1, <3>4, <4>1, <4>2 DEF IInv, CycleConsistent, HoursOf
    <3>5. CASE pc[q] = "decide"
      <4>1. due[q] \in Hour
        BY <3>5 DEF IInv, CycleConsistent
      <4> QED BY <3>1, <3>2, <3>5, <4>1 DEF IInv, CycleConsistent, HoursOf
    <3>6. CASE pc[q] \notin {"restore", "commit", "decide"}
      BY <3>1, <3>6 DEF IInv, CycleConsistent, HoursOf
    <3> QED BY <3>3, <3>4, <3>5, <3>6
  <2> QED BY <2>1, <2>2
<1> QED BY <1>7, <1>8, <1>9, <1>10, <1>11 DEF IInv

\* A set is added just above every other one.
LEMMA CommitPreserves == ASSUME IInv, NEW p \in Cycle, Commit(p) PROVE IInv'
<1>1. CASE watermark = due[p] /\ LoadSnapshot(p)
  BY <1>1, LoadPreserves DEF Commit
<1>2. CASE watermark < due[p]
  BY <1>2, BuildPreserves DEF Commit
<1> QED BY <1>1, <1>2 DEF Commit

\* A cycle that ends forgets what it read.
LEMMA ExitPreserves == ASSUME IInv, NEW p \in Cycle, Decide(p) \/ Stop(p) PROVE IInv'
<1>1. /\ pc' = [pc EXCEPT ![p] = "idle"] /\ due' = [due EXCEPT ![p] = NoBar]
      /\ asked' = [asked EXCEPT ![p] = 0] /\ trigger' = [trigger EXCEPT ![p] = 0]
      /\ origin' = [origin EXCEPT ![p] = NoBar] /\ UNCHANGED <<tables, now>>
  BY DEF Decide, Stop, Exit
<1>2. TypeOK'
  BY <1>1 DEF IInv, TypeOK
<1>3. CycleConsistent(p)'
  BY <1>1 DEF IInv, TypeOK, CycleConsistent
<1>4. \A q \in Cycle \ {p} : /\ pc'[q] = pc[q] /\ due'[q] = due[q]
                             /\ trigger'[q] = trigger[q] /\ origin'[q] = origin[q]
  BY <1>1 DEF IInv, TypeOK
<1> QED BY <1>1, <1>2, <1>3, <1>4, LocalStep

\* The clock is nobody's but its own.
LEMMA TickPreserves == ASSUME IInv, TickHour \/ UNCHANGED vars PROVE IInv'
<1>1. UNCHANGED <<pc, due, asked, trigger, origin, hours, bars, watermark, snapshot, payload>>
  BY DEF TickHour, vars
<1>2. now' \in Hour
  BY DEF IInv, TypeOK, TickHour, vars
<1>3. TypeOK'
  BY <1>1, <1>2 DEF IInv, TypeOK
<1>4. SetOfWatermark' /\ SetsUpToWatermark' /\ TracksSkipNoBar'
  BY <1>1 DEF IInv, SetOfWatermark, SetsUpToWatermark, TracksSkipNoBar
<1>5. ASSUME NEW q \in Cycle PROVE CycleConsistent(q)'
  BY <1>1 DEF IInv, CycleConsistent, HoursOf
<1> QED BY <1>3, <1>4, <1>5 DEF IInv

\* What the cycles read stays true until they write.
THEOREM InductiveInvariant == Spec => []IInv
<1>1. Init => IInv
  BY InitIInv
<1>2. IInv /\ [Next]_vars => IInv'
  BY StartPreserves, FetchPreserves, DerivePreserves, CheckPreserves, RestorePreserves,
     CommitPreserves, ExitPreserves, TickPreserves DEF Next, Step
<1> QED BY <1>1, <1>2, PTL DEF Spec

\* Every variable has its type.
THEOREM TypeCorrectness == Spec => []TypeOK
<1>1. IInv => TypeOK
  BY DEF IInv
<1> QED BY <1>1, InductiveInvariant, PTL

\* Watermark, zone set and tracks move together.
THEOREM SetMatchesWatermark == Spec => []SetOfWatermark
<1>1. IInv => SetOfWatermark
  BY DEF IInv
<1> QED BY <1>1, InductiveInvariant, PTL

\* No count of the sticky tracks ever skips a bar.
THEOREM TracksAreContiguous == Spec => []TracksSkipNoBar
<1>1. IInv => TracksSkipNoBar
  BY DEF IInv
<1> QED BY <1>1, InductiveInvariant, PTL

\* Winners and losers of a race decide on the committed set.
THEOREM OneViewOfZones == Spec => []DecidesOnStoredSet
<1>1. IInv => DecidesOnStoredSet
  BY DEF IInv, CycleConsistent, DecidesOnStoredSet
<1> QED BY <1>1, InductiveInvariant, PTL

\* Zones come from hours no later than the trigger.
THEOREM Causality == Spec => []NoLookAhead
<1>1. IInv => NoLookAhead
  BY DEF IInv, CycleConsistent, NoLookAhead
<1> QED BY <1>1, InductiveInvariant, PTL

\* Only a build changes the stored sets, and it writes above all of them.
LEMMA StoredSetsStep ==
  ASSUME IInv, [Next]_vars
  PROVE  /\ watermark' >= watermark
         /\ \A b \in Hour : snapshot[b] # NoBar => snapshot'[b] = snapshot[b]
<1>1. CASE UNCHANGED <<watermark, snapshot>>
  BY <1>1 DEF IInv, TypeOK
<1>2. ASSUME NEW p \in Cycle, Commit(p), watermark < due[p]
      PROVE  /\ watermark' = due[p] /\ watermark \in Bars /\ due[p] \in Bars
             /\ \A b \in Hour \ {due[p]} : snapshot'[b] = snapshot[b]
             /\ due[p] \in Hour => snapshot[due[p]] = NoBar
  BY <1>2 DEF Commit, IInv, TypeOK, SetsUpToWatermark
<1>3. ASSUME NEW p \in Cycle, Commit(p), ~(watermark < due[p])
      PROVE  UNCHANGED <<watermark, snapshot>>
  BY <1>3 DEF Commit, LoadSnapshot
<1>4. ASSUME NEW p \in Cycle, Start(p) \/ Request(p) \/ Store(p) \/ Derive(p)
                                \/ Restore(p) \/ Decide(p) \/ Stop(p)
      PROVE  UNCHANGED <<watermark, snapshot>>
  BY <1>4 DEF Start, Request, Store, Derive, Restore, Decide, Stop
<1>5. ASSUME NEW p \in Cycle, CheckWatermark(p) PROVE UNCHANGED <<watermark, snapshot>>
  BY <1>5 DEF CheckWatermark, LoadSnapshot
<1>6. CASE TickHour \/ UNCHANGED vars
  BY <1>1, <1>6 DEF TickHour, vars
<1> QED BY <1>1, <1>2, <1>3, <1>4, <1>5, <1>6 DEF Next, Step

\* The watermark never falls.
THEOREM Monotonicity == Spec => WatermarkNeverFalls
<1>1. IInv /\ [Next]_vars => [watermark' >= watermark]_vars
  BY StoredSetsStep
<1> QED BY <1>1, InductiveInvariant, PTL DEF Spec, WatermarkNeverFalls

\* A stored set never changes.
THEOREM StoredOnce == Spec => OneSetPerBar
<1>1. IInv /\ [Next]_vars =>
        [\A b \in Hour : snapshot[b] # NoBar => snapshot'[b] = snapshot[b]]_vars
  BY StoredSetsStep
<1> QED BY <1>1, InductiveInvariant, PTL DEF Spec, OneSetPerBar
=============================================================================
