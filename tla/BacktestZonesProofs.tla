------------------------ MODULE BacktestZonesProofs -------------------------
(***************************************************************************)
(* The zones of a replay are its own, whatever the replays that share the  *)
(* cache do, for any number of replays, bars, windows and releases.        *)
(***************************************************************************)
EXTENDS BacktestZones, FiniteSetTheorems, TLAPS

\* A prefix of a prefix.
LEMMA PrefixTwice ==
  ASSUME NEW history, NEW bar PROVE Prefix(Prefix(history, bar), bar) = Prefix(history, bar)
BY DEF Prefix

LEMMA PrefixDomain ==
  ASSUME NEW history, NEW bar
  PROVE  DOMAIN Prefix(history, bar) = {x \in DOMAIN history : x <= bar}
BY DEF Prefix

\* What a row may be reused for is what it was built for.
LEMMA ReusableIsSound ==
  ASSUME NEW r \in Replay, NEW b \in Bar, RowSound(b), HoldsFrame(r), Reusable(r, b)
  PROVE  /\ Detected(cache[b].zones, mem[r].config, Prefix(mem[r].history, b))
         /\ ~straddled => cache[b].zones.code = mem[r].code
BY DEF RowSound, HoldsFrame, Reusable, Detected

LEMMA InitIInv == Init => IInv
BY DEF Init, IInv, Control, RowSound, ReplaySound, Active

\* The steps of a replay touch its own memory only.
LEMMA OwnStep ==
  ASSUME NEW r \in Replay, IInv, Control', straddled' = straddled,
         \A q \in Replay \ {r} : pc'[q] = pc[q] /\ mem'[q] = mem[q],
         \A b \in Bar : RowSound(b)', ReplaySound(r)'
  PROVE  IInv'
<1>1. ASSUME NEW q \in Replay, q # r PROVE ReplaySound(q)'
  BY <1>1 DEF IInv, ReplaySound, HoldsFrame, HitsSound, InHandSound, Now
<1> QED BY <1>1 DEF IInv

LEMMA CacheKept ==
  ASSUME IInv, cache' = cache, straddled' = straddled PROVE \A b \in Bar : RowSound(b)'
BY DEF IInv, RowSound

LEMMA EnvironmentPreserves == ASSUME IInv, Ingest \/ Install \/ Damage PROVE IInv'
<1>1. UNCHANGED <<pc, mem, straddled>>
  BY DEF Ingest, Install, Damage
<1>2. Control'
  BY <1>1 DEF Ingest, Install, Damage, IInv, Control
<1>3. ASSUME NEW b \in Bar PROVE RowSound(b)'
  <2>1. CASE cache' = cache
    BY <2>1, <1>1 DEF IInv, RowSound
  <2>2. CASE Damage
    <3>1. PICK d \in Bar : cache[d] # None /\ cache' = [cache EXCEPT ![d].zones = None]
      BY <2>2 DEF Damage
    <3>2. CASE b # d
      BY <3>1, <3>2, <1>1 DEF IInv, Control, RowSound
    <3>3. CASE b = d
      BY <3>1, <3>3 DEF IInv, Control, RowSound
    <3> QED BY <3>2, <3>3
  <2> QED BY <2>1, <2>2 DEF Ingest, Install
<1>4. ASSUME NEW r \in Replay PROVE ReplaySound(r)'
  BY <1>1 DEF IInv, ReplaySound, HoldsFrame, HitsSound, InHandSound, Now
<1> QED BY <1>2, <1>3, <1>4 DEF IInv

LEMMA LaunchPreserves == ASSUME IInv, NEW r \in Replay, Launch(r) PROVE IInv'
<1>1. Control' /\ ReplaySound(r)'
  BY DEF Launch, Goto, IInv, Control, ReplaySound, Active
<1> QED BY <1>1, CacheKept, OwnStep DEF Launch, Goto, IInv, Control

\* A process that hashes the files it imported signs with its own code.
LEMMA BeginPreserves == ASSUME IInv, NEW r \in Replay, Begin(r) PROVE IInv'
<1>1. PICK config \in Config, w \in Window :
        mem' = [mem EXCEPT ![r] =
          [code |-> mem[r].code, signature |-> release, config |-> config,
           history |-> History(w.covered, w.last), hits |-> [b \in {} |-> None],
           fed |-> {}, due |-> w.first, last |-> w.last, mark |-> 0, zones |-> None]]
  BY DEF Begin
<1>2. /\ pc[r] = "begin" /\ pc' = [pc EXCEPT ![r] = "prune"]
      /\ straddled' = (straddled \/ mem[r].code # release) /\ cache' = cache
  BY DEF Begin, Goto
<1>3. Control'
  BY <1>1, <1>2 DEF IInv, Control, Active
<1>4. \A b \in Bar : RowSound(b)'
  BY <1>2 DEF IInv, RowSound
<1>5. DOMAIN History(w.covered, w.last) \subseteq Bar
  BY WindowAssumption, BoundAssumption DEF History, Bar
<1>6. ReplaySound(r)'
  BY <1>1, <1>2, <1>5 DEF IInv, Control, ReplaySound, HoldsFrame, HitsSound, MemFields
<1>7. ASSUME NEW q \in Replay, q # r PROVE ReplaySound(q)'
  BY <1>1, <1>2, <1>7 DEF IInv, Control, ReplaySound, HoldsFrame, HitsSound, InHandSound, Now
<1> QED BY <1>3, <1>4, <1>6, <1>7 DEF IInv

LEMMA PrunePreserves == ASSUME IInv, NEW r \in Replay, Prune(r) PROVE IInv'
<1>1. /\ pc[r] = "prune" /\ pc' = [pc EXCEPT ![r] = "load"] /\ UNCHANGED <<mem, straddled>>
      /\ DOMAIN cache' = Bar /\ \A b \in Bar : cache'[b] \in {None, cache[b]}
  BY DEF Prune, Goto
<1>2. Control'
  BY <1>1 DEF IInv, Control, Active
<1>3. \A b \in Bar : RowSound(b)'
  BY <1>1 DEF IInv, RowSound
<1>4. ReplaySound(r)'
  BY <1>1 DEF IInv, Control, ReplaySound, HoldsFrame, HitsSound, Active
<1> QED BY <1>1, <1>2, <1>3, <1>4, OwnStep DEF IInv, Control

\* The read validates each row against the reader's own inputs.
LEMMA LoadHitsPreserves == ASSUME IInv, NEW r \in Replay, LoadHits(r) PROVE IInv'
<1> DEFINE hits == mem'[r].hits
<1>1. /\ pc[r] = "load" /\ pc' = [pc EXCEPT ![r] = "bar"] /\ UNCHANGED <<cache, straddled>>
  BY DEF LoadHits, Goto
<1>2. HoldsFrame(r)
  BY <1>1 DEF IInv, ReplaySound, Active
<1>3. PICK reused \in SUBSET DOMAIN mem[r].history :
        /\ \A b \in reused : Reusable(r, b)
        /\ mem' = [mem EXCEPT ![r].hits = [b \in reused |-> cache[b].zones]]
  BY DEF LoadHits
<1>4. /\ DOMAIN mem' = Replay /\ \A q \in Replay \ {r} : mem'[q] = mem[q]
      /\ DOMAIN mem'[r] = DOMAIN mem[r] /\ hits = [b \in reused |-> cache[b].zones]
      /\ \A field \in MemFields \ {"hits"} : mem'[r][field] = mem[r][field]
  BY <1>2, <1>3 DEF IInv, Control, HoldsFrame, MemFields
<1> HIDE DEF hits
<1>5. HoldsFrame(r)'
  BY <1>1, <1>2, <1>4 DEF HoldsFrame, MemFields
<1>6. ASSUME NEW b \in reused
      PROVE  /\ Detected(hits[b], mem[r].config, Prefix(mem[r].history, b))
             /\ ~straddled => hits[b].code = mem[r].code
  <2>1. b \in Bar /\ RowSound(b) /\ Reusable(r, b)
    BY <1>2, <1>3 DEF IInv, HoldsFrame
  <2> QED BY <1>2, <1>4, <2>1, ReusableIsSound
<1>7. HitsSound(r)'
  BY <1>1, <1>4, <1>6 DEF HitsSound, hits, MemFields
<1>8. ReplaySound(r)'
  BY <1>1, <1>5, <1>7 DEF IInv, Control, ReplaySound
<1>9. Control'
  BY <1>1, <1>4 DEF IInv, Control, Active
<1> QED BY <1>1, <1>4, <1>8, <1>9, CacheKept, OwnStep DEF IInv, Control

\* What Hit, Build, Store and Advance leave alone.
LEMMA FrameKept ==
  ASSUME NEW r \in Replay, HoldsFrame(r), HitsSound(r), straddled' = straddled,
         DOMAIN mem'[r] = DOMAIN mem[r],
         \A field \in {"code", "signature", "config", "history", "hits"} :
           mem'[r][field] = mem[r][field]
  PROVE  HoldsFrame(r)' /\ HitsSound(r)'
<1>1. /\ mem'[r].code = mem[r].code /\ mem'[r].signature = mem[r].signature
      /\ mem'[r].config = mem[r].config /\ mem'[r].history = mem[r].history
      /\ mem'[r].hits = mem[r].hits
  OBVIOUS
<1> QED BY <1>1 DEF HoldsFrame, HitsSound

LEMMA HitPreserves == ASSUME IInv, NEW r \in Replay, Hit(r) PROVE IInv'
<1>1. /\ pc[r] = "bar" /\ pc' = [pc EXCEPT ![r] = "advance"] /\ UNCHANGED <<cache, straddled>>
      /\ Now(r) \in DOMAIN mem[r].hits
  BY DEF Hit, Goto
<1>2. HoldsFrame(r) /\ HitsSound(r)
  BY <1>1 DEF IInv, ReplaySound, Active
<1>3. PICK fed :
        mem' = [mem EXCEPT ![r].zones = mem[r].hits[Now(r)], ![r].fed = fed]
  BY DEF Hit
<1>4. /\ DOMAIN mem' = Replay /\ \A q \in Replay \ {r} : mem'[q] = mem[q]
      /\ DOMAIN mem'[r] = DOMAIN mem[r] /\ mem'[r].zones = mem[r].hits[Now(r)]
      /\ \A field \in MemFields \ {"zones", "fed"} : mem'[r][field] = mem[r][field]
  BY <1>2, <1>3 DEF IInv, Control, HoldsFrame, MemFields
<1>5. HoldsFrame(r)' /\ HitsSound(r)'
  BY <1>1, <1>2, <1>4, FrameKept DEF MemFields
<1>6. InHandSound(r)'
  <2>1. mem'[r].history = mem[r].history /\ mem'[r].due = mem[r].due
        /\ mem'[r].config = mem[r].config /\ mem'[r].code = mem[r].code
    BY <1>4 DEF MemFields
  <2> QED BY <1>1, <1>2, <1>4, <2>1 DEF InHandSound, HitsSound, Now
<1>7. Control' /\ ReplaySound(r)'
  BY <1>1, <1>4, <1>5, <1>6 DEF IInv, Control, ReplaySound, Active
<1> QED BY <1>1, <1>4, <1>7, CacheKept, OwnStep DEF IInv, Control

\* The bars ingested up to the last one that had ended are the prefix.
LEMMA BuildPreserves == ASSUME IInv, NEW r \in Replay, Build(r) PROVE IInv'
<1> DEFINE built == [code |-> mem[r].code, config |-> mem[r].config,
                     bars |-> [b \in Ingested(r) |-> mem[r].history[b]]]
<1>1. /\ pc[r] = "bar" /\ pc' = [pc EXCEPT ![r] = "store"] /\ UNCHANGED <<cache, straddled>>
      /\ Contiguous(Ingested(r))
      /\ mem' = [mem EXCEPT ![r].fed = Ingested(r), ![r].zones = built]
  BY DEF Build, Goto
<1>2. HoldsFrame(r) /\ HitsSound(r)
  BY <1>1 DEF IInv, ReplaySound, Active
<1>3. Detected(built, mem[r].config, Prefix(mem[r].history, Now(r)))
  BY <1>1 DEF Detected, Prefix, Ingested
<1>4. built.code = mem[r].code
  OBVIOUS
<1> HIDE DEF built
<1>5. /\ DOMAIN mem' = Replay /\ \A q \in Replay \ {r} : mem'[q] = mem[q]
      /\ DOMAIN mem'[r] = DOMAIN mem[r] /\ mem'[r].zones = built
      /\ \A field \in MemFields \ {"zones", "fed"} : mem'[r][field] = mem[r][field]
  BY <1>1, <1>2 DEF IInv, Control, HoldsFrame, MemFields
<1>6. HoldsFrame(r)' /\ HitsSound(r)'
  BY <1>1, <1>2, <1>5, FrameKept DEF MemFields
<1>7. InHandSound(r)'
  <2>1. mem'[r].history = mem[r].history /\ mem'[r].due = mem[r].due
        /\ mem'[r].config = mem[r].config /\ mem'[r].code = mem[r].code
    BY <1>5 DEF MemFields
  <2> QED BY <1>3, <1>4, <1>5, <2>1 DEF InHandSound, Now
<1>8. Control' /\ ReplaySound(r)'
  BY <1>1, <1>5, <1>6, <1>7 DEF IInv, Control, ReplaySound, Active
<1> QED BY <1>1, <1>5, <1>8, CacheKept, OwnStep DEF IInv, Control

\* The row is filed under the prefix the zones were built from.
LEMMA StorePreserves == ASSUME IInv, NEW r \in Replay, Store(r) PROVE IInv'
<1> DEFINE row == [signature |-> mem[r].signature, config |-> mem[r].config,
                   hash |-> Prefix(mem[r].history, Now(r)), zones |-> mem[r].zones]
<1>1. /\ pc[r] = "store" /\ pc' = [pc EXCEPT ![r] = "advance"] /\ UNCHANGED <<mem, straddled>>
      /\ cache' = [cache EXCEPT ![Now(r)] = row]
  BY DEF Store, Goto
<1>2. HoldsFrame(r) /\ HitsSound(r) /\ InHandSound(r)
  BY <1>1 DEF IInv, ReplaySound, Active
<1>3. ASSUME NEW b \in Bar PROVE RowSound(b)'
  <2>1. CASE b # Now(r)
    BY <1>1, <2>1 DEF IInv, Control, RowSound
  <2>2. CASE b = Now(r)
    <3>1. cache'[b] = row
      BY <1>1, <2>2 DEF IInv, Control
    <3>2. row.hash = Prefix(row.hash, b)
      BY <2>2, PrefixTwice
    <3>3. /\ Detected(row.zones, row.config, row.hash)
          /\ ~straddled => row.zones.code = row.signature
          /\ DOMAIN row = {"signature", "config", "hash", "zones"}
      BY <1>2 DEF InHandSound, HoldsFrame
    <3> HIDE DEF row
    <3> QED BY <1>1, <3>1, <3>2, <3>3 DEF RowSound
  <2> QED BY <2>1, <2>2
<1>4. Control' /\ ReplaySound(r)'
  BY <1>1, <1>2 DEF IInv, Control, ReplaySound, HoldsFrame, HitsSound, InHandSound, Now, Active
<1> QED BY <1>1, <1>3, <1>4, OwnStep DEF IInv, Control

LEMMA AdvancePreserves == ASSUME IInv, NEW r \in Replay, Advance(r) PROVE IInv'
<1>1. pc[r] = "advance" /\ UNCHANGED <<cache, straddled>>
  BY DEF Advance
<1>2. HoldsFrame(r) /\ HitsSound(r)
  BY <1>1 DEF IInv, ReplaySound, Active
<1>3. CASE pc' = [pc EXCEPT ![r] = "idle"] /\ mem' = [mem EXCEPT ![r] = None]
  <2>1. Control' /\ ReplaySound(r)'
    BY <1>3, <1>1 DEF IInv, Control, ReplaySound, Active
  <2> QED BY <1>1, <1>3, <2>1, CacheKept, OwnStep DEF IInv, Control
<1>4. ASSUME NEW due, pc' = [pc EXCEPT ![r] = "bar"],
             mem' = [mem EXCEPT ![r].mark = Now(r), ![r].due = due, ![r].zones = None]
      PROVE  IInv'
  <2>1. /\ DOMAIN mem' = Replay /\ \A q \in Replay \ {r} : mem'[q] = mem[q]
        /\ DOMAIN mem'[r] = DOMAIN mem[r]
        /\ \A field \in MemFields \ {"zones", "mark", "due"} : mem'[r][field] = mem[r][field]
    BY <1>2, <1>4 DEF IInv, Control, HoldsFrame, MemFields
  <2>2. HoldsFrame(r)' /\ HitsSound(r)'
    BY <1>1, <1>2, <2>1, FrameKept DEF MemFields
  <2>3. Control' /\ ReplaySound(r)'
    BY <1>1, <1>4, <2>1, <2>2 DEF IInv, Control, ReplaySound, Active
  <2> QED BY <1>1, <1>4, <2>1, <2>3, CacheKept, OwnStep DEF IInv, Control
<1> QED BY <1>3, <1>4 DEF Advance, Goto

LEMMA StopPreserves == ASSUME IInv, NEW r \in Replay, Stop(r) PROVE IInv'
<1>1. Control' /\ ReplaySound(r)'
  BY DEF Stop, Goto, IInv, Control, ReplaySound, Active
<1> QED BY <1>1, CacheKept, OwnStep DEF Stop, Goto, IInv, Control

LEMMA StepPreserves == IInv /\ [Next]_vars => IInv'
<1> SUFFICES ASSUME IInv, [Next]_vars PROVE IInv'
  OBVIOUS
<1>1. CASE UNCHANGED vars
  BY <1>1 DEF vars, IInv, Control, RowSound, ReplaySound, HoldsFrame, HitsSound, InHandSound, Now
<1>2. CASE Ingest \/ Install \/ Damage
  BY <1>2, EnvironmentPreserves
<1>3. ASSUME NEW r \in Replay, Step(r) PROVE IInv'
  BY <1>3, LaunchPreserves, BeginPreserves, PrunePreserves, LoadHitsPreserves,
     HitPreserves, BuildPreserves, StorePreserves, AdvancePreserves, StopPreserves DEF Step
<1> QED BY <1>1, <1>2, <1>3 DEF Next

THEOREM Invariance == Spec => []IInv
BY InitIInv, StepPreserves, PTL DEF Spec

\* Whatever replays share the cache, a replay goes on only with the zones its
\* own configuration and its own candles give, without a gap or a later bar.
THEOREM ZonesAreOwnAlways == Spec => []ZonesAreOwn
<1>1. IInv => ZonesAreOwn
  BY PrefixDomain DEF IInv, ReplaySound, InHandSound, Detected, ZonesAreOwn
<1> QED BY <1>1, Invariance, PTL

\* Every row is filed under the inputs of its zones.
THEOREM RowsNameTheirInputsAlways == Spec => []RowsNameTheirInputs
<1>1. IInv => RowsNameTheirInputs
  BY DEF IInv, RowSound, Detected, RowsNameTheirInputs
<1> QED BY <1>1, Invariance, PTL

\* As long as no process starts while a release is installed, no replay uses
\* zones of other code than it runs.
THEOREM ZonesOfOwnCodeAlways == Spec => []ZonesOfOwnCode
<1>1. IInv => ZonesOfOwnCode
  BY DEF IInv, ReplaySound, InHandSound, ZonesOfOwnCode
<1> QED BY <1>1, Invariance, PTL

(***************************************************************************)
(* The types.  The one that is not read off the statements is that of the  *)
(* mark: the bar in hand is the newest that had ended, which exists, and   *)
(* is no newer than the one that is due.                                   *)
(***************************************************************************)

\* Bars that have any, have a newest: those after it are the fewest.
LEMMA NewestOfBars ==
  ASSUME NEW bars \in SUBSET Bar, bars # {}
  PROVE  \E b \in bars : \A x \in bars : x <= b
<1> DEFINE after(b) == {x \in Bar : x > b}
           tails == {after(b) : b \in bars}
<1>1. IsFiniteSet(Bar)
  BY BoundAssumption, FS_Interval DEF Bar
<1>2. tails \subseteq FiniteSubsetsOf(Bar) /\ tails # {}
  <2>1. \A b : after(b) \in SUBSET Bar /\ IsFiniteSet(after(b))
    BY <1>1, FS_Subset
  <2> QED BY <2>1 DEF FiniteSubsetsOf
<1> HIDE DEF tails
<1>3. \E t \in tails : \A u \in tails : ~(<<u, t>> \in StrictSubsetOrdering(Bar))
  BY <1>2, FS_StrictSubsetOrderingWellFounded, WFMin
<1>4. PICK b \in bars : \A x \in bars : ~(<<after(x), after(b)>> \in StrictSubsetOrdering(Bar))
  BY <1>3 DEF tails
<1>5. ASSUME NEW x \in bars, x > b PROVE FALSE
  <2>1. after(x) \subseteq after(b) /\ x \in after(b) /\ x \notin after(x)
    BY <1>5, BoundAssumption DEF Bar
  <2> QED BY <1>4, <2>1 DEF StrictSubsetOrdering
<1> QED BY <1>5, BoundAssumption DEF Bar

LEMMA NowHasEnded ==
  ASSUME NEW r \in Replay, DOMAIN mem[r].history \subseteq Bar, HasBar(r)
  PROVE  Now(r) \in DOMAIN mem[r].history /\ Now(r) <= mem[r].due
<1>1. \E b \in {x \in DOMAIN mem[r].history : x <= mem[r].due} :
        \A x \in {y \in DOMAIN mem[r].history : y <= mem[r].due} : x <= b
  BY NewestOfBars DEF HasBar
<1>2. \E b : IsLatest(b, DOMAIN mem[r].history, mem[r].due)
  BY <1>1 DEF IsLatest
<1> QED BY <1>2 DEF Now, Latest, IsLatest

\* A prefix of a frame is a frame.
LEMMA PrefixIsFrame ==
  ASSUME NEW history \in Frame, NEW bar PROVE Prefix(history, bar) \in Frame
<1>1. PICK bars \in SUBSET Bar : history \in [bars -> Candle \X (0 .. MaxEdits)]
  BY DEF Frame
<1>2. Prefix(history, bar) \in [{x \in bars : x <= bar} -> Candle \X (0 .. MaxEdits)]
  BY <1>1 DEF Prefix
<1> QED BY <1>2 DEF Frame

LEMMA FrameOfBars == ASSUME NEW history \in Frame PROVE DOMAIN history \subseteq Bar
BY DEF Frame

\* The history a replay copies is a frame.
LEMMA HistoryIsFrame ==
  ASSUME NEW w \in Window, edits \in 0 .. MaxEdits, candles \in [Candle -> (0 .. edits) \union {None}]
  PROVE  History(w.covered, w.last) \in Frame
<1> DEFINE bars == {x \in 1 .. w.last : candles[Source(x, w.covered)] # None}
<1>1. /\ w.last \in Bar /\ MaxBar \in Nat /\ MaxEdits \in Nat
      /\ bars \in SUBSET Bar
  BY WindowAssumption, BoundAssumption DEF Bar
<1>2. ASSUME NEW b \in bars
      PROVE  <<Source(b, w.covered), candles[Source(b, w.covered)]>> \in Candle \X (0 .. MaxEdits)
  <2>1. Source(b, w.covered) \in Candle
    BY <1>1 DEF Source, Candle
  <2>2. candles[Source(b, w.covered)] \in 0 .. edits
    BY <2>1
  <2> QED BY <1>1, <2>1, <2>2
<1>3. History(w.covered, w.last) \in [bars -> Candle \X (0 .. MaxEdits)]
  BY <1>2 DEF History
<1> QED BY <1>1, <1>3 DEF Frame

LEMMA InitTyped == Init => TypeInv
BY BoundAssumption DEF Init, TypeInv, HeldTyped, Active

\* What a step of one replay leaves of the types.
LEMMA OwnTyped ==
  ASSUME NEW r \in Replay, TypeInv, DOMAIN mem' = Replay,
         pc' \in [Replay -> {"idle", "begin"} \union Active],
         \A q \in Replay \ {r} : pc'[q] = pc[q] /\ mem'[q] = mem[q],
         HeldTyped(r)', cache' \in [Bar -> Row \union {None}],
         UNCHANGED <<release, candles, edits>>
  PROVE  TypeInv'
<1>1. ASSUME NEW q \in Replay, q # r PROVE HeldTyped(q)'
  BY <1>1 DEF TypeInv, HeldTyped, HasBar
<1> QED BY <1>1 DEF TypeInv

LEMMA EnvironmentTyped == ASSUME TypeInv, Ingest \/ Install \/ Damage PROVE TypeInv'
<1> USE BoundAssumption
<1>1. UNCHANGED <<pc, mem>> /\ \A r \in Replay : HeldTyped(r)'
  BY DEF Ingest, Install, Damage, TypeInv, HeldTyped, HasBar
<1>2. CASE Ingest
  <2>1. PICK c \in Candle : candles' = [candles EXCEPT ![c] = IF @ = None THEN 0 ELSE @ + 1]
    BY <1>2 DEF Ingest
  <2>2. edits' = edits + 1 /\ edits < MaxEdits /\ UNCHANGED <<cache, release>>
    BY <1>2 DEF Ingest
  <2>3. edits' \in 0 .. MaxEdits /\ candles' \in [Candle -> (0 .. edits') \union {None}]
    BY <2>1, <2>2 DEF TypeInv
  <2> QED BY <1>1, <2>2, <2>3 DEF TypeInv
<1>3. CASE Install
  BY <1>1, <1>3 DEF Install, TypeInv
<1>4. CASE Damage
  <2>1. PICK b \in Bar : cache[b] # None /\ cache' = [cache EXCEPT ![b].zones = None]
    BY <1>4 DEF Damage
  <2>2. cache[b] \in Row
    BY <2>1 DEF TypeInv
  <2>3. [cache[b] EXCEPT !.zones = None] \in Row
    BY <2>2 DEF Row
  <2>4. cache' \in [Bar -> Row \union {None}]
    BY <2>1, <2>3 DEF TypeInv
  <2>5. edits' \in 0 .. MaxEdits /\ candles' \in [Candle -> (0 .. edits') \union {None}]
    BY <1>4 DEF Damage, TypeInv
  <2> QED BY <1>1, <1>4, <2>4, <2>5 DEF Damage, TypeInv
<1> QED BY <1>2, <1>3, <1>4

LEMMA LaunchTyped == ASSUME TypeInv, NEW r \in Replay, Launch(r) PROVE TypeInv'
<1>1. HeldTyped(r)'
  BY DEF Launch, Goto, TypeInv, HeldTyped, Active
<1> QED BY <1>1, OwnTyped DEF Launch, Goto, TypeInv

LEMMA BeginTyped == ASSUME TypeInv, NEW r \in Replay, Begin(r) PROVE TypeInv'
<1>1. PICK config \in Config, w \in Window :
        mem' = [mem EXCEPT ![r] =
          [code |-> mem[r].code, signature |-> release, config |-> config,
           history |-> History(w.covered, w.last), hits |-> [b \in {} |-> None],
           fed |-> {}, due |-> w.first, last |-> w.last, mark |-> 0, zones |-> None]]
  BY DEF Begin
<1>2. /\ pc[r] = "begin" /\ pc' = [pc EXCEPT ![r] = "prune"]
      /\ UNCHANGED <<cache, release, candles, edits>>
  BY DEF Begin, Goto
<1>3. /\ History(w.covered, w.last) \in Frame /\ mem[r].code \in 1 .. MaxRelease
      /\ {w.first, w.last} \subseteq Bar /\ w.first <= w.last /\ 0 < w.first /\ 0 \in 0 .. MaxBar
  BY <1>2, HistoryIsFrame, WindowAssumption, BoundAssumption DEF TypeInv, HeldTyped, Bar
<1>4. DOMAIN mem' = Replay /\ \A q \in Replay \ {r} : pc'[q] = pc[q] /\ mem'[q] = mem[q]
  BY <1>1, <1>2 DEF TypeInv
<1>5. Held(mem'[r])
  BY <1>1, <1>3 DEF TypeInv, Held, MemFields
<1>6. HeldTyped(r)'
  BY <1>2, <1>5 DEF TypeInv, HeldTyped
<1> QED BY <1>2, <1>4, <1>6, OwnTyped DEF TypeInv, Active

LEMMA PruneTyped == ASSUME TypeInv, NEW r \in Replay, Prune(r) PROVE TypeInv'
<1>1. HeldTyped(r)' /\ cache' \in [Bar -> Row \union {None}]
  BY DEF Prune, Goto, TypeInv, HeldTyped, Active
<1> QED BY <1>1, OwnTyped DEF Prune, Goto, TypeInv, Active

\* Of a field, what a step writes; of the others, what they were.
LEMMA LoadHitsTyped == ASSUME TypeInv, NEW r \in Replay, LoadHits(r) PROVE TypeInv'
<1>1. /\ pc[r] = "load" /\ pc' = [pc EXCEPT ![r] = "bar"]
      /\ UNCHANGED <<cache, release, candles, edits>>
  BY DEF LoadHits, Goto
<1>2. PICK reused \in SUBSET DOMAIN mem[r].history :
        /\ \A b \in reused : Reusable(r, b)
        /\ mem' = [mem EXCEPT ![r].hits = [b \in reused |-> cache[b].zones]]
  BY DEF LoadHits
<1>3. Held(mem[r])
  BY <1>1 DEF TypeInv, HeldTyped, Active
<1>4. ASSUME NEW b \in reused PROVE b \in Bar /\ cache[b].zones \in Snapshot
  <2>1. b \in Bar
    BY <1>3, FrameOfBars DEF Held
  <2>2. cache[b] \in Row /\ cache[b].zones # None
    BY <1>2, <2>1 DEF Reusable, TypeInv
  <2> QED BY <2>1, <2>2 DEF Row
<1>5. Held(mem'[r])
  <2> DEFINE hits == [b \in reused |-> cache[b].zones]
  <2>1. DOMAIN hits \subseteq Bar /\ \A b \in DOMAIN hits : hits[b] \in Snapshot
    BY <1>4
  <2>2. mem'[r] = [mem[r] EXCEPT !.hits = hits]
    BY <1>2 DEF TypeInv
  <2> HIDE DEF hits
  <2> QED BY <1>3, <2>1, <2>2 DEF Held, MemFields
<1>6. HeldTyped(r)'
  BY <1>1, <1>5 DEF TypeInv, HeldTyped
<1> QED BY <1>1, <1>2, <1>6, OwnTyped DEF TypeInv, Active

LEMMA HitTyped == ASSUME TypeInv, NEW r \in Replay, Hit(r) PROVE TypeInv'
<1>1. /\ pc[r] = "bar" /\ pc' = [pc EXCEPT ![r] = "advance"] /\ HasBar(r)
      /\ Now(r) \in DOMAIN mem[r].hits /\ UNCHANGED <<cache, release, candles, edits>>
  BY DEF Hit, Goto
<1>2. Held(mem[r])
  BY <1>1 DEF TypeInv, HeldTyped, Active
<1>3. PICK fed \in SUBSET Bar, zones \in Snapshot :
        mem' = [mem EXCEPT ![r].zones = zones, ![r].fed = fed]
  <2>1. Ingested(r) \in SUBSET Bar /\ {} \in SUBSET Bar
    BY <1>2, FrameOfBars DEF Held, Ingested
  <2>2. mem[r].hits[Now(r)] \in Snapshot
    BY <1>1, <1>2 DEF Held
  <2> QED BY <2>1, <2>2 DEF Hit
<1>4. mem'[r] = [mem[r] EXCEPT !.zones = zones, !.fed = fed]
  BY <1>3 DEF TypeInv
<1>5. Held(mem'[r]) /\ mem'[r].history = mem[r].history /\ mem'[r].due = mem[r].due
  BY <1>2, <1>4 DEF Held, MemFields
<1>6. HeldTyped(r)'
  BY <1>1, <1>5 DEF TypeInv, HeldTyped, HasBar
<1> QED BY <1>1, <1>3, <1>6, OwnTyped DEF TypeInv, Active

LEMMA BuildTyped == ASSUME TypeInv, NEW r \in Replay, Build(r) PROVE TypeInv'
<1> DEFINE built == [code |-> mem[r].code, config |-> mem[r].config,
                     bars |-> [b \in Ingested(r) |-> mem[r].history[b]]]
<1>1. /\ pc[r] = "bar" /\ pc' = [pc EXCEPT ![r] = "store"] /\ HasBar(r)
      /\ UNCHANGED <<cache, release, candles, edits>>
      /\ mem' = [mem EXCEPT ![r].fed = Ingested(r), ![r].zones = built]
  BY DEF Build, Goto
<1>2. Held(mem[r])
  BY <1>1 DEF TypeInv, HeldTyped, Active
<1>3. Ingested(r) \in SUBSET Bar
  BY <1>2, FrameOfBars DEF Held, Ingested
<1>4. built \in Snapshot
  <2>1. [b \in Ingested(r) |-> mem[r].history[b]] = Prefix(mem[r].history, Now(r))
    BY DEF Prefix, Ingested
  <2>2. Prefix(mem[r].history, Now(r)) \in Frame
    BY <1>2, PrefixIsFrame DEF Held
  <2> QED BY <1>2, <2>1, <2>2 DEF Held, Snapshot
<1> HIDE DEF built
<1>5. mem'[r] = [mem[r] EXCEPT !.fed = Ingested(r), !.zones = built]
  BY <1>1 DEF TypeInv
<1>6. Held(mem'[r]) /\ mem'[r].history = mem[r].history /\ mem'[r].due = mem[r].due
  BY <1>2, <1>3, <1>4, <1>5 DEF Held, MemFields
<1>7. HeldTyped(r)'
  BY <1>1, <1>6 DEF TypeInv, HeldTyped, HasBar
<1> QED BY <1>1, <1>7, OwnTyped DEF TypeInv, Active

LEMMA StoreTyped == ASSUME TypeInv, NEW r \in Replay, Store(r) PROVE TypeInv'
<1> DEFINE row == [signature |-> mem[r].signature, config |-> mem[r].config,
                   hash |-> Prefix(mem[r].history, Now(r)), zones |-> mem[r].zones]
<1>1. /\ pc[r] = "store" /\ pc' = [pc EXCEPT ![r] = "advance"]
      /\ UNCHANGED <<mem, release, candles, edits>> /\ cache' = [cache EXCEPT ![Now(r)] = row]
  BY DEF Store, Goto
<1>2. Held(mem[r]) /\ HasBar(r)
  BY <1>1 DEF TypeInv, HeldTyped, Active
<1>3. row \in Row
  BY <1>2, PrefixIsFrame DEF Held, Row
<1> HIDE DEF row
<1>4. cache' \in [Bar -> Row \union {None}]
  BY <1>1, <1>3 DEF TypeInv
<1>5. HeldTyped(r)'
  BY <1>1, <1>2 DEF TypeInv, HeldTyped, HasBar
<1> QED BY <1>1, <1>4, <1>5, OwnTyped DEF TypeInv, Active

\* The next due bar is after the one in hand.
LEMMA AdvanceTyped == ASSUME TypeInv, NEW r \in Replay, Advance(r) PROVE TypeInv'
<1>1. pc[r] = "advance" /\ UNCHANGED <<cache, release, candles, edits>>
  BY DEF Advance
<1>2. Held(mem[r]) /\ HasBar(r)
  BY <1>1 DEF TypeInv, HeldTyped, Active
<1>3. Now(r) \in Bar /\ Now(r) <= mem[r].due
  BY <1>2, NowHasEnded, FrameOfBars DEF Held
<1>4. CASE pc' = [pc EXCEPT ![r] = "idle"] /\ mem' = [mem EXCEPT ![r] = None]
  <2>1. HeldTyped(r)'
    BY <1>4 DEF TypeInv, HeldTyped, Active
  <2> QED BY <1>1, <1>4, <2>1, OwnTyped DEF TypeInv
<1>5. ASSUME NEW due \in {mem[r].due, mem[r].due + 1}, due = mem[r].due => Now(r) < due,
             ~(due > mem[r].last), pc' = [pc EXCEPT ![r] = "bar"],
             mem' = [mem EXCEPT ![r].mark = Now(r), ![r].due = due, ![r].zones = None]
      PROVE  TypeInv'
  <2>1. due \in Bar /\ Now(r) < due /\ due <= mem[r].last /\ Now(r) \in 0 .. MaxBar
    BY <1>2, <1>3, <1>5, BoundAssumption DEF Held, Bar
  <2>2. mem'[r] = [mem[r] EXCEPT !.mark = Now(r), !.due = due, !.zones = None]
    BY <1>5 DEF TypeInv
  <2>3. Held(mem'[r])
    BY <1>2, <2>1, <2>2 DEF Held, MemFields
  <2>4. HeldTyped(r)'
    BY <1>5, <2>3 DEF TypeInv, HeldTyped
  <2> QED BY <1>1, <1>5, <2>4, OwnTyped DEF TypeInv, Active
<1> QED BY <1>4, <1>5 DEF Advance, Goto

LEMMA StopTyped == ASSUME TypeInv, NEW r \in Replay, Stop(r) PROVE TypeInv'
<1>1. HeldTyped(r)'
  BY DEF Stop, Goto, TypeInv, HeldTyped, Active
<1> QED BY <1>1, OwnTyped DEF Stop, Goto, TypeInv

LEMMA StutterTyped == ASSUME TypeInv, UNCHANGED vars PROVE TypeInv'
BY DEF vars, TypeInv, HeldTyped, HasBar

\* A replay holds what the types say, and the mark of its tracks, the last bar they
\* took, lies below the bar that is due.  In a frame with a hole that bar is not
\* there, and the tracks may be asked for their last bar again: they refuse it.
THEOREM TypeCorrectness == Spec => []TypeOK
<1>1. TypeInv /\ [Next]_vars => TypeInv'
  BY EnvironmentTyped, LaunchTyped, BeginTyped, PruneTyped, LoadHitsTyped, HitTyped, BuildTyped,
     StoreTyped, AdvanceTyped, StopTyped, StutterTyped DEF Next, Step
<1>2. TypeInv => TypeOK
  BY DEF TypeInv, HeldTyped, Held, TypeOK
<1> QED BY InitTyped, <1>1, <1>2, PTL DEF Spec
=============================================================================
