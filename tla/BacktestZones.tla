--------------------------- MODULE BacktestZones ----------------------------
(***************************************************************************)
(* The zones of an offline replay and the table `backtest_zone_cache`      *)
(* (src/trading/backtest.py, backtest_zone_cache.py,                       *)
(* backtest_zone_state.py).  A replay copies the candles of its window,    *)
(* loads the cached snapshots it may use in one read, and then, 4h bar by  *)
(* bar, uses the one it has or builds and stores it, each in a commit of   *)
(* its own.  Replays of other windows, configurations and releases share   *)
(* the table, whose key is the bar alone.                                  *)
(*                                                                         *)
(* The detector is a function of its code, its configuration and the bars  *)
(* it is fed, so a snapshot is abstracted to these three.                  *)
(***************************************************************************)
EXTENDS Integers

CONSTANTS
  Replay,       \* processes
  Config,       \* detector configurations
  Window,       \* windows asked for, records [first, last, covered]
  Missing,      \* sets of candles that may be absent at first
  MaxBar,       \* bound of the 4h bars, all closed
  MaxRelease,   \* bound of the releases installed
  MaxEdits,     \* bound of the candles written after the start
  None

ASSUME BoundAssumption == {MaxBar, MaxRelease} \subseteq Nat \ {0} /\ MaxEdits \in Nat

\* The bars the first and the last trigger find ended, and the first bar whose
\* hours are all in the 1h window, which begins at least an hour earlier.
ASSUME WindowAssumption ==
  /\ Window \subseteq [first : 1 .. MaxBar, last : 1 .. MaxBar, covered : 1 .. MaxBar + 1]
  /\ \A w \in Window : w.first <= w.last /\ w.covered <= w.first + 2

VARIABLES
  pc,        \* next statement of each replay
  mem,       \* what it holds in memory
  cache,     \* table `backtest_zone_cache`, by bar
  release,   \* the source tree on disk
  candles,   \* revision of each bar in the 4h table and of its 1h candles
  edits,
  straddled  \* history: some process was starting while a release came in

vars == <<pc, mem, cache, release, candles, edits, straddled>>

Bar == 1 .. MaxBar

Candle == {"4h", "1h"} \X Bar

\* The 4h rows before the first bar the 1h window covers, then derived bars.
\* The two need not agree to the last digit.
Source(b, covered) == IF b < covered THEN <<"4h", b>> ELSE <<"1h", b>>

History(covered, last) ==
  [b \in {x \in 1 .. last : candles[Source(x, covered)] # None} |->
     <<Source(b, covered), candles[Source(b, covered)]>>]

Prefix(history, bar) == [b \in {x \in DOMAIN history : x <= bar} |-> history[b]]

Contiguous(bars) == \A x, y \in bars : \A b \in x .. y : b \in bars

\* The newest bar of a frame that had ended.
IsLatest(b, bars, due) == b \in bars /\ b <= due /\ \A x \in bars : x <= due => x <= b

\* Seeded fault: the newest bar of the frame, whether it had ended or not.
LatestOfFrame(bars, due) == CHOOSE b \in bars : \A x \in bars : x <= b

Latest(bars, due) == CHOOSE b \in bars : IsLatest(b, bars, due)

Now(r) == Latest(DOMAIN mem[r].history, mem[r].due)

HasBar(r) == \E b \in DOMAIN mem[r].history : b <= mem[r].due

\* advance_to: the bars not ingested yet, up to the target.
Ingested(r) == {b \in DOMAIN mem[r].history : b <= Now(r)}

\* Seeded fault: the table was just pruned, so the identity is not compared.
ReusableByHash(r, b) ==
  /\ cache[b] # None
  /\ cache[b].hash = Prefix(mem[r].history, b)
  /\ cache[b].zones # None

\* Seeded fault: a release may keep the snapshots of the one before.
ReusableAnyCode(r, b) ==
  /\ cache[b] # None
  /\ cache[b].config = mem[r].config
  /\ cache[b].hash = Prefix(mem[r].history, b)
  /\ cache[b].zones # None

\* _validated_cached_zones: a damaged payload is a miss.
Reusable(r, b) ==
  /\ cache[b] # None
  /\ cache[b].signature = mem[r].signature /\ cache[b].config = mem[r].config
  /\ cache[b].hash = Prefix(mem[r].history, b)
  /\ cache[b].zones # None

Init ==
  /\ pc = [r \in Replay |-> "idle"]
  /\ mem = [r \in Replay |-> None]
  /\ cache = [b \in Bar |-> None]
  /\ release = 1
  /\ \E absent \in Missing : candles = [c \in Candle |-> IF c \in absent THEN None ELSE 0]
  /\ edits = 0
  /\ straddled = FALSE

(***************************************************************************)
(* The environment: a backfill adds or corrects a candle, the updater      *)
(* installs a release, and a payload of the cache is damaged.              *)
(***************************************************************************)
Ingest ==
  /\ edits < MaxEdits
  /\ \E c \in Candle :
       candles' = [candles EXCEPT ![c] = IF @ = None THEN 0 ELSE @ + 1]
  /\ edits' = edits + 1
  /\ UNCHANGED <<pc, mem, cache, release, straddled>>

Install ==
  /\ release < MaxRelease
  /\ release' = release + 1
  /\ UNCHANGED <<pc, mem, cache, candles, edits, straddled>>

Damage ==
  /\ edits < MaxEdits
  /\ \E b \in Bar : cache[b] # None /\ cache' = [cache EXCEPT ![b].zones = None]
  /\ edits' = edits + 1
  /\ UNCHANGED <<pc, mem, release, candles, straddled>>

(***************************************************************************)
(* A replay.                                                               *)
(***************************************************************************)
Goto(r, label) == pc' = [pc EXCEPT ![r] = label]

\* The process imports the code it will run.
Launch(r) ==
  /\ pc[r] = "idle"
  /\ mem' = [mem EXCEPT ![r] = [code |-> release]]
  /\ Goto(r, "begin")
  /\ UNCHANGED <<cache, release, candles, edits, straddled>>

\* The 1h candles of the window must have no gap.  The signature hashes the
\* files on disk.
Begin(r) ==
  /\ pc[r] = "begin"
  /\ \E config \in Config, w \in Window :
       /\ \A b \in w.covered .. w.last : candles[<<"1h", b>>] # None
       /\ mem' = [mem EXCEPT ![r] =
            [code |-> mem[r].code, signature |-> release, config |-> config,
             history |-> History(w.covered, w.last), hits |-> [b \in {} |-> None],
             fed |-> {}, due |-> w.first, last |-> w.last, mark |-> 0, zones |-> None]]
  /\ Goto(r, "prune")
  /\ straddled' = (straddled \/ mem[r].code # release)
  /\ UNCHANGED <<cache, release, candles, edits>>

Prune(r) ==
  /\ pc[r] = "prune"
  /\ cache' = [b \in Bar |->
       IF cache[b] # None
            /\ (cache[b].signature # mem[r].signature \/ cache[b].config # mem[r].config)
         THEN None ELSE cache[b]]
  /\ Goto(r, "load")
  /\ UNCHANGED <<mem, release, candles, edits, straddled>>

\* One bulk read of the bars the triggers will ask for.
LoadHits(r) ==
  LET bars == DOMAIN mem[r].history
      asked == {b \in bars : \E d \in mem[r].due .. mem[r].last : IsLatest(b, bars, d)}
  IN /\ pc[r] = "load"
     /\ mem' = [mem EXCEPT ![r].hits =
          [b \in {x \in asked : Reusable(r, x)} |-> cache[b].zones]]
     /\ Goto(r, "bar")
     /\ UNCHANGED <<cache, release, candles, edits, straddled>>

\* The incremental state follows only once a miss has created it.
Hit(r) ==
  /\ pc[r] = "bar" /\ HasBar(r) /\ Now(r) \in DOMAIN mem[r].hits
  /\ mem[r].fed # {} => Contiguous(Ingested(r))
  /\ mem' = [mem EXCEPT ![r].zones = mem[r].hits[Now(r)],
                        ![r].fed = IF @ = {} THEN {} ELSE Ingested(r)]
  /\ Goto(r, "advance")
  /\ UNCHANGED <<cache, release, candles, edits, straddled>>

\* Seeded fault: the evidence is taken before the missing bars are ingested.
BuildStale(r) ==
  LET seen == IF mem[r].fed = {} THEN Ingested(r) ELSE mem[r].fed IN
  /\ pc[r] = "bar" /\ HasBar(r) /\ Now(r) \notin DOMAIN mem[r].hits
  /\ Contiguous(Ingested(r))
  /\ mem' = [mem EXCEPT ![r].fed = Ingested(r),
                        ![r].zones = [code |-> mem[r].code, config |-> mem[r].config,
                                      bars |-> [b \in seen |-> mem[r].history[b]]]]
  /\ Goto(r, "store")
  /\ UNCHANGED <<cache, release, candles, edits, straddled>>

\* A gap in the bars is refused by the incremental state.
Build(r) ==
  /\ pc[r] = "bar" /\ HasBar(r) /\ Now(r) \notin DOMAIN mem[r].hits
  /\ Contiguous(Ingested(r))
  /\ mem' = [mem EXCEPT ![r].fed = Ingested(r),
                        ![r].zones = [code |-> mem[r].code, config |-> mem[r].config,
                                      bars |-> [b \in Ingested(r) |-> mem[r].history[b]]]]
  /\ Goto(r, "store")
  /\ UNCHANGED <<cache, release, candles, edits, straddled>>

\* One commit per snapshot: a killed replay keeps what it has stored.
Store(r) ==
  /\ pc[r] = "store"
  /\ cache' = [cache EXCEPT ![Now(r)] =
       [signature |-> mem[r].signature, config |-> mem[r].config,
        hash |-> Prefix(mem[r].history, Now(r)), zones |-> mem[r].zones]]
  /\ Goto(r, "advance")
  /\ UNCHANGED <<mem, release, candles, edits, straddled>>

\* The tracks take each bar once; a frame that stops before the bar that is
\* due is asked again by the next trigger, and the tracks then refuse.
Advance(r) ==
  /\ pc[r] = "advance" /\ Now(r) > mem[r].mark
  /\ \E due \in {mem[r].due, mem[r].due + 1} :
       /\ due = mem[r].due => Now(r) < due
       /\ IF due > mem[r].last
            THEN Goto(r, "idle") /\ mem' = [mem EXCEPT ![r] = None]
            ELSE /\ Goto(r, "bar")
                 /\ mem' = [mem EXCEPT ![r].mark = Now(r), ![r].due = due, ![r].zones = None]
  /\ UNCHANGED <<cache, release, candles, edits, straddled>>

\* An error, or a killed process.
Stop(r) ==
  /\ pc[r] # "idle"
  /\ Goto(r, "idle") /\ mem' = [mem EXCEPT ![r] = None]
  /\ UNCHANGED <<cache, release, candles, edits, straddled>>

Step(r) ==
  \/ Launch(r) \/ Begin(r) \/ Prune(r) \/ LoadHits(r)
  \/ Hit(r) \/ Build(r) \/ Store(r) \/ Advance(r) \/ Stop(r)

Next == Ingest \/ Install \/ Damage \/ \E r \in Replay : Step(r)

Spec == Init /\ [][Next]_vars
(***************************************************************************)
(* Properties.                                                             *)
(***************************************************************************)
Frame == UNION {[bars -> Candle \X (0 .. MaxEdits)] : bars \in SUBSET Bar}

Snapshot == [code : 1 .. MaxRelease, config : Config, bars : Frame]

Row == [signature : 1 .. MaxRelease, config : Config, hash : Frame,
        zones : Snapshot \union {None}]

Active == {"prune", "load", "bar", "store", "advance"}

TypeOK ==
  /\ pc \in [Replay -> {"idle", "begin"} \union Active]
  /\ \A r \in Replay : pc[r] \in Active =>
       /\ mem[r].history \in Frame
       /\ DOMAIN mem[r].hits \subseteq Bar /\ mem[r].fed \subseteq Bar
       /\ mem[r].zones \in Snapshot \union {None}
       /\ mem[r].mark < mem[r].due /\ mem[r].due <= mem[r].last
  /\ cache \in [Bar -> Row \union {None}]
  /\ release \in 1 .. MaxRelease

\* README: cached snapshots are validated before use.  Whatever other replays
\* store meanwhile, the zones a replay goes on with are those its own
\* configuration gives for its own candles up to the last bar that had ended,
\* with no gap among them and none of a later bar.
ZonesAreOwn ==
  \A r \in Replay : pc[r] \in {"store", "advance"} =>
    /\ mem[r].zones.config = mem[r].config
    /\ mem[r].zones.bars = Prefix(mem[r].history, Now(r))
    /\ Contiguous(DOMAIN mem[r].zones.bars)

\* An interrupted replay loses no completed work: a row is filed under exactly
\* the inputs its zones were built from, so that a later replay of these finds
\* it, whatever window it has.
RowsNameTheirInputs ==
  \A b \in Bar : cache[b] # None /\ cache[b].zones # None =>
    /\ cache[b].zones.config = cache[b].config
    /\ cache[b].zones.bars = cache[b].hash
    /\ cache[b].hash = Prefix(cache[b].hash, b)

\* Code edits invalidate the snapshots built before them: a replay goes on only
\* with zones of the code it runs.  The signature is of the files on disk and
\* not of the code imported, so this needs that no process ever started while
\* a release was being installed.
ZonesOfOwnCode ==
  ~straddled =>
    \A r \in Replay : pc[r] \in {"store", "advance"} => mem[r].zones.code = mem[r].code

(***************************************************************************)
(* The inductive invariant: the rows of the cache, and the hits copied     *)
(* from it, are what the detector gives for the inputs they are filed      *)
(* under, and so is what a replay has in hand.                             *)
(***************************************************************************)
MemFields == {"code", "signature", "config", "history", "hits", "fed",
              "due", "last", "mark", "zones"}

Control ==
  /\ pc \in [Replay -> {"idle", "begin"} \union Active]
  /\ DOMAIN mem = Replay
  /\ DOMAIN cache = Bar

\* Detected(z, config, frame): z is a snapshot of the configuration and frame.
Detected(z, config, frame) ==
  z.config = config /\ z.bars = frame /\ Contiguous(DOMAIN frame)

RowSound(b) ==
  cache[b] # None =>
    /\ DOMAIN cache[b] = {"signature", "config", "hash", "zones"}
    /\ cache[b].zones # None =>
         /\ Detected(cache[b].zones, cache[b].config, cache[b].hash)
         /\ cache[b].hash = Prefix(cache[b].hash, b)
         /\ ~straddled => cache[b].zones.code = cache[b].signature

HoldsFrame(r) ==
  /\ DOMAIN mem[r] = MemFields
  /\ DOMAIN mem[r].history \subseteq Bar
  /\ ~straddled => mem[r].code = mem[r].signature

HitsSound(r) ==
  \A b \in DOMAIN mem[r].hits :
    /\ Detected(mem[r].hits[b], mem[r].config, Prefix(mem[r].history, b))
    /\ ~straddled => mem[r].hits[b].code = mem[r].code

InHandSound(r) ==
  /\ Detected(mem[r].zones, mem[r].config, Prefix(mem[r].history, Now(r)))
  /\ ~straddled => mem[r].zones.code = mem[r].code

ReplaySound(r) ==
  /\ pc[r] = "begin" => DOMAIN mem[r] = {"code"}
  /\ pc[r] \in Active => HoldsFrame(r) /\ HitsSound(r)
  /\ pc[r] \in {"store", "advance"} => InHandSound(r)

IInv ==
  /\ Control
  /\ \A b \in Bar : RowSound(b)
  /\ \A r \in Replay : ReplaySound(r)

(***************************************************************************)
(* The types of everything a replay holds.  A bar that is in hand is one   *)
(* that had ended when it was due, which is why the mark stays behind.     *)
(***************************************************************************)
Held(m) ==
  /\ DOMAIN m = MemFields
  /\ {m.code, m.signature} \subseteq 1 .. MaxRelease
  /\ m.config \in Config
  /\ m.history \in Frame
  /\ DOMAIN m.hits \subseteq Bar /\ \A b \in DOMAIN m.hits : m.hits[b] \in Snapshot
  /\ m.fed \subseteq Bar
  /\ {m.due, m.last} \subseteq Bar /\ m.mark \in 0 .. MaxBar
  /\ m.mark < m.due /\ m.due <= m.last
  /\ m.zones \in Snapshot \union {None}

HeldTyped(r) ==
  /\ pc[r] = "begin" => mem[r] \in [code : 1 .. MaxRelease]
  /\ pc[r] \in Active => Held(mem[r])
  /\ pc[r] \in {"store", "advance"} => HasBar(r)

TypeInv ==
  /\ pc \in [Replay -> {"idle", "begin"} \union Active]
  /\ DOMAIN mem = Replay /\ \A r \in Replay : HeldTyped(r)
  /\ cache \in [Bar -> Row \union {None}]
  /\ release \in 1 .. MaxRelease
  /\ edits \in 0 .. MaxEdits
  /\ candles \in [Candle -> (0 .. edits) \union {None}]
=============================================================================
