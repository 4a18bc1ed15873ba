# A formal model of buy_dips

buy_dips buys PRANA with USDT when the price of BTC dips to a support zone. One
command, `trade-once`, runs every hour from a systemd timer: it fetches closed
candles, keeps a ladder of support zones, decides `BUY` or `HOLD`, and in `live`
mode approves, signs and broadcasts one swap on Polygon. This directory holds
TLA+ specifications of that path, the TLC configurations that check them, and
proofs of the main results for TLAPS.

Source paths below are relative to the repository.

## 1. The system

| component | code | state | operations | modelled by |
|---|---|---|---|---|
| trade execution | `src/trading/runner.py`, `store.py`, `risk.py`, `transaction.py` | `trade_executions` | admit, quote, approve, sign, reserve the hash, broadcast, await the receipt, record failures, reconcile | `TradeExecution`, `SwapLedger` |
| sticky zone tracks | `src/trading/zone_tracks.py` | list of tracks, kept in `bot_state` | bootstrap, advance, publish | `ZoneTracks`, `PublishedLadder` |
| zone refresh, 4h bars | `zone_refresh.py`, `state_store.py`, `aggregate_4h.py`, `binance_hourly.py`, `src/binance_client.py` | `candles`, `zones`, `zone_sets`, watermark and tracks in `bot_state` | fetch, derive, load or rebuild | `ZoneRefresh`; what a rebuild hands on, `PublishedLadder` |
| strategy `support_close_v2` | `signal.py` | none | the gates of a BUY | `SupportClose` |
| decision record | `runner.py`, `store.py` | `decisions` | look up earlier buys, upsert, start the execution | `HourlyDecision` |
| allowance | `approval.py`, `transaction.py` | USDT allowance and pending transactions of one wallet | approve, revoke, top up, simulate, swap | `WalletApprovals`; a step of `TradeExecution` |
| swap quote | `prana_swap.py` | none | request, validate, minimum output | a step of `TradeExecution` that succeeds or refuses |
| backtest | `backtest.py`, `backtest_zone_state.py`, `backtest_zone_cache.py` | `backtest_zone_cache` | replay, prune, load, build and store snapshots | `BacktestZones`; its decisions planned |
| zone detector | `src/zones/*.py` | incremental evidence | pivots, prominent swings, reclaims, daily bars; structural and local zones, overlays | evidence by `Swings`, zones by `ZoneBands`, `StructureZones`, `LocalReactions`, `ZoneOverlays`, `SupportLadder` |
| ladder postprocessing | `src/zones/postprocess.py` | none | make distinct, space and fill the ladder | `SupportLadder`; the spacing rule also in `ZoneTracks` |
| deploy updater | `scripts/prana-buy-dips-update` | timer, service, ownership, commit, virtualenv | stop, back up, unlock, pull, re-lock, verify, restore | `DeployUpdate` |
| contract checks, configuration, wallet | `contract_checks.py`, `src/config.py`, `wallet.py` | none, keystore | compare constants with chain reads, validate, decrypt | not modelled |
| audit log, CLI, charts, scripts | `audit_logging.py`, `src/cli.py`, `*chart*` | none read by the rest | format, parse, display | not modelled |

### How the parts interact

A cycle is a short process. It reads the clock, fetches hours into `candles`,
derives 4h bars, loads or rebuilds the zones of the last bar that has ended,
evaluates the gates on the last closed hour, upserts one row of `decisions`, and
for a `BUY` in `dry_run` or `live` runs the execution. The only shared state is
one SQLite file and the chain. Two cycles overlap when the operator runs
`trade-once` by hand beside the timer, which the docs tell the operator to do to
reconcile a pending swap. An offline `backtest` reads the same candles and
decides in memory with the same gates; of the tables it writes only the cache of
its zone snapshots, which replays of other windows, configurations and releases
share.

```
candles --derive--> bars --detect----> ladder --tracks--> zones --gates--> decisions
   ZoneRefresh       Swings, SupportLadder   ZoneTracks   SupportClose, HourlyDecision
                           `-- PublishedLadder --'

decisions --> trade_executions --> chain      approvals --> chain      updater --> timer --> cycle
  TradeExecution, SwapLedger               WalletApprovals         DeployUpdate
```

Approvals and swaps of one wallet share the nonces of the chain and no lock. The
updater replaces the code under the timer: it stops the timer, hands the checkout
to the bot's user for a pull, takes it back and starts the timer again.

### What is hard

* Cycles overlap, die between any two statements, and read in autocommit what
  they write later. Two transactions are `BEGIN IMMEDIATE`: the admission of an
  execution and the rebuild of zones.
* A swap may be mined after the receipt wait timed out, its hash may be signed
  and never sent, or sent and the answer lost.
* A cycle reads the clock several times (due bar, closedness of rows,
  `created_at`, day of the cap), and an hour or a day may end in between.
* The sticky tracks count prints, misses and wins over many bars.
* What blocks a second buy of a setup is looked up in rows that reruns overwrite.
* A replay builds the detector's evidence bar by bar, a live cycle from the whole
  frame; a pivot is known only bars after it printed.
* The ladder is rebuilt from nothing for every bar, in a dozen passes that each
  merge, drop, pin or insert zones which later passes compare anew.
* The allowance is read, topped up and used by commands that do not know of each
  other, and a transaction that timed out may still be mined.
* An update changes timer, ownership, code and dependencies one after the other,
  and may fail, be signalled or lose power between any two.
* Cached zones of a replay are keyed by their bar alone, pruned and overwritten by
  replays of other inputs, and outlive the code that built them.

### What makes each part correct

* Trade execution: never two unresolved swaps, never a broadcast without a
  durable hash, never two broadcasts for one BUY, statuses that do not lie about
  the chain, the daily cap; and every cycle ends and a mined swap is recorded.
* Zone refresh: watermark, zones and tracks move together, a stored set never
  changes, tracks are continued only from the bar before, no look-ahead, and the
  zones catch up after downtime.
* Tracks: a shelf appears, moves and leaves only on repeated evidence, no shelf
  outlives an empty detector and no level waits twice, whatever bars the detector
  makes its ladders of.
* Detector evidence: the same bars give the same evidence either way; a reclaim is
  dated once, and a shelf does not lose its origin to a later bar.
* Ladder: a pinned floor stays for good, a fill never displaces what it was
  measured against, a flip never costs a step.
* Allowance: a reported revocation bars the grants it counted, the gas that was
  checked is enough, a simulated swap finds its allowance, every command ends.
* Updater: no cycle starts while the checkout is edited, the timer is as the operator
  set it or off, trading starts only over a whole and locked checkout.
* Decision: one buy per setup, a cooldown per shelf, no buy of a shelf from
  below, reruns that agree.
* Backtest: a replay uses only the zones its own candles, configuration and code
  give, an interrupted replay loses no stored work, and the candles it leaves out
  do not matter.

The hazards, each at its line, are listed in `PROJECT.json`.

## 2. The modules

### TradeExecution and SwapLedger

`exec` is the table `trade_executions`: of a row it keeps the status, whether
`transaction_hash` is set, and `created_at`. `pc`, `dec` and `got` are a running
cycle: where it is, its decision, and what it has read and not yet written. `tx`
is the node's view of the swap of a decision, `now` the clock in hours. `sends`,
`gateAt` and `signedAt` are history variables.

| action | code |
|---|---|
| `Decide` | `_run_trade_once` reaches `_run_execution` with a BUY; only within the hour after its candle |
| `Admit`, `Skip`, `Rejoin` | the `BEGIN IMMEDIATE` block of `_run_execution`: insert or find the row, the risk gate with its own clock read, commit |
| `Quote`, `Refuse`, `Simulate`, `Approve` | the checks, the quote, the top-up; refusals are written without a look at the row |
| `Sign`, `Reserve`, `Broadcast`, `RecordBroadcast` | `prepare_signed_swap`, the save of nonce and hash, `broadcast_signed_swap`, the save of `broadcast` |
| `AwaitReceipt`, `SaveReceipt` | `wait_for_swap_receipt`, where a timeout reads as `pending`, and its save |
| `Raise`, `ReadForFailure`, `SaveFailure` | any exception, and `_record_execution_failure` |
| `Reconcile`, `SaveReconciled` | the rerun that finds a hash |
| `Crash`, `Mine`, `TickHour` | the world |

`SwapLedger` is what all this promises seen from the chain: a swap is reserved,
sent, mined, one at a time. `ImplementsLedger` is the refinement.

### ZoneRefresh

An action is one connection's work; `Derive` groups the reads of the closed
hours and of the watermark with the upsert of the bars, which no other statement
separates in a way the properties see. `hours` says of each hour whether it is absent, stored
while it was still open (`partial`) or final. A zone set is abstracted to its
*origin*, the bar at which its tracks were bootstrapped: two sets of a bar with
one origin were advanced over the same bars. `Commit` is the transaction that
re-reads the watermark and writes zones, manifest, watermark and tracks.

### ZoneTracks

`tracks` is the list of `ZoneTrackState` in its order, `recent` the last
snapshots of the detector (history). A zone is its band and family. `Advance`
is one call of `advance`: matches, challengers, misses, new pending tracks, in
the code's order and with its tie breaks. The detector may report any ladder
whose bands keep a distance, and score it as it likes; bands may be any set, of
which a snapshot is a finite part. The distance (`LadderEdge`, `LadderMid`) is the
detector's own and may be less than the step by which tracks are matched
(`EdgeGap`, `MidGap`): where a gap was filled `Crowds` asks only for the configured
clearance. The properties speak of `Steps`: every step of `advance`, the bootstrap
excepted.

### PublishedLadder

Joins `SupportLadder` and `ZoneTracks`. `Close` is a bar that closes while no cycle
runs, `Refresh` the part of `refresh_zones` between the two: of the last bar, if it
was not built yet and there are bars enough, the ladder becomes a snapshot
(`Reported`, `ScoreIn`) and the tracks are advanced, or bootstrapped when the last
rebuild was not of the bar before (`Restored`, `watermark`). Of a zone the tracks
see bounds, source timeframe and bounds style (`BandOf`), which is what
`make_zone_track_id` hashes. Cycles do not race here; that is `ZoneRefresh`.
`StepAssumption` says how the constants of the two parts belong together.

### SupportClose and HourlyDecision

`SupportClose` has the gates of `evaluate_support_close_v2` as predicates over
the closed candles and a zone set; prices are integers and ratios are compared
by products. `HourlyDecision` puts them in the cycle: `Load`, `Evaluate` (gates
and the two lookups), `Insert` (the upsert), `Execute`, `Stop`. `Load` takes any
ladder of a small set for each new bar. It may take the bar before the one that
ended with the trigger hour: `ZoneRefresh` has that behaviour, since `runner.py:103`
reads the clock before the fetch. `Execute` is all of
`TradeExecution` in one step. Zone ladders have distinct lows and shelves
(`LadderAssumption`), as the spacing rule gives them.

`first` is the oldest hour in memory: 1 in a live cycle, which holds every
candle, and the start minus the lookback in a replay.

### BacktestZones

`cache` is the table `backtest_zone_cache`, `candles` the revision of each 4h row
and of the hours of each bar, `release` the source tree on disk, and `mem` what a
replay holds: its copy of the candles up to its last bar (4h rows before the
first bar its hours cover, derived bars from there), the hits it loaded, the bars
its incremental detector was fed, the bar that is due, and the zones in hand. A
snapshot is abstracted to the code, configuration and bars it was built from.

| action | code |
|---|---|
| `Launch` | the process imports its code |
| `Begin` | `run_backtest` up to the identity: candles, continuity, prefix hashes, signature of the files on disk |
| `Prune`, `LoadHits` | `prune_incompatible_zone_cache`, `load_cached_zone_snapshots` |
| `Hit`, `Build`, `Store` | the branches of the loop on a new bar, the store in a commit of its own |
| `Advance` | `track_state.advance`, which refuses a bar it has seen, and the next trigger that finds a bar due |
| `Stop` | any exception or a killed process |
| `Ingest`, `Install`, `Damage` | a candle written, a release installed, a payload damaged |

All bars are closed from the start; that bars are appended between replays shows
in the windows having different ends. The hours of a bar are one revision.

### Swings

`Advance` is one call of `IncrementalZoneDetectorState.advance` on the next closed
candle; the lists, the pending highs, the map of reclaims, the daily bucket and
the daily series are its fields. `Extract` is `extract_zone_detector_evidence` on
the same bars. The two share the helpers they share in the code (the test of one
center, the prominent reducer, the ATR) and differ where the code differs: when
a center is looked at, how reclaims are found, how days are formed. `Candidates`
and `DailyOrigins` are what zones are drawn from.

An ATR is a fraction, so comparisons are exact. Opens, and with them bodies and
wick floors, are left out; a history begins at any 4h slot of a day. A candle that
is not the next one raises before anything is written, which ends the replay.

### ZoneBands, StructureZones, LocalReactions, ZoneOverlays, SupportLadder

`SupportLadder` is `materialize_support_zones` over evidence that grows by a bar at
a time: `Bar` and `Confirm` close a bar, reclaim the highs it clears, perhaps
confirm a pivot taken from a menu, and build the ladder anew. What a pivot is and
when it is confirmed is the business of `Swings`. The passes are operators, one
per function, in the modules named after the files: widths, zones and clusters in
`ZoneBands`; candidates, macro groups, bridges and thinning in `StructureZones`;
recent internal swings in `LocalReactions`; split rejections, daily lows and
pinned floors in `ZoneOverlays`; distinctness, spacing, stairs and gap fills in
`SupportLadder`. Prices are in units of $50, midpoints doubled and percentages
compared by products, so no comparison is rounded. Python's stable sort is `SortBy`, an
insertion of one element after the other, and a comprehension with a condition
`Selection`: both are recursive functions, which the prover can unroll where the
library's `SortSeq` and `SelectSeq` are closed to it. Fields that no decision reads (roles, bias, the latest touch) are left
out. The operators were compared with the Python functions on random inputs, with
no difference.

`spaced` is the ladder before the last fill, `ladder` the one reported.

### WalletApprovals

`slots` are the transactions of the wallet by nonce, a forgotten one leaving `NoTx`;
the first ones, as many as `receipts`, are mined. `allowance` is the router's. A command has a `pc`, its
last transaction `tx`, and, for a cycle, what the contract checks read (`snap`).

| action | code |
|---|---|
| `Start` | a command is run; a cycle passes the in-flight gate of `TradeExecution` |
| `CheckContracts` | `run_contract_checks` and the first decision of `approve_trading`, `revoke_trading` |
| `TopUp` | `ensure_swap_allowance` up to its first transaction |
| `SignApproval`, `Broadcast`, `WaitForReceipt` | `_send_approval_transaction`; the reply may be lost, the node may refuse, the wait may time out |
| `ReadBack` | `_read_allowance` and what each command makes of it |
| `SimulateSwap`, `SignSwap` | `simulate_swap`, `prepare_signed_swap`; broadcast and receipt are the same steps |
| `Raise` | any other failure, or the process dies |
| `Mine` | the chain, which may never act, and may revert |
| `Forget` | the node drops a pending transaction: a full pool, a restart |

`Filed` says what the node does with a transaction: a nonce in use means a
replacement. What is behind a forgotten nonce stays queued, and is mined once that
nonce is used again. `Pending`, which `get_transaction_count` returns, counts up to
the first nonce the node does not hold, so it may fall, and the next transaction
signed takes the gap. There is one pool: that another node still holds what this
one forgot, and brings it back, is left out.

### DeployUpdate

One action per step of `main`; `found`, `unlocked` and `before` are the script's
variables. `lock` is the flock, which the kernel drops with the process. `Fail` is
a step that fails before its effect, `RestoreFails` and the second half of
`ChownToBot` and `CleanupOnExit` fail midway, `SignalAfterSuccess` is a signal whose
handler is given the status 0 of the last command and so ends without recovery.
`Reboot` ends every process. systemd starts a cycle when the timer elapses. The
operator sets the timer and repairs ownership while no update runs, and enables the
timer only over a locked checkout, which is what the script's last message asks.

The runbook installs the service as a oneshot unit
(`docs/dry-run-to-live-prod.md:180`), by hand. `systemctl is-active` answers yes for
a running service, but no for a oneshot unit whose command runs, which is
"activating": the wait loop never waits for one (section 6). `unit` may also be
"exec", the type for which the loop does wait and may expire; there `systemctl
start` returns as soon as the command runs (`Verified`).

Definitions marked *seeded fault* are what `PROJECT.json` calls mutants: each
breaks one definition the way a plausible bug would, and shows that a property
notices. No specification uses them.

## 3. The runs

| run | instance | shows |
|---|---|---|
| `exec_safety` | 3 interchangeable cycles, 2 live decisions around a midnight, 1 dry run, days of 2 hours | all safety properties of the execution and the refinement of `SwapLedger` |
| `exec_live` | 2 cycles, a dry and a live decision | `CycleEnds`; `RerunReconciles` |
| `refresh_safety` | 2 cycles, 7 hours, bars of 2 hours, rows up to 2 hours late | the invariants of watermark, sets and tracks; `NoLookAhead`; no set is rebuilt |
| `refresh_catchup` | 1 cycle, 9 hours, a fetch window of 2 bars | `ZonesCatchUp` |
| `tracks_hysteresis` | any snapshots of 4 bands in 2 families, scored alike or not, without bound on time | the hysteresis properties |
| `decide_safety` | 1 cycle at a time, 2 modes, 4 hours of 4 candles, 2 ladders | the properties of the decision record |
| `replay_zones` | 2 replays, 2 configurations, 2 releases, 3 bars, 2 windows, a hole in the 4h table, 1 write of a candle or damaged row | the zones of a replay are its own |
| `swings_replay` | all histories of 10 bars over 3 candle shapes, days of 2 bars begun at either slot | incremental evidence is the stateless evidence; reclaims are final; origins stay |
| `ladder_bars` | 6 histories of 9 or 10 bars, continued to 12 with 11 pivot shapes and 2 prices; refreshes from the 11th bar on | pinned floors stay, fills displace nothing, flips cost no step where the local zones climb, the tracks are given bands as far apart as they take them to be |
| `wallet_safety` | a revocation with a cycle and an approval, or with two cycles; allowances 0 to 2, a trade of 2, one forgotten transaction at a time | revocations bar the grants they counted, gas and allowance hold, commands end |
| `deploy_safety` | 2 updaters, 3 commits of which the last changes the requirements, both unit types | no cycle starts mid-update, the timer restored or off, a whole and locked checkout |
| `tracks_v_ids` | 3 bands of one family | a divergence, section 6 |

Type correctness is proved for every module that states one (section 4).
`tracks_hysteresis` and `replay_zones` check it as well; the other runs leave it
out, and so they do with `HashBeforeBroadcast`, `WatermarkNeverFalls` and
`RowsNameTheirInputs`, which are proved too.

### The bounds and why they are enough

* Three cycles: an owner, a rerun of the same decision and a cycle of another
  one; every invariant relates at most two cycles and two decisions. Two live
  decisions lie in consecutive hours on both sides of a midnight, so that a
  clock read may fall on either side.
* Two refreshing cycles race at every statement; four bars with two hours each
  contain a gap, a continued lineage and a race over an older bar. The fetch
  window of two bars lets downtime lose an hour.
* The tracks' counters reach their limits (2 prints, 2 wins, 3 misses) within
  four snapshots, which is `Memory`. The bands include two that may be reported
  together and a third between them that shares a step with both, so that a shelf
  drifts into its neighbour's slot, and a rival of another family.
* Two replays meet at every statement of the cache, and one of them may be
  restarted over and over. The two windows overlap in a bar which one derives from
  hours after a 4h row and the other from hours alone; the hole in the 4h table
  makes one of them meet a gap and a frame that stops before the bar that is due,
  until the single write fills it, or the write revises a bar of the other. Two
  releases allow one install, before, during or after the start of a process.
* Ten bars hold four or five whole days: prominent swings of both frames are added,
  filtered and replaced, highs are reclaimed soon and late, and a first day is cut.
  Other orders, thresholds (none included), day lengths and candle shapes were
  checked with eight bars, with the same result.
* The histories of the ladder put it one step before each way a zone can appear or
  go; two or three bars confirm floors and highs, or a high and the close that
  reclaims it. `MinHistory` is the 11 bars of the default swing order of 5, so that
  refreshes meet every continuation of the last two bars. A second price lies below most shelves, so that states change.
* Three commands: every race of the wallet is between two, and the third is the
  one that found or left something pending. The allowance may be none, a part of a
  trade (1 of 2) or a whole one. One forgotten transaction makes a gap with others
  queued behind it, and once the gap is filled the node may forget again.
* Two updaters contend for the lock and follow each other without bound; a failed
  one may come before a good one. Three commits let a pull change the requirements,
  change nothing, or change only code.
* Four hours hold an origin, a buy, and a second close at the shelf after the
  cooldown of two hours; the two ladders put the midpoint on either side of one
  of the closes.

Deadlock is not checked for the execution runs, where nothing is left to do once
the clock stands at its bound and every decision is closed, for `wallet_safety`,
where every command ends, nor for `swings_replay` and `ladder_bars`, whose
histories end at their bound. The other models keep stepping.

### Fairness

`FairSpec` assumes that a running cycle keeps running. Each external call has a
timeout, so each statement ends. Nothing else is assumed: no exception, crash,
mined block or new BUY. `Reruns` is the premise of `RerunReconciles`: the
operator reruns the cycle again and again, as README.md:334 instructs, and
no lookup or write fails for ever. `TimerSpec` assumes that the timer starts
cycles, that hours pass, and that a cycle which reaches a statement again and
again once gets past it. The fairness of `WalletApprovals` is that a command which
runs takes its next step: each call has a timeout and then raises. `CommandsEnd`
assumes nothing of the chain.

## 4. What is proved

The proofs hold for every value of the constants that satisfies the named
assumptions of the modules; numbers of cycles, decisions, modes, hours and
candles are arbitrary.

**TradeExecutionProofs.** `IInv` is inductive. Beyond the properties it says:
a creator owns its row until it ends (`OneOwner`); the hash of a row separates
what the chain may know from what it cannot (`RowConsistent`); a status a cycle
still has to write is `pending` or already true (`CycleConsistent`, this is why
the unconditional writes of stale reads are harmless for a terminal status); what the cap saw
at admission still holds (`GateRemembered`). From it: `TypeOK`,
`AtMostOneUnresolved`, `HashBeforeBroadcast`, `TerminalTellsTheTruth`,
`BroadcastOnce`, `OneAttemptPerAdmissionDay`, `NoAdmissionOverOpenSwap`, and
`Spec => Ledger!Spec`.

**ZoneRefreshProofs.** `IInv` says that sets exist only up to the watermark, and
that what a cycle has read stays true while it waits: the tracks it restored
are those of the set of the bar before. It gives `TypeOK`, `SetOfWatermark`,
`TracksSkipNoBar`, `DecidesOnStoredSet`, `NoLookAhead`, `WatermarkNeverFalls`
and `OneSetPerBar`.

**HourlyDecisionProofs.** Three results hold whatever runs at once:
`TypeCorrectness`; `FirstFallOnly`, because a cycle decides by candles that never
change and names the zones it decided on in the row; and `WarmUpSuffices`: a replay
holds no candle older than `dip_lookback_hours` before its start, and the walk back
to the last close outside a zone has no bound in the code; yet on every finite
ladder each gate decides as it would on all the candles, because the dip origin
is itself a close above the zone and lies within the lookback.

The others need the premise `Sequential` (one cycle at a time, which a oneshot
systemd unit guarantees for the timer but nothing guarantees for manual runs): no
row is newer than the trigger a cycle holds, so what it looked up stays true until
it writes. It gives `OneBuyPerSetup` and `CooldownKept`, for any candles, ladders
and lookback. A second invariant (`Follows`: rows and what a cycle has read are
what the gates give for the zones they name) gives `RerunAgrees`.

**BacktestZonesProofs.** `IInv` says that the rows of the cache, the hits copied
from it and the zones in hand are each what the detector gives for the inputs
they are filed under. It is inductive because a reader compares a row with its
own inputs (`ReusableIsSound`) at the moment it copies it, so that what the prune
left or another replay stored meanwhile does not matter. It gives `ZonesAreOwn`,
`RowsNameTheirInputs` and `ZonesOfOwnCode`, for any number of replays, windows,
releases and candles written. `TypeOK` needs an invariant of its own (`TypeInv`)
on where in its window a replay stands.

**SwingsProofs.** For any candles, orders, thresholds, day lengths and histories:

* `ReclaimsAreFrozen`. `ReclaimInv` orders highs by the moment their right side was
  complete: those a bar confirms are new (`ConfirmedHighs`), and since all bars of
  a right side stay below the high, no close among them can have cleared it. The
  early look-up of `_record_confirmed_4h_pivot` therefore never finds anything on
  candles whose close is not above their high; only `_resolve_pending_reclaims`
  dates reclaims.
* `OriginsPersist`. The reducer of the prominent swings keeps every pivot but the last of
  its list, and the last for one of its kind that reaches further (`Keeps`).
* `IncrementalAgrees`. Each part of the incremental state is an operator of the
  bars, and that operator over one bar more is what it was and what `Advance`
  does. `AgreeInv` has four parts: pivot lists (`PivotsInv`), recorded and pending
  reclaims (`ReclaimsInv`), the prominent lists (`EvidenceInv`) and the days
  (`DaysInv`). The last is the subtle one: rows of a day are consecutive, a day
  is appended when its bucket is full, and a first day that was cut never is, which
  the stateless path finds by counting rows and the incremental one by the bucket.

**ZoneProofs** is one module for the ladder and its tracks, because both are folds
over sorted lists. Induction over the naturals is proved there from the
well-foundedness of strict inclusion among finite sets (`NatLeast`, `Induction`), a
fold is unrolled by one step (`Step`, `FoldUnrolls`), and a sorted list ascends and
keeps its elements (`SortedAscends`, `SortedKeeps`).

*The ladder.* For any pivots, histories, prices, knobs and lookback.
`LadderKnown` says that the evidence keeps its shape and its order in time and that
both ladders are what the passes make of it; all else is about those passes, of
which each is typed by a lemma (`BuildTyped`, `LocalZonesTyped`, `OverlayDailyTyped`,
...): a zone's low is not above its high, and no builder but `PersistentFloors`
makes a floor.

* `StepsSurvive`. The two folds of `OrdinarySteps` and `SelectSteps` run in
  lockstep (`Lockstep`, `FlipsCostNoStep`): at every zone the selection has at least
  as many steps, and where it has as many its last one is no higher, so what is clear of
  the last ordinary step is clear of the last selected one. A flip that shares a slot with
  two ordinary steps is not admitted, hence can never stand for both. This is where
  zones have to climb at both edges.
* `PersistentFloorsStay`. In each of the contests after the overlay (overlap,
  spacing, fill, overlap and spacing again) a floor comes before every zone but an older
  floor. What a clearing by age leaves of a set of floors is determined by the set
  (`Kernel`: what it dropped stands in the way of an older one it kept), and when
  only younger ones are added what was kept stays (`KernelStays`). A bar adds no older floor,
  since lows are never dropped from the raw swings nor changed (`FloorsGrow`); the floors of
  the ladder are the kernel of a kernel.
* `FillsDisplaceNothing`. A stair is clear of both boundaries of its gap by the
  distances it was found under (`ClearsBoth`), and a zone that is clear of the
  boundary is clear of all that lies beyond it (`RoomBeyond`), because the spaced ladder
  ascends and its zones keep their distance. Two stairs have a boundary between them. So
  neither the distinctness pass nor the second spacing finds a conflict in the filled
  ladder, whatever the order it ranks the zones in (`AllSeparate`, `LoneStays`). The
  configured distances may be smaller than the fixed ones: the argument uses for
  each pair the ones the code uses for it (`Crowds`).
* `ReportsSnapshots`. The zones of the filled ladder do not overlap and do not crowd
  each other, so their bands are apart by the fixed distances or, next to a fill, by
  the configured ones (`SeparateApart`), and there are finitely many (`KnownReports`).

*The tracks.* For any bands, scores and thresholds, and any ladders the
detector reports. `AdvancedOutcomes` says what the tracks after a step are, out of
two folds and a flattening; `MatchesServe` that a published track is left without
a band only when every band that fits it went to another published track. `IInv`
says of each track that its counts are below the thresholds that end them, and
that what waits for it was printed: a challenger in the last snapshot, a
half-confirmed move in the one its misses go back to (`Standing`). It gives
`TypeOK`, `AppearsTwice` and `MovesToPrintedLevel`. `AppearsTwice` has two sides. That
a shelf appears only after two prints holds for any thresholds; that a level which
no shelf stands for never waits twice holds for `ActivateConfirms = 2` alone, and says
that the second print of a pending shelf is never given to another.

`LeavesAfterAbsence` needs more: when a track was passed over although its band
printed, the one that took the print is a shelf of its family within its step, and
is still published when the misses run out (`Rivals`). That holds if
`RetireMisses <= ReplaceConfirms + 1`, which is so for the 3 and 2 of the code. It is no
accident of the proof: with 4 and 2, TLC finds a shelf that retires although its
band printed, after the one that took the print had moved back out of its step,
which takes two prints. Who raises `retire_misses` alone loses the property. Its other side,
that nothing outlives `RetireMisses` snapshots without a zone, needs that each miss was
counted (`Backed`).

*The published ladder.* `RefreshImplementsTracks` is the refinement of the abstract
tracks by the joined specification: a refresh is an advance or a bootstrap with a
snapshot, which `KnownReports` says the ladder is, and a bar that closes is a stutter.
With it everything proved of the tracks under any ladders is true of the ladders the
detector makes (`PublishedShelves`), for any pivots, prices, knobs and missed bars. The
hypotheses say only that `Band` and `Scores` leave none out: every band of integers
with its edges in order, every score. `PublishedShelves` adds the thresholds of the
code.

**DeployUpdateProofs.** `IInv` says that the lock has one holder and that no other
updater is past `idle` (`OneHolder`), that the holder's position tells the flag,
the owner of the checkout and the timer (`UpdaterSound`), and what the timer and the virtualenv are when
nobody holds it. It gives the four properties of the run for any number of
updaters and commits. The lock is what the argument rests on: without it a second
updater restores the timer under the first. `QuietDeploy` says that no cycle starts
between the stop of the timer and the re-lock, whatever the unit's type; of a cycle
that runs already it says nothing, since the script does not wait for it.

**WalletApprovalsProofs.** `IInv` says that slot *n* holds a transaction of nonce
*n* or none, that a grant a revocation barred is in no mined slot, that no
transaction in hand skips a nonce, and what a cycle may have spent since its checks
(`Budget`, `OneOfEach`). The heart of `RevocationBarsOutstanding`: the revocation's
nonce is above that of every grant it counted, since no nonce below those was
forgotten (`PendingBounds`, `OutstandingIsOlder`). So once it is mined every earlier
nonce is taken for good, and a grant that is not among the mined ones has lost its
slot, whatever the node forgets meanwhile. Of grants behind a gap nothing is
claimed (section 6). `GasBudget` is about the approvals a cycle pays for, that is
about its mined ones: one reset and one grant at most in any case; and no more than
the reserve was checked for, if no part of a trade was approved and nobody else's
transaction was mined between the contract checks and the top-up (`Spent`).

## 5. What is only model-checked, and what is not modelled

* Liveness (`CycleEnds`, `RerunReconciles`, `ZonesCatchUp`, `CommandsEnd`): fairness
  is out of the prover's reach.
* That a ladder reported again and again becomes the published one is not stated,
  because it is not so in general: a band may challenge in turn several shelves of
  its step that are about to retire, and only then wait as pending. With shelves of
  one family at (36, 41) after two misses, at (54, 64) after one and at (24, 26)
  after none, the band (38, 48) of another family meets each as it retires, then
  waits, and is published with its fifth print. What holds within the thresholds is in `AppearsTwice` and
  `LeavesAfterAbsence`.
* `LeavesAfterAbsence` depends on the thresholds (section 4), and names an exception
  found by checking: a shelf of the same family that has drifted into another's slot
  takes its prints, since matching runs from low to high; the other may then retire
  although its band printed.
* Left out: order in which gates fail (a HOLD has no reason), metadata of zones,
  row validation, amounts and gas prices; logs, charts, commands, keystore.
  `ZoneRefresh` takes zone sets without their contents, and `HourlyDecision` any
  ladder with distinct lows; that the detector's ladders reach the tracks is
  `PublishedLadder`, without races.
* Not modelled: the validation of a quote and the chain reads of the contract
  checks compare values and keep no state, so they only decide whether a step raises
  (`prana_swap.py`, `contract_checks.py`); the source times and revision fingerprints
  of `zone_identity.py` are digests nothing decides on; chart servers and scripts
  read tables; the configuration is constants; the keystore is a library's.

## 6. Where the code and its documents disagree

A run that TLC refutes; `PROJECT.json` quotes the lines.

* `tracks_v_ids`: a track keeps its id while its band drifts; a new shelf at the
  first bounds gets the same id, and the UNIQUE constraint aborts the refresh.

Met on the way, not kept as runs, each seen by reading the code with the model or
by a small change of an instance:

* A swap mined after the receipt timeout is reconciled only by a rerun within the
  same hour (`runner.py:291`). Later cycles are refused by the in-flight gate and
  never look at it, so the row stays `pending`, where `runner.py:567` speaks of
  "later cycles".
* An hour that ends between the answer of the exchange and its parsing is stored
  as closed with unfinished values (`binance_client.py:55`, against
  `binance_hourly.py:24`).
* A rerun with a newer zone set overwrites an executed BUY by a HOLD
  (`store.py:104`), and a later hour executes the same setup again.
* `wait_for_live_service` says "Wait for the production oneshot to finish"
  (`prana-buy-dips-update:133`), and the runbook that the script waits for the
  service to end (`docs/pi-rollout-runbook.md:616`). But `systemctl is-active --quiet`
  (line 137) fails for a oneshot unit whose command runs, and that is the type the
  runbook installs: the loop never waits for it, and a cycle that began before the
  timer was stopped may run while the checkout is pulled. What holds is that none
  starts, which is all `NoCycleStartsMidUpdate` claims.
* A `chown -R` that fails midway leaves the flag unset and the checkout mixed; a
  signal that arrives after a command succeeded ends the update with status 0 and
  without recovery (`prana-buy-dips-update:176`, `:290`). `excused` is their history.
* After an update that ended between pull and pip the next one runs no pip
  (`prana-buy-dips-update:215`); after one that failed with the timer stopped, the
  next, successful one leaves the timer off, since it finds it disabled.
* The paused verification cycle joins a cycle that is already running, which may
  have started on the old code (`prana-buy-dips-update:243`).
* A revocation takes the nonce `get_transaction_count(wallet, "pending")` gives
  (`approval.py:133`), and reports "revoked" when the allowance then reads 0, which is
  what `docs/glossary.md:247` says of it. A grant may be mined after that: a cycle's grant of nonce 0 is mined, its swap has nonce 1;
  an approval, which had read an allowance of 0, signs its grant with nonce 2 and
  times out; the node forgets nonce 1; the revocation reads an allowance, signs
  nonce 1, is mined and reports "revoked"; then the queued grant is mined.
  `RevocationHolds` is about grants with no gap before them, and TLC finds this
  story when it is made to speak of all.
* "already-revoked" sends nothing: a grant that is pending at that moment may be
  mined afterwards (`approval.py:69`). `RevocationHolds` is about "revoked".
* The gas reserve is checked for one approval, while a part of a trade that is
  approved already takes two (`runner.py:364`, `approval.py:100`), and another
  command's transaction mined between the checks and the top-up may call for
  approvals the reserve was not checked for.
* The deadline of a quote is checked again before signing, the expiry of its
  verification is not (`transaction.py:50`).
* The daily cap counts rows created in a UTC day, not swaps signed in it
  (`store.py:198`): a row created before midnight and signed after it leaves the
  day free for another signed attempt, where README.md:227 promises one.
  `OneAttemptPerAdmissionDay` is what holds.
* The prominent list need not be "alternating highs and lows, with each reversal
  large enough" (`pivots.py:187`). A replacement is not held against the pivot
  before it again, and may bring a larger ATR; and since the move is an absolute
  difference, in a steep fall a high far *below* the last low counts as its
  reversal (`pivots.py:158`).
* "Reclaim may have printed before confirmation" (`incremental.py:180`) cannot
  happen, as `test_incremental_zone_detector.py:271` says and section 4 proves.
* Two overlapping cycles of successive hours may both buy one setup
  (`decide_safety` with two runners): lookups and upsert are not one transaction,
  and only rows before the trigger are looked up (`store.py:29`).
* When the zone above a shelf leaves the ladder the midpoint rises and an older
  close becomes the dip origin: the shelf is bought again without the "later
  close" of README.md:275 (`signal.py:168`).
* A stale write of `broadcast` may reopen a row that a rerun has already
  settled, until its owner writes the receipt (`runner.py:436`).
* Clock read before the fetch (`runner.py:103`): the hour that ends a bar may be
  decided on the zones of the bar before.
* A cycle that read the watermark before another committed the bar in between
  bootstraps although there is no gap (`zone_refresh.py:250`).
* The signature of the zone cache hashes the source files when a replay begins,
  not the code it imported (`backtest_zone_cache.py:197`): a release installed in
  between files the zones of the old code under the new signature, where later
  replays find them. `ZonesOfOwnCode` holds only without such a start; without
  its premise `replay_zones` refutes it.
* "A middle flip must not collapse two independently valid support steps into one"
  (`zones/reactions.py:249`): it may, when two local zones start at the same price
  or one band lies inside another. Of two zones with one low the tie goes to the higher
  score, so that the kept zone is not the one the flip was held against; of nested
  bands the upper one in the list ends below the other. `StepsSurvive` has the premise
  that the zones climb at both edges (`Climbs`).
* A challenger's win does not clear a half-confirmed move, so the two prints of a
  move need not be consecutive (`zone_tracks.py:196`).

## 7. Plan

1. Done: execution and ledger, refresh, tracks, gates and decision, zones of the
   backtest, evidence of the detector, ladder, its publication through the tracks,
   allowance, updater, and the proofs of all of them.
2. `BacktestReplay`: the decisions of a replay, with its tracks and the buys it
   keeps in memory, against sequential live cycles (refinement of
   `HourlyDecision`); the validity segments of the chart.
3. Quote validation as operators: minimum output and the chain of amounts.
4. `HourlyDecision` over the shelves of `PublishedLadder`: its ladders are any with
   distinct lows, and the published ones keep more than that.
