---------------------------- MODULE DeployUpdate ----------------------------
(***************************************************************************)
(* The updater of the production checkout, one action per step of `main`.  *)
(* It runs beside systemd, which starts a trading cycle when the timer     *)
(* elapses, and beside an operator, who sets the timer while no update     *)
(* runs and starts updates whenever he likes.  A step may fail, a signal   *)
(* may arrive between steps, and the machine may reboot.                   *)
(*                                                                         *)
(* `systemctl is-active` succeeds for a unit that is "active", not for a   *)
(* oneshot unit whose command runs: that one is "activating".  The runbook *)
(* installs a oneshot unit, by hand; "exec" stands beside it for the wait, *)
(* which a oneshot unit never makes wait.                                  *)
(***************************************************************************)
EXTENDS Naturals

CONSTANTS
  Updater,        \* processes running the script
  UnitTypes,      \* types the service may have been installed with
  MaxVersion,     \* bound: commits upstream
  Requirements,   \* content of requirements.txt in each commit
  NoOne

Version == 0..MaxVersion
Enabled == {"enabled", "enabled-runtime"}

ASSUME UnitAssumption    == UnitTypes \subseteq {"oneshot", "exec"}
ASSUME VersionAssumption == MaxVersion \in Nat
ASSUME RequireAssumption == Requirements \in [Version -> Nat]
ASSUME NoOneAssumption   == NoOne \notin Updater

VARIABLES
  pc,           \* next step of each updater
  found,        \* live_timer_state
  unlocked,     \* permissions_unlocked
  before,       \* requirements_before
  lock,         \* holder of /run/lock/prana-buy-dips-update.lock
  enabled,      \* is-enabled of the live timer
  ticking,      \* is-active of the live timer
  unit,         \* type of the live service
  service,      \* who started the cycle that runs, or "none"
  owner,        \* owner of the checkout: "root", "botuser" or "mixed"
  head, venv,   \* commit checked out, requirements the virtualenv satisfies
  paused,       \* the pause file exists
  wanted,       \* history: what the operator last made of `enabled`
  failed,       \* history: an update stopped the timer since and did not succeed
  excused,      \* history: chown failed, or a signal was taken for success
  halfDone      \* history: an update ended between git pull and pip

updaterVars == <<pc, found, unlocked, before, lock>>
timerVars   == <<enabled, ticking>>
codeVars    == <<owner, head, venv>>
history     == <<wanted, failed, excused, halfDone>>
vars == <<updaterVars, timerVars, unit, service, codeVars, paused, history>>

\* Steps after the trap is set; from "flag" to "lock" the checkout is botuser's.
Editing == {"unlock", "flag", "pull", "deps", "lock"}
Trapped == {"stop", "wait", "backup", "install", "verify", "verifying", "restore"}
             \union Editing

TypeOK ==
  /\ pc \in [Updater -> Trapped \union {"idle", "clean", "cleanup"}]
  /\ found \in [Updater -> Enabled \union {"disabled"}]
  /\ unlocked \in [Updater -> BOOLEAN]
  /\ before \in [Updater -> Nat]
  /\ lock \in Updater \union {NoOne}
  /\ enabled \in Enabled \union {"disabled"}
  /\ ticking \in BOOLEAN
  /\ unit \in UnitTypes
  /\ service \in {"none", "timer", "updater"}
  /\ owner \in {"root", "botuser", "mixed"}
  /\ head \in Version
  /\ venv \in Nat
  /\ paused \in BOOLEAN
  /\ wanted \in Enabled \union {"disabled"}
  /\ failed \in BOOLEAN
  /\ excused \in BOOLEAN
  /\ halfDone \in BOOLEAN

Init ==
  /\ pc = [u \in Updater |-> "idle"]
  /\ found = [u \in Updater |-> "disabled"]
  /\ unlocked = [u \in Updater |-> FALSE]
  /\ before = [u \in Updater |-> Requirements[0]]
  /\ lock = NoOne
  /\ enabled \in Enabled \union {"disabled"}
  /\ ticking = (enabled \in Enabled)
  /\ unit \in UnitTypes
  /\ service = "none"
  /\ owner = "root"
  /\ head = 0
  /\ venv = Requirements[0]
  /\ paused \in BOOLEAN
  /\ wanted = enabled
  /\ failed = FALSE
  /\ excused = FALSE
  /\ halfDone = FALSE

(***************************************************************************)
(* Helpers.                                                                *)
(***************************************************************************)
\* Seeded fault: the timer's own state at the end decides, not the remembered one.
TimerIsEnabledNow(u) == enabled \in Enabled

TimerIsEnabled(u) == found[u] \in Enabled

ServiceIsActive == service # "none" /\ unit # "oneshot"

Goto(u, label) == pc' = [pc EXCEPT ![u] = label]

\* The process ends; the kernel drops its flock.
Exit(u) ==
  /\ Goto(u, "idle")
  /\ unlocked' = [unlocked EXCEPT ![u] = FALSE]
  /\ lock' = NoOne

(***************************************************************************)
(* The steps of main.                                                      *)
(***************************************************************************)
\* Seeded fault: the lock is taken without looking.
AcquireLockBlindly(u) ==
  /\ pc[u] = "idle"
  /\ lock' = u
  /\ Goto(u, "clean")
  /\ UNCHANGED <<found, unlocked, before, timerVars, unit, service, codeVars, paused, history>>

\* require_root, validate_environment, acquire_deploy_lock; a refusal changes nothing.
AcquireLock(u) ==
  /\ pc[u] = "idle"
  /\ lock = NoOne
  /\ lock' = u
  /\ Goto(u, "clean")
  /\ UNCHANGED <<found, unlocked, before, timerVars, unit, service, codeVars, paused, history>>

\* require_clean_tracked_files, refuse_legacy_units, or a signal before the trap.
Refuse(u) ==
  /\ pc[u] = "clean"
  /\ Exit(u)
  /\ UNCHANGED <<found, before, timerVars, unit, service, codeVars, paused, history>>

DetectTimerState(u) ==
  /\ pc[u] = "clean"
  /\ found' = [found EXCEPT ![u] = enabled]
  /\ Goto(u, "stop")
  /\ UNCHANGED <<unlocked, before, lock, timerVars, unit, service, codeVars, paused, history>>

\* Seeded fault: `disable` without `--now`, which leaves the timer running.
StopDisablesOnly(u) ==
  /\ pc[u] = "stop"
  /\ enabled' = IF TimerIsEnabled(u) THEN "disabled" ELSE enabled
  /\ ticking' = (ticking /\ TimerIsEnabled(u))
  /\ Goto(u, "wait")
  /\ UNCHANGED <<found, unlocked, before, lock, unit, service, codeVars, paused, history>>

StopLiveTimer(u) ==
  /\ pc[u] = "stop"
  /\ enabled' = IF TimerIsEnabled(u) THEN "disabled" ELSE enabled
  /\ ticking' = FALSE
  /\ Goto(u, "wait")
  /\ UNCHANGED <<found, unlocked, before, lock, unit, service, codeVars, paused, history>>

\* wait_for_live_service; while the unit is active the loop sleeps or expires.
WaitForLiveService(u) ==
  /\ pc[u] = "wait"
  /\ ~ServiceIsActive
  /\ Goto(u, "backup")
  /\ UNCHANGED <<found, unlocked, before, lock, timerVars, unit, service, codeVars, paused, history>>

WaitExpires(u) ==
  /\ pc[u] = "wait"
  /\ ServiceIsActive
  /\ Goto(u, "cleanup")
  /\ UNCHANGED <<found, unlocked, before, lock, timerVars, unit, service, codeVars, paused, history>>

BackupDatabase(u) ==
  /\ pc[u] = "backup"
  /\ Goto(u, "unlock")
  /\ UNCHANGED <<found, unlocked, before, lock, timerVars, unit, service, codeVars, paused, history>>

\* chown -R, then the flag; a chown that fails on the way leaves the flag down.
ChownToBot(u) ==
  /\ pc[u] = "unlock"
  /\ \/ owner' = "botuser" /\ Goto(u, "flag") /\ UNCHANGED excused
     \/ owner' = "mixed" /\ Goto(u, "cleanup") /\ excused' = TRUE
  /\ UNCHANGED <<found, unlocked, before, lock, timerVars, unit, service, head, venv, paused,
                 wanted, failed, halfDone>>

SetUnlocked(u) ==
  /\ pc[u] = "flag"
  /\ unlocked' = [unlocked EXCEPT ![u] = TRUE]
  /\ Goto(u, "pull")
  /\ UNCHANGED <<found, before, lock, timerVars, unit, service, codeVars, paused, history>>

\* Seeded fault: requirements.txt is hashed after the pull only.
PullThenHash(u) ==
  /\ pc[u] = "pull"
  /\ head' \in {v \in Version : v >= head}
  /\ before' = [before EXCEPT ![u] = Requirements[head']]
  /\ Goto(u, "deps")
  /\ UNCHANGED <<found, unlocked, lock, timerVars, unit, service, owner, venv, paused, history>>

\* git pull --ff-only takes whatever is upstream by now.
Pull(u) ==
  /\ pc[u] = "pull"
  /\ before' = [before EXCEPT ![u] = Requirements[head]]
  /\ head' \in {v \in Version : v >= head}
  /\ Goto(u, "deps")
  /\ UNCHANGED <<found, unlocked, lock, timerVars, unit, service, owner, venv, paused, history>>

\* pip runs only when this pull changed requirements.txt.
SyncDependencies(u) ==
  /\ pc[u] = "deps"
  /\ venv' = IF Requirements[head] # before[u] THEN Requirements[head] ELSE venv
  /\ Goto(u, "lock")
  /\ UNCHANGED <<found, unlocked, before, lock, timerVars, unit, service, owner, head, paused,
                 history>>

LockRepo(u) ==
  /\ pc[u] = "lock"
  /\ owner' = "root"
  /\ unlocked' = [unlocked EXCEPT ![u] = FALSE]
  /\ Goto(u, "install")
  /\ UNCHANGED <<found, before, lock, timerVars, unit, service, head, venv, paused, history>>

InstallLatestUpdater(u) ==
  /\ pc[u] = "install"
  /\ Goto(u, "verify")
  /\ UNCHANGED <<found, unlocked, before, lock, timerVars, unit, service, codeVars, paused, history>>

\* Starting a unit whose command runs already joins that run.
VerifyLiveCycle(u) ==
  /\ pc[u] = "verify"
  /\ IF paused
     THEN /\ service' = IF service = "none" THEN "updater" ELSE service
          /\ Goto(u, "verifying")
     ELSE UNCHANGED service /\ Goto(u, "restore")
  /\ UNCHANGED <<found, unlocked, before, lock, timerVars, unit, codeVars, paused, history>>

\* `systemctl start` returns when the command of a oneshot unit ends, or when that
\* of an exec unit runs.
Verified(u) ==
  /\ pc[u] = "verifying"
  /\ service = "none" \/ unit = "exec"
  /\ Goto(u, "restore")
  /\ UNCHANGED <<found, unlocked, before, lock, timerVars, unit, service, codeVars, paused, history>>

\* restore_timer, and the end of main.
RestoreTimer(u) ==
  /\ pc[u] = "restore"
  /\ enabled' = IF TimerIsEnabled(u) THEN found[u] ELSE enabled
  /\ ticking' = (ticking \/ TimerIsEnabled(u))
  /\ Exit(u)
  /\ UNCHANGED <<found, before, unit, service, codeVars, paused, history>>

(***************************************************************************)
(* Failure: any trapped step may fail before its effect, with set -e       *)
(* leaving main for cleanup_on_exit; so does a signal, except that the     *)
(* handler is given the status of the last command, which may be 0.        *)
(***************************************************************************)
Fail(u) ==
  /\ pc[u] \in Trapped
  /\ Goto(u, "cleanup")
  /\ owner' = IF pc[u] = "lock" THEN "mixed" ELSE owner
  /\ excused' = (excused \/ pc[u] = "flag")
  /\ halfDone' = (halfDone \/ pc[u] = "deps")
  /\ UNCHANGED <<found, unlocked, before, lock, timerVars, unit, service, head, venv, paused,
                 wanted, failed>>

\* systemctl enable --now fails after it enabled the timer.
RestoreFails(u) ==
  /\ pc[u] = "restore"
  /\ TimerIsEnabled(u)
  /\ enabled' = found[u]
  /\ Goto(u, "cleanup")
  /\ UNCHANGED <<found, unlocked, before, lock, ticking, unit, service, codeVars, paused, history>>

SignalAfterSuccess(u) ==
  /\ pc[u] \in Trapped
  /\ excused' = TRUE
  /\ failed' = TRUE
  /\ halfDone' = (halfDone \/ pc[u] = "deps")
  /\ Exit(u)
  /\ UNCHANGED <<found, before, timerVars, unit, service, codeVars, paused, wanted>>

\* Seeded fault: the failure path leaves ownership as it is.
CleanupWithoutLock(u) ==
  /\ pc[u] = "cleanup"
  /\ failed' = TRUE
  /\ Exit(u)
  /\ UNCHANGED <<found, before, timerVars, unit, service, codeVars, paused, wanted, excused,
                 halfDone>>

\* cleanup_on_exit with a status other than 0.
CleanupOnExit(u) ==
  /\ pc[u] = "cleanup"
  /\ \/ owner' = (IF unlocked[u] THEN "root" ELSE owner) /\ UNCHANGED excused
     \/ unlocked[u] /\ owner' = "mixed" /\ excused' = TRUE
  /\ failed' = TRUE
  /\ Exit(u)
  /\ UNCHANGED <<found, before, timerVars, unit, service, head, venv, paused, wanted, halfDone>>

\* Power loss: every process is gone, a runtime enablement too, enabled timers tick.
Reboot ==
  /\ pc' = [u \in Updater |-> "idle"]
  /\ unlocked' = [u \in Updater |-> FALSE]
  /\ lock' = NoOne
  /\ enabled' = IF enabled = "enabled-runtime" THEN "disabled" ELSE enabled
  /\ ticking' = (enabled = "enabled")
  /\ service' = "none"
  /\ wanted' = IF wanted = "enabled-runtime" THEN "disabled" ELSE wanted
  /\ failed' = (failed \/ \E u \in Updater : pc[u] \notin {"idle", "clean"})
  /\ excused' = (excused \/ \E u \in Updater : pc[u] \in Editing \union {"cleanup"})
  /\ halfDone' = (halfDone \/ \E u \in Updater : pc[u] = "deps")
  /\ UNCHANGED <<found, before, unit, codeVars, paused>>

(***************************************************************************)
(* systemd and the operator.                                               *)
(***************************************************************************)
TimerElapses ==
  /\ ticking
  /\ service = "none"
  /\ service' = "timer"
  /\ UNCHANGED <<updaterVars, timerVars, unit, codeVars, paused, history>>

CycleEnds ==
  /\ service # "none"
  /\ service' = "none"
  /\ UNCHANGED <<updaterVars, timerVars, unit, codeVars, paused, history>>

\* "review the error before enabling one": the operator looks at ownership first.
OperatorSetsTimer ==
  /\ lock = NoOne
  /\ enabled' \in Enabled \union {"disabled"}
  /\ enabled' \in Enabled => owner = "root"
  /\ ticking' \in {enabled' \in Enabled, owner = "root"}
  /\ wanted' = enabled'
  /\ failed' = FALSE
  /\ UNCHANGED <<updaterVars, unit, service, codeVars, paused, excused, halfDone>>

\* The operator repairs ownership by hand, as the runbook shows.
OperatorLocksRepo ==
  /\ lock = NoOne
  /\ owner # "root"
  /\ owner' = "root"
  /\ excused' = FALSE
  /\ UNCHANGED <<updaterVars, timerVars, unit, service, head, venv, paused, wanted, failed,
                 halfDone>>

OperatorPauses ==
  /\ paused' = ~paused
  /\ UNCHANGED <<updaterVars, timerVars, unit, service, codeVars, history>>

(***************************************************************************)
(* The specification.                                                      *)
(***************************************************************************)
Main(u) ==
  \/ AcquireLock(u) \/ DetectTimerState(u) \/ StopLiveTimer(u) \/ WaitForLiveService(u)
  \/ BackupDatabase(u) \/ ChownToBot(u) \/ SetUnlocked(u) \/ Pull(u) \/ SyncDependencies(u)
  \/ LockRepo(u) \/ InstallLatestUpdater(u) \/ VerifyLiveCycle(u) \/ Verified(u)
  \/ RestoreTimer(u)

Abort(u) ==
  \/ Refuse(u) \/ WaitExpires(u) \/ Fail(u) \/ RestoreFails(u) \/ SignalAfterSuccess(u)
  \/ CleanupOnExit(u)

Environment ==
  Reboot \/ TimerElapses \/ CycleEnds \/ OperatorSetsTimer \/ OperatorLocksRepo \/ OperatorPauses

Next == Environment \/ \E u \in Updater : Main(u) \/ Abort(u)

Spec == Init /\ [][Next]_vars

(***************************************************************************)
(* Properties.                                                             *)
(***************************************************************************)
\* "Disable the production live timer so a new hour cannot start mid-deploy": from
\* the stop of the timer until the checkout is locked again no cycle starts, of
\* whichever unit type; one that runs already may go on, and may end.  One updater
\* alone could not break this; a second one could turn the timer on in between, or
\* start a cycle of its own.
NoCycleStartsMidUpdate ==
  [][(\E u \in Updater : pc[u] \in Editing \union {"wait", "backup"})
       => service' \in {service, "none"}]_vars

\* When no update runs the timer is enabled as the operator last set it, for this
\* boot or for good, or else it is off: that only since an update failed, and then
\* until he sets it again, even if a second update succeeds.  No update, whether it
\* fails or not, turns on what he turned off.
TimerAsWanted ==
  lock = NoOne => enabled = wanted \/ (failed /\ enabled = "disabled")

\* The timer never starts trading from a checkout that the bot's user may write to,
\* nor over a virtualenv that lacks what the commit requires, whatever failed or
\* rebooted before.  The exception: once an update ended between git pull and pip, the next
\* one sees the same requirements before and after its pull and runs no pip.
TimerOnlyOverWholeCheckout ==
  ticking => owner = "root" /\ (venv = Requirements[head] \/ halfDone)

\* "Re-lock the checkout after failures": when no update runs the checkout is
\* root's.  The excuses are a chown that failed, a reboot or a signal that arrived
\* after the chown and before its flag, and a signal whose handler saw status 0.
RelockedAfterFailure == lock = NoOne /\ ~excused => owner = "root"
=============================================================================
