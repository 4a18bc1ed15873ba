------------------------- MODULE DeployUpdateProofs -------------------------
(***************************************************************************)
(* An update leaves the timer and the checkout as it found them, or says   *)
(* why not, for any number of updaters, commits and requirements.          *)
(*                                                                         *)
(* Most of the properties are about states in which no update runs, so the *)
(* invariant carries them through a run: what each step of `main` may rely *)
(* on about ownership, the timer, the remembered state and the virtualenv. *)
(* Of the service it says nothing: that no cycle starts during an update   *)
(* follows from the timer, which is off, and the lock, which is held.      *)
(***************************************************************************)
EXTENDS DeployUpdate, TLAPS

TimerOff == enabled = "disabled" /\ ~ticking

\* Steps after the timer was stopped, steps before the chown and after the re-lock.
Stopped  == Trapped \ {"stop"}
Untouched == {"clean", "stop", "wait", "backup", "unlock"}
Relocked == {"install", "verify", "verifying", "restore"}

\* What the operator set, or off since an update failed.
AsWanted(state) == state = wanted \/ (failed /\ state = "disabled")

OneHolder == \A u \in Updater : pc[u] # "idle" <=> lock = u

FlagSound(u) ==
  /\ unlocked[u] => pc[u] \in {"pull", "deps", "lock", "cleanup"} /\ TimerOff
  /\ pc[u] \in {"pull", "deps", "lock"} => unlocked[u]

OwnerSound(u) ==
  /\ pc[u] \in Untouched => owner = "root" \/ excused
  /\ pc[u] \in Relocked => owner = "root"
  /\ pc[u] = "cleanup" => owner = "root" \/ unlocked[u] \/ excused

TimerSound(u) ==
  /\ pc[u] \in Stopped => TimerOff
  /\ pc[u] = "clean" => AsWanted(enabled)
  /\ pc[u] = "stop" => found[u] = enabled
  /\ pc[u] \in Trapped => AsWanted(found[u])
  /\ pc[u] = "cleanup" => enabled \in {wanted, "disabled"}

UpdaterSound(u) == FlagSound(u) /\ OwnerSound(u) /\ TimerSound(u)

\* What holds of the checkout and the timer whoever runs.
Ownership == ticking \/ enabled \in Enabled => owner = "root"

Dependencies ==
  halfDone \/ \/ \E u \in Updater : pc[u] = "deps" /\ venv = before[u]
              \/ venv = Requirements[head] /\ \A u \in Updater : pc[u] # "deps"

IInv ==
  /\ TypeOK
  /\ OneHolder
  /\ \A u \in Updater : UpdaterSound(u)
  /\ TimerAsWanted
  /\ RelockedAfterFailure
  /\ Ownership
  /\ Dependencies


LEMMA InitIInv == Init => IInv
<1> SUFFICES ASSUME Init PROVE IInv
  OBVIOUS
<1>1. TypeOK
  <2>1. 0 \in Version /\ Requirements[0] \in Nat
    BY VersionAssumption, RequireAssumption DEF Version
  <2>2. ticking \in BOOLEAN
    <3>1. (enabled \in Enabled) \in BOOLEAN
      OBVIOUS
    <3>2. ticking = (enabled \in Enabled)
      BY DEF Init
    <3> QED BY ONLY <3>1, <3>2, Zenon
  <2> QED BY <2>1, <2>2 DEF Init, TypeOK
<1>2. \A u \in Updater : UpdaterSound(u)
  BY DEF Init, UpdaterSound, FlagSound, OwnerSound, TimerSound, AsWanted, Untouched, Relocked, Stopped,
     Trapped, Editing
<1>3. OneHolder
  BY NoOneAssumption DEF Init, OneHolder
<1> QED BY <1>1, <1>2, <1>3
  DEF Init, IInv, TimerAsWanted, RelockedAfterFailure, Ownership, Dependencies

\* An updater that is idle asks nothing of the rest of the state.
LEMMA IdleIsSound ==
  ASSUME NEW u \in Updater, pc[u] = "idle", ~unlocked[u] PROVE UpdaterSound(u)
BY DEF UpdaterSound, FlagSound, OwnerSound, TimerSound, AsWanted, Untouched, Relocked, Stopped,
   Trapped, Editing

\* The process at work is the holder of the lock, and the only one.
LEMMA OnlyOneWorks ==
  ASSUME IInv, NEW u \in Updater, pc[u] # "idle"
  PROVE  /\ lock = u /\ lock # NoOne
         /\ \A v \in Updater \ {u} : pc[v] = "idle" /\ ~unlocked[v]
<1>1. lock = u
  BY DEF IInv, OneHolder
<1>2. \A v \in Updater \ {u} : pc[v] = "idle"
  BY <1>1 DEF IInv, OneHolder
<1>3. \A v \in Updater \ {u} : ~unlocked[v]
  BY <1>2 DEF IInv, UpdaterSound, FlagSound
<1> QED BY <1>1, <1>2, <1>3, NoOneAssumption

\* A step of u between two steps of main: u keeps the lock, the others stay idle.
LEMMA InnerStep ==
  ASSUME IInv, NEW u \in Updater, NEW label, pc[u] # "idle", label # "idle", Goto(u, label),
         lock' = lock, \A v \in Updater \ {u} : unlocked'[v] = unlocked[v],
         TypeOK', UpdaterSound(u)', Ownership', Dependencies'
  PROVE  IInv'
<1>1. pc' = [pc EXCEPT ![u] = label] /\ pc \in [Updater -> Trapped \union {"idle", "clean", "cleanup"}]
  BY DEF Goto, IInv, TypeOK
<1>2. OneHolder'
  BY <1>1, OnlyOneWorks DEF OneHolder
<1>3. ASSUME NEW v \in Updater \ {u} PROVE UpdaterSound(v)'
  <2>1. pc'[v] = "idle" /\ ~unlocked'[v]
    BY <1>1, <1>3, OnlyOneWorks
  <2> QED BY <2>1 DEF UpdaterSound, FlagSound, OwnerSound, TimerSound, AsWanted, Untouched, Relocked,
     Stopped, Trapped, Editing
<1>4. TimerAsWanted' /\ RelockedAfterFailure'
  BY OnlyOneWorks DEF TimerAsWanted, RelockedAfterFailure
<1> QED BY <1>2, <1>3, <1>4 DEF IInv

\* The last step of u: every updater is idle after it, and the properties are due.
LEMMA LastStep ==
  ASSUME IInv, NEW u \in Updater, pc[u] # "idle", Exit(u), TypeOK',
         TimerAsWanted', RelockedAfterFailure', Ownership', Dependencies'
  PROVE  IInv'
<1>1. /\ pc' = [pc EXCEPT ![u] = "idle"] /\ unlocked' = [unlocked EXCEPT ![u] = FALSE]
      /\ lock' = NoOne
      /\ pc \in [Updater -> Trapped \union {"idle", "clean", "cleanup"}]
      /\ unlocked \in [Updater -> BOOLEAN]
  BY DEF Exit, Goto, IInv, TypeOK
<1>2. \A v \in Updater : pc'[v] = "idle" /\ ~unlocked'[v]
  BY <1>1, OnlyOneWorks
<1>3. OneHolder'
  BY <1>1, <1>2, NoOneAssumption DEF OneHolder
<1>4. \A v \in Updater : UpdaterSound(v)'
  BY <1>2 DEF UpdaterSound, FlagSound, OwnerSound, TimerSound, AsWanted, Untouched, Relocked,
     Stopped, Trapped, Editing
<1> QED BY <1>3, <1>4 DEF IInv

LEMMA DetectTimerStatePreserves == ASSUME IInv, NEW u \in Updater, DetectTimerState(u) PROVE IInv'
<1>1. TypeOK'
  BY DEF DetectTimerState, Goto, IInv, TypeOK, Trapped, Editing, codeVars, timerVars, history,
     Enabled
<1>2. UpdaterSound(u)'
  BY OnlyOneWorks DEF DetectTimerState, Goto, IInv, TypeOK, UpdaterSound, FlagSound, OwnerSound,
     TimerSound, AsWanted,
     TimerOff, Ownership, Untouched, Relocked, Stopped, Trapped,
     Editing, codeVars, timerVars, history, Enabled
<1>3. Ownership' /\ Dependencies'
  BY OnlyOneWorks DEF DetectTimerState, Goto, IInv, TypeOK, Ownership, Dependencies, UpdaterSound,
     FlagSound,
     OwnerSound, TimerSound, AsWanted, TimerOff, Untouched, Relocked, Stopped, Trapped,
     Editing, codeVars, timerVars, history, Enabled
<1> QED BY <1>1, <1>2, <1>3, InnerStep DEF DetectTimerState, codeVars, timerVars, history, Enabled

LEMMA StopLiveTimerPreserves == ASSUME IInv, NEW u \in Updater, StopLiveTimer(u) PROVE IInv'
<1>1. TypeOK'
  BY ZenonT(40) DEF StopLiveTimer, Goto, IInv, TypeOK, Trapped, Editing, codeVars, timerVars, history,
     TimerIsEnabled, Enabled
<1>2. UpdaterSound(u)'
  BY OnlyOneWorks DEF StopLiveTimer, Goto, IInv, TypeOK, UpdaterSound, FlagSound, OwnerSound,
     TimerSound, AsWanted,
     TimerOff, Ownership, Untouched, Relocked, Stopped, Trapped,
     Editing, codeVars, timerVars, history, TimerIsEnabled, Enabled
<1>3. Ownership' /\ Dependencies'
  BY OnlyOneWorks DEF StopLiveTimer, Goto, IInv, TypeOK, Ownership, Dependencies, UpdaterSound,
     FlagSound,
     OwnerSound, TimerSound, AsWanted, TimerOff, Untouched, Relocked, Stopped, Trapped,
     Editing, codeVars, timerVars, history, TimerIsEnabled, Enabled
<1> QED BY <1>1, <1>2, <1>3, InnerStep DEF StopLiveTimer, codeVars, timerVars, history,
   TimerIsEnabled, Enabled

LEMMA WaitForLiveServicePreserves == ASSUME IInv, NEW u \in Updater, WaitForLiveService(u) PROVE IInv'
<1>1. TypeOK'
  BY DEF WaitForLiveService, Goto, IInv, TypeOK, Trapped, Editing, codeVars, timerVars, history,
     ServiceIsActive
<1>2. UpdaterSound(u)'
  BY OnlyOneWorks DEF WaitForLiveService, Goto, IInv, TypeOK, UpdaterSound, FlagSound, OwnerSound,
     TimerSound, AsWanted,
     TimerOff, Ownership, Untouched, Relocked, Stopped, Trapped,
     Editing, codeVars, timerVars, history, ServiceIsActive
<1>3. Ownership' /\ Dependencies'
  BY OnlyOneWorks DEF WaitForLiveService, Goto, IInv, TypeOK, Ownership, Dependencies,
     UpdaterSound, FlagSound,
     OwnerSound, TimerSound, AsWanted, TimerOff, Untouched, Relocked, Stopped, Trapped,
     Editing, codeVars, timerVars, history, ServiceIsActive
<1> QED BY <1>1, <1>2, <1>3, InnerStep DEF WaitForLiveService, codeVars, timerVars, history,
   ServiceIsActive

LEMMA WaitExpiresPreserves == ASSUME IInv, NEW u \in Updater, WaitExpires(u) PROVE IInv'
<1>1. TypeOK'
  BY DEF WaitExpires, Goto, IInv, TypeOK, Trapped, Editing, codeVars, timerVars, history,
     ServiceIsActive
<1>2. UpdaterSound(u)'
  BY OnlyOneWorks DEF WaitExpires, Goto, IInv, TypeOK, UpdaterSound, FlagSound, OwnerSound,
     TimerSound, AsWanted,
     TimerOff, Ownership, Untouched, Relocked, Stopped, Trapped,
     Editing, codeVars, timerVars, history, ServiceIsActive
<1>3. Ownership' /\ Dependencies'
  BY OnlyOneWorks DEF WaitExpires, Goto, IInv, TypeOK, Ownership, Dependencies, UpdaterSound,
     FlagSound,
     OwnerSound, TimerSound, AsWanted, TimerOff, Untouched, Relocked, Stopped, Trapped,
     Editing, codeVars, timerVars, history, ServiceIsActive
<1> QED BY <1>1, <1>2, <1>3, InnerStep DEF WaitExpires, codeVars, timerVars, history,
   ServiceIsActive

LEMMA BackupDatabasePreserves == ASSUME IInv, NEW u \in Updater, BackupDatabase(u) PROVE IInv'
<1>1. TypeOK'
  BY DEF BackupDatabase, Goto, IInv, TypeOK, Trapped, Editing, codeVars, timerVars, history
<1>2. UpdaterSound(u)'
  BY OnlyOneWorks DEF BackupDatabase, Goto, IInv, TypeOK, UpdaterSound, FlagSound, OwnerSound,
     TimerSound, AsWanted,
     TimerOff, Ownership, Untouched, Relocked, Stopped, Trapped,
     Editing, codeVars, timerVars, history
<1>3. Ownership' /\ Dependencies'
  BY OnlyOneWorks DEF BackupDatabase, Goto, IInv, TypeOK, Ownership, Dependencies, UpdaterSound,
     FlagSound,
     OwnerSound, TimerSound, AsWanted, TimerOff, Untouched, Relocked, Stopped, Trapped,
     Editing, codeVars, timerVars, history
<1> QED BY <1>1, <1>2, <1>3, InnerStep DEF BackupDatabase, codeVars, timerVars, history

LEMMA ChownToBotPreserves == ASSUME IInv, NEW u \in Updater, ChownToBot(u) PROVE IInv'
<1>1. TypeOK'
  BY ZenonT(40) DEF ChownToBot, Goto, IInv, TypeOK, Trapped, Editing, codeVars, timerVars, history
<1>2. UpdaterSound(u)'
  BY OnlyOneWorks DEF ChownToBot, Goto, IInv, TypeOK, UpdaterSound, FlagSound, OwnerSound,
     TimerSound, AsWanted,
     TimerOff, Ownership, Untouched, Relocked, Stopped, Trapped,
     Editing, codeVars, timerVars, history
<1>3. Ownership'
  BY OnlyOneWorks DEF ChownToBot, IInv, Ownership, UpdaterSound, TimerSound, AsWanted, TimerOff, Stopped,
     Enabled,
     OwnerSound, Relocked, Untouched, Trapped, Editing, timerVars
<1>4. Dependencies'
  <2>1. pc[u] = "unlock" /\ \E label \in {"flag", "cleanup"} : Goto(u, label)
    BY DEF ChownToBot, Trapped, Editing
  <2>2. UNCHANGED <<head, venv, before>> /\ (halfDone => halfDone')
    BY DEF ChownToBot
  <2> QED BY <2>1, <2>2, OnlyOneWorks DEF IInv, TypeOK, Dependencies, Goto, Trapped, Editing
<1>5. pc[u] # "idle" /\ lock' = lock /\ unlocked' = unlocked
  BY DEF ChownToBot, Trapped, Editing
<1>6. \E label : label # "idle" /\ Goto(u, label)
  BY DEF ChownToBot
<1> QED BY <1>1, <1>2, <1>3, <1>4, <1>5, <1>6, InnerStep

LEMMA SetUnlockedPreserves == ASSUME IInv, NEW u \in Updater, SetUnlocked(u) PROVE IInv'
<1>1. TypeOK'
  BY DEF SetUnlocked, Goto, IInv, TypeOK, Trapped, Editing, codeVars, timerVars, history
<1>2. UpdaterSound(u)'
  BY OnlyOneWorks DEF SetUnlocked, Goto, IInv, TypeOK, UpdaterSound, FlagSound, OwnerSound,
     TimerSound, AsWanted,
     TimerOff, Ownership, Untouched, Relocked, Stopped, Trapped,
     Editing, codeVars, timerVars, history
<1>3. Ownership' /\ Dependencies'
  BY OnlyOneWorks DEF SetUnlocked, Goto, IInv, TypeOK, Ownership, Dependencies, UpdaterSound,
     FlagSound,
     OwnerSound, TimerSound, AsWanted, TimerOff, Untouched, Relocked, Stopped, Trapped,
     Editing, codeVars, timerVars, history
<1>4. \A v \in Updater \ {u} : unlocked'[v] = unlocked[v]
  BY DEF SetUnlocked, IInv, TypeOK
<1> QED BY <1>1, <1>2, <1>3, <1>4, InnerStep DEF SetUnlocked, codeVars, timerVars, history

LEMMA PullPreserves == ASSUME IInv, NEW u \in Updater, Pull(u) PROVE IInv'
<1>1. TypeOK'
  BY RequireAssumption DEF Pull, Goto, IInv, TypeOK, Trapped, Editing, codeVars, timerVars, history
<1>2. UpdaterSound(u)'
  BY OnlyOneWorks DEF Pull, Goto, IInv, TypeOK, UpdaterSound, FlagSound, OwnerSound, TimerSound, AsWanted,
     TimerOff, Ownership, Untouched, Relocked, Stopped, Trapped,
     Editing, codeVars, timerVars, history
<1>3. Ownership' /\ Dependencies'
  BY OnlyOneWorks DEF Pull, Goto, IInv, TypeOK, Ownership, Dependencies, UpdaterSound, FlagSound,
     OwnerSound, TimerSound, AsWanted, TimerOff, Untouched, Relocked, Stopped, Trapped,
     Editing, codeVars, timerVars, history
<1> QED BY <1>1, <1>2, <1>3, InnerStep DEF Pull, codeVars, timerVars, history

LEMMA SyncDependenciesPreserves == ASSUME IInv, NEW u \in Updater, SyncDependencies(u) PROVE IInv'
<1>1. TypeOK'
  BY RequireAssumption DEF SyncDependencies, Goto, IInv, TypeOK, Trapped, Editing, codeVars,
     timerVars, history
<1>2. UpdaterSound(u)'
  BY OnlyOneWorks DEF SyncDependencies, Goto, IInv, TypeOK, UpdaterSound, FlagSound, OwnerSound,
     TimerSound, AsWanted,
     TimerOff, Ownership, Untouched, Relocked, Stopped, Trapped,
     Editing, codeVars, timerVars, history
<1>3. Ownership' /\ Dependencies'
  BY OnlyOneWorks DEF SyncDependencies, Goto, IInv, TypeOK, Ownership, Dependencies, UpdaterSound,
     FlagSound,
     OwnerSound, TimerSound, AsWanted, TimerOff, Untouched, Relocked, Stopped, Trapped,
     Editing, codeVars, timerVars, history
<1> QED BY <1>1, <1>2, <1>3, InnerStep DEF SyncDependencies, codeVars, timerVars, history

LEMMA LockRepoPreserves == ASSUME IInv, NEW u \in Updater, LockRepo(u) PROVE IInv'
<1>1. TypeOK'
  BY DEF LockRepo, Goto, IInv, TypeOK, Trapped, Editing, codeVars, timerVars, history
<1>2. UpdaterSound(u)'
  BY OnlyOneWorks DEF LockRepo, Goto, IInv, TypeOK, UpdaterSound, FlagSound, OwnerSound, TimerSound, AsWanted,
     TimerOff, Ownership, Untouched, Relocked, Stopped, Trapped,
     Editing, codeVars, timerVars, history
<1>3. Ownership' /\ Dependencies'
  BY OnlyOneWorks DEF LockRepo, Goto, IInv, TypeOK, Ownership, Dependencies, UpdaterSound,
     FlagSound,
     OwnerSound, TimerSound, AsWanted, TimerOff, Untouched, Relocked, Stopped, Trapped,
     Editing, codeVars, timerVars, history
<1>4. \A v \in Updater \ {u} : unlocked'[v] = unlocked[v]
  BY DEF LockRepo, IInv, TypeOK
<1> QED BY <1>1, <1>2, <1>3, <1>4, InnerStep DEF LockRepo, codeVars, timerVars, history

LEMMA InstallLatestUpdaterPreserves == ASSUME IInv, NEW u \in Updater, InstallLatestUpdater(u) PROVE IInv'
<1>1. TypeOK'
  BY DEF InstallLatestUpdater, Goto, IInv, TypeOK, Trapped, Editing, codeVars, timerVars, history
<1>2. UpdaterSound(u)'
  BY OnlyOneWorks DEF InstallLatestUpdater, Goto, IInv, TypeOK, UpdaterSound, FlagSound,
     OwnerSound, TimerSound, AsWanted,
     TimerOff, Ownership, Untouched, Relocked, Stopped, Trapped,
     Editing, codeVars, timerVars, history
<1>3. Ownership' /\ Dependencies'
  BY OnlyOneWorks DEF InstallLatestUpdater, Goto, IInv, TypeOK, Ownership, Dependencies,
     UpdaterSound, FlagSound,
     OwnerSound, TimerSound, AsWanted, TimerOff, Untouched, Relocked, Stopped, Trapped,
     Editing, codeVars, timerVars, history
<1> QED BY <1>1, <1>2, <1>3, InnerStep DEF InstallLatestUpdater, codeVars, timerVars, history

LEMMA VerifyLiveCyclePreserves == ASSUME IInv, NEW u \in Updater, VerifyLiveCycle(u) PROVE IInv'
<1>1. TypeOK'
  BY DEF VerifyLiveCycle, Goto, IInv, TypeOK, Trapped, Editing, codeVars, timerVars, history
<1>2. UpdaterSound(u)'
  BY OnlyOneWorks DEF VerifyLiveCycle, Goto, IInv, TypeOK, UpdaterSound, FlagSound, OwnerSound,
     TimerSound, AsWanted,
     TimerOff, Ownership, Untouched, Relocked, Stopped, Trapped,
     Editing, codeVars, timerVars, history
<1>3. Ownership' /\ Dependencies'
  BY OnlyOneWorks DEF VerifyLiveCycle, Goto, IInv, TypeOK, Ownership, Dependencies, UpdaterSound,
     FlagSound,
     OwnerSound, TimerSound, AsWanted, TimerOff, Untouched, Relocked, Stopped, Trapped,
     Editing, codeVars, timerVars, history
<1> QED BY <1>1, <1>2, <1>3, InnerStep DEF VerifyLiveCycle, codeVars, timerVars, history

LEMMA VerifiedPreserves == ASSUME IInv, NEW u \in Updater, Verified(u) PROVE IInv'
<1>1. TypeOK'
  BY DEF Verified, Goto, IInv, TypeOK, Trapped, Editing, codeVars, timerVars, history
<1>2. UpdaterSound(u)'
  BY OnlyOneWorks DEF Verified, Goto, IInv, TypeOK, UpdaterSound, FlagSound, OwnerSound, TimerSound, AsWanted,
     TimerOff, Ownership, Untouched, Relocked, Stopped, Trapped,
     Editing, codeVars, timerVars, history
<1>3. Ownership' /\ Dependencies'
  BY OnlyOneWorks DEF Verified, Goto, IInv, TypeOK, Ownership, Dependencies, UpdaterSound,
     FlagSound,
     OwnerSound, TimerSound, AsWanted, TimerOff, Untouched, Relocked, Stopped, Trapped,
     Editing, codeVars, timerVars, history
<1> QED BY <1>1, <1>2, <1>3, InnerStep DEF Verified, codeVars, timerVars, history

LEMMA FailPreserves == ASSUME IInv, NEW u \in Updater, Fail(u) PROVE IInv'
<1>1. TypeOK'
  BY DEF Fail, Goto, IInv, TypeOK, Trapped, Editing, codeVars, timerVars, history
<1>2. UpdaterSound(u)'
  BY OnlyOneWorks DEF Fail, Goto, IInv, TypeOK, UpdaterSound, FlagSound, OwnerSound, TimerSound, AsWanted,
     TimerOff, Ownership, Untouched, Relocked, Stopped, Trapped,
     Editing, codeVars, timerVars, history
<1>3. Ownership'
  BY OnlyOneWorks DEF Fail, IInv, Ownership, UpdaterSound, TimerSound, AsWanted, TimerOff, Stopped, Enabled,
     OwnerSound, Relocked, Untouched, Trapped, Editing, timerVars
<1>4. Dependencies'
  <2>1. pc[u] \in Trapped /\ Goto(u, "cleanup") /\ (pc[u] = "deps" => halfDone')
    BY DEF Fail, Trapped, Editing
  <2>2. UNCHANGED <<head, venv, before>> /\ (halfDone => halfDone')
    BY DEF Fail
  <2> QED BY <2>1, <2>2, OnlyOneWorks DEF IInv, TypeOK, Dependencies, Goto, Trapped, Editing
<1>5. pc[u] # "idle" /\ lock' = lock /\ unlocked' = unlocked
  BY DEF Fail, Trapped, Editing
<1>6. \E label : label # "idle" /\ Goto(u, label)
  BY DEF Fail
<1> QED BY <1>1, <1>2, <1>3, <1>4, <1>5, <1>6, InnerStep

LEMMA RestoreFailsPreserves == ASSUME IInv, NEW u \in Updater, RestoreFails(u) PROVE IInv'
<1>1. TypeOK'
  BY DEF RestoreFails, Goto, IInv, TypeOK, Trapped, Editing, codeVars, timerVars, history,
     TimerIsEnabled, Enabled
<1>2. UpdaterSound(u)'
  BY OnlyOneWorks DEF RestoreFails, Goto, IInv, TypeOK, UpdaterSound, FlagSound, OwnerSound,
     TimerSound, AsWanted,
     TimerOff, Ownership, Untouched, Relocked, Stopped, Trapped,
     Editing, codeVars, timerVars, history, TimerIsEnabled, Enabled
<1>3. Ownership' /\ Dependencies'
  BY OnlyOneWorks DEF RestoreFails, Goto, IInv, TypeOK, Ownership, Dependencies, UpdaterSound,
     FlagSound,
     OwnerSound, TimerSound, AsWanted, TimerOff, Untouched, Relocked, Stopped, Trapped,
     Editing, codeVars, timerVars, history, TimerIsEnabled, Enabled
<1> QED BY <1>1, <1>2, <1>3, InnerStep DEF RestoreFails, codeVars, timerVars, history,
   TimerIsEnabled, Enabled

LEMMA NobodyWorks ==
  ASSUME IInv, lock = NoOne PROVE \A v \in Updater : pc[v] = "idle" /\ ~unlocked[v]
<1>1. \A v \in Updater : pc[v] = "idle"
  BY NoOneAssumption DEF IInv, OneHolder
<1> QED BY <1>1 DEF IInv, UpdaterSound, FlagSound

LEMMA AcquireLockPreserves == ASSUME IInv, NEW u \in Updater, AcquireLock(u) PROVE IInv'
<1>1. lock = NoOne /\ lock' = u /\ Goto(u, "clean")
  BY DEF AcquireLock
<1>2. UNCHANGED <<found, unlocked, before, enabled, ticking, unit, service, owner, head, venv, paused,
                  wanted, failed, excused, halfDone>>
  BY DEF AcquireLock, timerVars, codeVars, history
<1>3. TypeOK'
  BY <1>1, <1>2 DEF Goto, IInv, TypeOK
<1>4. OneHolder'
  BY <1>1, NobodyWorks, NoOneAssumption DEF Goto, IInv, TypeOK, OneHolder
<1>5. ASSUME NEW v \in Updater PROVE UpdaterSound(v)'
  BY <1>1, <1>2, NobodyWorks DEF Goto, IInv, TypeOK, TimerAsWanted, RelockedAfterFailure,
     UpdaterSound,
     FlagSound, OwnerSound, TimerSound, AsWanted, TimerOff, Untouched, Relocked, Stopped, Trapped, Editing
<1>6. Ownership' /\ Dependencies'
  BY <1>1, <1>2, NobodyWorks DEF Goto, IInv, TypeOK, Ownership, Dependencies, Enabled
<1> QED BY <1>1, <1>3, <1>4, <1>5, <1>6, NoOneAssumption DEF IInv, TimerAsWanted,
   RelockedAfterFailure

LEMMA RefusePreserves == ASSUME IInv, NEW u \in Updater, Refuse(u) PROVE IInv'
<1>1. pc[u] # "idle" /\ Exit(u)
  BY DEF Refuse, Trapped, Editing
<1>2. TypeOK'
  BY <1>1 DEF Refuse, Exit, Goto, IInv, TypeOK, Trapped, Editing, codeVars, timerVars, history
<1>3. Ownership'
  BY <1>1 DEF Refuse, IInv, Ownership, UpdaterSound, FlagSound, OwnerSound, Relocked, TimerOff,
     Enabled,
     codeVars, timerVars
<1>4. Dependencies'
  BY <1>1, OnlyOneWorks DEF Refuse, Exit, Goto, IInv, TypeOK, Dependencies, codeVars, history
<1>5. TimerAsWanted' /\ RelockedAfterFailure'
  BY <1>1 DEF Refuse, IInv, TimerAsWanted, RelockedAfterFailure, UpdaterSound, OwnerSound,
     TimerSound, AsWanted,
     TimerOff, Untouched, Relocked, Stopped, Trapped,
     Editing, codeVars, timerVars, history
<1> QED BY <1>1, <1>2, <1>3, <1>4, <1>5, LastStep

LEMMA RestoreTimerPreserves == ASSUME IInv, NEW u \in Updater, RestoreTimer(u) PROVE IInv'
<1>1. pc[u] # "idle" /\ Exit(u)
  BY DEF RestoreTimer, Trapped, Editing
<1>2. TypeOK'
  BY <1>1 DEF RestoreTimer, Exit, Goto, IInv, TypeOK, Trapped, Editing, codeVars, timerVars,
     history, TimerIsEnabled, Enabled
<1>3. Ownership'
  BY <1>1 DEF RestoreTimer, IInv, Ownership, UpdaterSound, FlagSound, OwnerSound, Relocked,
     TimerOff, Enabled,
     codeVars, timerVars, TimerIsEnabled, Enabled
<1>4. Dependencies'
  BY <1>1, OnlyOneWorks DEF RestoreTimer, Exit, Goto, IInv, TypeOK, Dependencies, codeVars,
     history, TimerIsEnabled, Enabled
<1>5. TimerAsWanted' /\ RelockedAfterFailure'
  BY <1>1 DEF RestoreTimer, IInv, TypeOK, TimerAsWanted, RelockedAfterFailure, UpdaterSound,
     OwnerSound, TimerSound, AsWanted,
     TimerOff, Untouched, Relocked, Stopped, Trapped,
     Editing, codeVars, timerVars, history, TimerIsEnabled, Enabled
<1> QED BY <1>1, <1>2, <1>3, <1>4, <1>5, LastStep

LEMMA SignalAfterSuccessPreserves == ASSUME IInv, NEW u \in Updater, SignalAfterSuccess(u) PROVE IInv'
<1>1. pc[u] # "idle" /\ Exit(u)
  BY DEF SignalAfterSuccess, Trapped, Editing
<1>2. TypeOK'
  BY <1>1 DEF SignalAfterSuccess, Exit, Goto, IInv, TypeOK, Trapped, Editing, codeVars, timerVars,
     history
<1>3. Ownership'
  BY <1>1 DEF SignalAfterSuccess, IInv, Ownership, UpdaterSound, FlagSound, OwnerSound, Relocked,
     TimerOff, Enabled,
     codeVars, timerVars
<1>4. Dependencies'
  BY <1>1, OnlyOneWorks DEF SignalAfterSuccess, Exit, Goto, IInv, TypeOK, Dependencies, codeVars,
     history
<1>5. TimerAsWanted' /\ RelockedAfterFailure'
  BY <1>1 DEF SignalAfterSuccess, IInv, TimerAsWanted, RelockedAfterFailure, UpdaterSound,
     OwnerSound, TimerSound, AsWanted,
     TimerOff, Untouched, Relocked, Stopped, Trapped,
     Editing, codeVars, timerVars, history
<1> QED BY <1>1, <1>2, <1>3, <1>4, <1>5, LastStep

LEMMA CleanupOnExitPreserves == ASSUME IInv, NEW u \in Updater, CleanupOnExit(u) PROVE IInv'
<1>1. pc[u] # "idle" /\ Exit(u)
  BY DEF CleanupOnExit, Trapped, Editing
<1>2. TypeOK'
  BY <1>1, ZenonT(40) DEF CleanupOnExit, Exit, Goto, IInv, TypeOK, Trapped, Editing, codeVars, timerVars,
     history
<1>3. Ownership'
  BY <1>1 DEF CleanupOnExit, IInv, Ownership, UpdaterSound, FlagSound, OwnerSound, Relocked,
     TimerOff, Enabled,
     codeVars, timerVars
<1>4. Dependencies'
  BY <1>1, OnlyOneWorks DEF CleanupOnExit, Exit, Goto, IInv, TypeOK, Dependencies, codeVars, history
<1>5. TimerAsWanted' /\ RelockedAfterFailure'
  BY <1>1 DEF CleanupOnExit, IInv, TimerAsWanted, RelockedAfterFailure, UpdaterSound, OwnerSound,
     TimerSound, AsWanted,
     TimerOff, Untouched, Relocked, Stopped, Trapped,
     Editing, codeVars, timerVars, history
<1> QED BY <1>1, <1>2, <1>3, <1>4, <1>5, LastStep

LEMMA RebootPreserves == ASSUME IInv, Reboot PROVE IInv'
<1>1. /\ pc' = [u \in Updater |-> "idle"] /\ unlocked' = [u \in Updater |-> FALSE] /\ lock' = NoOne
      /\ UNCHANGED <<found, before, unit, owner, head, venv, paused>>
      /\ enabled' = IF enabled = "enabled-runtime" THEN "disabled" ELSE enabled
      /\ wanted' = IF wanted = "enabled-runtime" THEN "disabled" ELSE wanted
      /\ service' = "none"
  BY DEF Reboot, codeVars
<1>2. /\ ticking' \in BOOLEAN /\ failed' \in BOOLEAN /\ excused' \in BOOLEAN /\ halfDone' \in BOOLEAN
      /\ ticking' => enabled = "enabled"
      /\ failed \/ (\E u \in Updater : pc[u] \notin {"idle", "clean"}) => failed'
      /\ excused \/ (\E u \in Updater : pc[u] \in Editing \union {"cleanup"}) => excused'
      /\ halfDone \/ (\E u \in Updater : pc[u] = "deps") => halfDone'
  BY Zenon DEF Reboot
<1>3. TypeOK'
  BY <1>1, <1>2 DEF IInv, TypeOK, Enabled
<1>4. OneHolder' /\ \A u \in Updater : UpdaterSound(u)'
  BY <1>1, IdleIsSound, NoOneAssumption DEF OneHolder, UpdaterSound, FlagSound, OwnerSound,
     TimerSound, AsWanted,
     Untouched, Relocked, Stopped, Trapped, Editing
<1>5. Ownership' /\ Dependencies'
  BY <1>1, <1>2 DEF IInv, Ownership, Dependencies, Enabled
<1>6. TimerAsWanted'
  <2>1. CASE \E u \in Updater : pc[u] \notin {"idle", "clean"}
    <3>1. PICK u \in Updater : pc[u] \notin {"idle", "clean"}
      BY <2>1
    <3>2. pc[u] \in Stopped \union {"stop", "cleanup"}
      BY <3>1 DEF IInv, TypeOK, Stopped
    <3>3. enabled \in {wanted, "disabled"}
      BY <3>2 DEF IInv, UpdaterSound, TimerSound, AsWanted, TimerOff, Trapped
    <3> QED BY <1>1, <1>2, <2>1, <3>3 DEF TimerAsWanted
  <2>2. CASE \A u \in Updater : pc[u] \in {"idle", "clean"}
    <3>1. AsWanted(enabled)
      BY <2>2 DEF IInv, TypeOK, OneHolder, TimerAsWanted, UpdaterSound, TimerSound, AsWanted
    <3> QED BY <1>1, <1>2, <3>1 DEF TimerAsWanted, AsWanted
  <2> QED BY <2>1, <2>2
<1>7. RelockedAfterFailure'
  <2>1. CASE \E u \in Updater : pc[u] \in Editing \union {"cleanup"}
    BY <1>2, <2>1 DEF RelockedAfterFailure
  <2>2. CASE \A u \in Updater : pc[u] \notin Editing \union {"cleanup"}
    <3>1. excused \/ owner = "root"
      BY <2>2 DEF IInv, TypeOK, OneHolder, RelockedAfterFailure, UpdaterSound, OwnerSound,
         Untouched,
         Relocked, Trapped, Editing
    <3> QED BY <1>1, <1>2, <3>1 DEF RelockedAfterFailure
  <2> QED BY <2>1, <2>2
<1> QED BY <1>3, <1>4, <1>5, <1>6, <1>7 DEF IInv

\* systemd touches the service only, the operator the timer only while no update runs.
LEMMA SystemdPreserves == ASSUME IInv, TimerElapses \/ CycleEnds \/ OperatorPauses PROVE IInv'
<1>1. /\ UNCHANGED <<pc, found, unlocked, before, lock, enabled, ticking, unit, owner, head, venv,
                     wanted, failed, excused, halfDone>>
  BY Zenon DEF TimerElapses, CycleEnds, OperatorPauses, updaterVars, timerVars, codeVars, history
<1>2. service' = service \/ service' = "none" \/ (ticking /\ service' = "timer")
  BY Zenon DEF TimerElapses, CycleEnds, OperatorPauses
<1>3. paused' \in BOOLEAN
  <2>1. paused' = paused \/ paused' = ~paused
    BY Zenon DEF TimerElapses, CycleEnds, OperatorPauses
  <2>2. paused \in BOOLEAN
    BY DEF IInv, TypeOK
  <2> QED BY ONLY <2>1, <2>2, Zenon
<1>4. TypeOK' /\ OneHolder'
  BY <1>1, <1>2, <1>3 DEF IInv, TypeOK, OneHolder
<1>5. ASSUME NEW u \in Updater PROVE UpdaterSound(u)'
  BY <1>1, <1>2 DEF IInv, UpdaterSound, FlagSound, OwnerSound, TimerSound, AsWanted, TimerOff, Untouched,
     Relocked, Stopped, Trapped, Editing
<1>6. TimerAsWanted' /\ RelockedAfterFailure' /\ Ownership' /\ Dependencies'
  BY <1>1 DEF IInv, TimerAsWanted, RelockedAfterFailure, Ownership, Dependencies
<1> QED BY <1>4, <1>5, <1>6 DEF IInv

LEMMA OperatorPreserves == ASSUME IInv, OperatorSetsTimer \/ OperatorLocksRepo PROVE IInv'
<1>1. lock = NoOne /\ UNCHANGED <<pc, found, unlocked, before, lock, unit, service, head, venv, paused,
                                  halfDone>>
  BY DEF OperatorSetsTimer, OperatorLocksRepo, updaterVars, timerVars, codeVars
<1>2. ticking' \in BOOLEAN
  <2>1. CASE OperatorSetsTimer
    <3>1. ticking' \in {enabled' \in Enabled, owner = "root"}
      BY <2>1 DEF OperatorSetsTimer
    <3>2. (enabled' \in Enabled) \in BOOLEAN /\ (owner = "root") \in BOOLEAN
      OBVIOUS
    <3> QED BY ONLY <3>1, <3>2, Zenon
  <2>2. CASE OperatorLocksRepo
    BY <2>2 DEF OperatorLocksRepo, timerVars, IInv, TypeOK
  <2> QED BY <2>1, <2>2
<1>3. TypeOK'
  BY <1>1, <1>2, ZenonT(40) DEF OperatorSetsTimer, OperatorLocksRepo, IInv, TypeOK, timerVars, codeVars, Enabled
<1>4. OneHolder' /\ \A u \in Updater : UpdaterSound(u)'
  BY <1>1, NobodyWorks DEF IInv, OneHolder, UpdaterSound, FlagSound, OwnerSound, TimerSound, AsWanted,
     Untouched,
     Relocked, Stopped, Trapped, Editing
<1>5. TimerAsWanted' /\ RelockedAfterFailure'
  BY <1>1 DEF OperatorSetsTimer, OperatorLocksRepo, IInv, TimerAsWanted, RelockedAfterFailure,
     timerVars,
     codeVars
<1>6. Ownership' /\ Dependencies'
  BY <1>1 DEF OperatorSetsTimer, OperatorLocksRepo, IInv, Ownership, Dependencies, timerVars,
     codeVars,
     Enabled
<1> QED BY <1>3, <1>4, <1>5, <1>6 DEF IInv

LEMMA StepIInv == IInv /\ [Next]_vars => IInv'
<1> SUFFICES ASSUME IInv, [Next]_vars PROVE IInv'
  OBVIOUS
<1>1. ASSUME NEW u \in Updater, Main(u) PROVE IInv'
  BY <1>1, AcquireLockPreserves, DetectTimerStatePreserves, StopLiveTimerPreserves,
     WaitForLiveServicePreserves, BackupDatabasePreserves, ChownToBotPreserves,
     SetUnlockedPreserves,
     PullPreserves, SyncDependenciesPreserves, LockRepoPreserves, InstallLatestUpdaterPreserves,
     VerifyLiveCyclePreserves, VerifiedPreserves, RestoreTimerPreserves
  DEF Main
<1>2. ASSUME NEW u \in Updater, Abort(u) PROVE IInv'
  BY <1>2, RefusePreserves, WaitExpiresPreserves, FailPreserves, RestoreFailsPreserves,
     SignalAfterSuccessPreserves, CleanupOnExitPreserves
  DEF Abort
<1>3. CASE Environment
  BY <1>3, RebootPreserves, SystemdPreserves, OperatorPreserves DEF Environment
<1>4. CASE UNCHANGED vars
  <2>1. UNCHANGED <<pc, found, unlocked, before, lock, enabled, ticking, unit, service, owner, head,
                    venv, paused, wanted, failed, excused, halfDone>>
    BY <1>4 DEF vars, updaterVars, timerVars, codeVars, history
  <2>2. \A u \in Updater : UpdaterSound(u)'
    BY <2>1 DEF IInv, UpdaterSound, FlagSound, OwnerSound, TimerSound, AsWanted, TimerOff
  <2> QED BY <2>1, <2>2 DEF IInv, TypeOK, OneHolder, TimerAsWanted, RelockedAfterFailure, Ownership,
     Dependencies
<1> QED BY <1>1, <1>2, <1>3, <1>4 DEF Next

\* The invariant: what every step of the updater may rely on.
THEOREM InductiveInvariant == Spec => []IInv
BY InitIInv, StepIInv, PTL DEF Spec

\* Every variable has its type.
THEOREM TypeCorrectness == Spec => []TypeOK
<1>1. IInv => TypeOK
  BY DEF IInv
<1> QED BY <1>1, InductiveInvariant, PTL

\* From the stop of the timer to the re-lock no cycle starts, with any number of
\* updaters: the timer is off, and the lock keeps a second updater from its own cycle.
THEOREM QuietDeploy == Spec => NoCycleStartsMidUpdate
<1> DEFINE Busy == Editing \union {"wait", "backup"}
<1>1. ASSUME IInv, [Next]_vars, NEW u \in Updater, pc[u] \in Busy PROVE service' \in {service, "none"}
  <2>1. ~ticking
    BY <1>1 DEF IInv, UpdaterSound, TimerSound, TimerOff, Stopped, Trapped, Editing
  <2>2. \A v \in Updater : pc[v] # "verify"
    BY <1>1, OnlyOneWorks DEF Editing
  <2>3. CASE \E v \in Updater : Main(v) \/ Abort(v)
    BY <2>2, <2>3 DEF Main, Abort, AcquireLock, DetectTimerState, StopLiveTimer, WaitForLiveService,
       BackupDatabase, ChownToBot, SetUnlocked, Pull, SyncDependencies, LockRepo,
       InstallLatestUpdater, VerifyLiveCycle, Verified, RestoreTimer, Refuse, WaitExpires, Fail,
       RestoreFails, SignalAfterSuccess, CleanupOnExit
  <2>4. CASE Environment
    BY <2>1, <2>4 DEF Environment, Reboot, TimerElapses, CycleEnds, OperatorSetsTimer,
       OperatorLocksRepo, OperatorPauses
  <2>5. CASE UNCHANGED vars
    BY <2>5 DEF vars
  <2> QED BY <1>1, <2>3, <2>4, <2>5 DEF Next
<1>2. IInv /\ [Next]_vars =>
        [(\E u \in Updater : pc[u] \in Busy) => service' \in {service, "none"}]_vars
  BY <1>1
<1> QED BY <1>2, InductiveInvariant, PTL DEF Spec, NoCycleStartsMidUpdate

\* When no update runs the timer is enabled as the operator wanted it, or off, and
\* then an update failed since he last set it.
THEOREM TimerRestored == Spec => []TimerAsWanted
<1>1. IInv => TimerAsWanted
  BY DEF IInv
<1> QED BY <1>1, InductiveInvariant, PTL

\* A timer that ticks starts cycles from a locked checkout with its requirements.
THEOREM WholeCheckout == Spec => []TimerOnlyOverWholeCheckout
<1>1. ASSUME IInv, ticking PROVE owner = "root" /\ (venv = Requirements[head] \/ halfDone)
  BY <1>1 DEF IInv, Ownership, Dependencies, UpdaterSound, TimerSound, AsWanted, TimerOff, Stopped, Trapped,
     Editing
<1> QED BY <1>1, InductiveInvariant, PTL DEF TimerOnlyOverWholeCheckout

\* When no update runs the checkout is root's, with the named excuses only.
THEOREM CheckoutRelocked == Spec => []RelockedAfterFailure
<1>1. IInv => RelockedAfterFailure
  BY DEF IInv
<1> QED BY <1>1, InductiveInvariant, PTL
=============================================================================
