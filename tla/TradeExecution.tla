--------------------------- MODULE TradeExecution ---------------------------
(***************************************************************************)
(* The life of a BUY once `trade-once` has persisted it: admission under   *)
(* the in-flight gate and the UTC-day cap, quote, approval, signing, the   *)
(* durable hash reservation, the single broadcast, the receipt, and the    *)
(* reconciliation a rerun of the same hour performs.                       *)
(*                                                                         *)
(* Every cycle is a one-shot process.  Several may run at once over one    *)
(* SQLite file: the hourly unit, a catch-up start and manual reruns.  A    *)
(* cycle may be killed between any two steps.  An action is one statement  *)
(* of src/trading/runner.py that reads or writes something shared; what a  *)
(* cycle read and has not used yet is in `got`.                            *)
(***************************************************************************)
EXTENDS Integers, FiniteSets

CONSTANTS
  Cycle,          \* invocations of trade-once
  Decision,       \* BUY rows of `decisions`, one per mode and closed hour
  Live,           \* those whose mode is "live"; the others are "dry_run"
  Slot,           \* the hour in which each decision is the latest one
  HoursPerDay,    \* clock units in one UTC day
  MaxHour,        \* bound of the clock
  NoDecision

ASSUME LiveAssumption == Live \subseteq Decision
ASSUME SlotAssumption == Slot \in [Decision -> Nat]
ASSUME DayAssumption  == HoursPerDay \in Nat \ {0}
ASSUME HourAssumption == MaxHour \in Nat
ASSUME NoneAssumption == NoDecision \notin Decision

VARIABLES
  pc,        \* next statement of each cycle
  dec,       \* the decision each cycle works on
  got,       \* status a cycle has read and not written yet
  exec,      \* table trade_executions, one row per decision
  tx,        \* what the node knows of the swap signed for a decision
  now,       \* the clock, in hours
  sends,     \* history: broadcasts made for each decision
  gateAt,    \* history: the hour each row passed the risk gate
  signedAt   \* history: the hour each swap was signed

vars  == <<pc, dec, got, exec, tx, now, sends, gateAt, signedAt>>
local == <<pc, dec, got>>
hist  == <<sends, gateAt, signedAt>>

PreSign  == {"started", "risk_checked", "quoted", "allowance_ready"}
Resumable == {"signed", "broadcast", "pending"}
Settled  == {"confirmed", "reverted"}
Closed   == {"skipped", "failed", "simulated"}
InFlight == PreSign \union Resumable
Attempt  == Resumable \union Settled
Status   == InFlight \union Settled \union Closed

Row == [status : Status \union {"absent"}, hash : BOOLEAN, created : Nat]

\* Statements of _run_execution past admission, that only the creator runs.
Owning == {"checks", "quoted", "allowance", "reserve", "broadcast", "record",
           "await", "receipt", "fail", "failsave"}
Pc == Owning \union {"idle", "admit", "resume", "resave"}

TypeOK ==
  /\ pc \in [Cycle -> Pc]
  /\ dec \in [Cycle -> Decision \union {NoDecision}]
  /\ \A p \in Cycle : pc[p] # "idle" => dec[p] \in Decision
  /\ got \in [Cycle -> Status \union {"none"}]
  /\ exec \in [Decision -> Row]
  /\ tx \in [Decision -> {"none", "signed", "mempool"} \union Settled]
  /\ now \in Nat
  /\ sends \in [Decision -> Nat]
  /\ gateAt \in [Decision -> Nat]
  /\ signedAt \in [Decision -> Nat]

Init ==
  /\ pc = [p \in Cycle |-> "idle"]
  /\ dec = [p \in Cycle |-> NoDecision]
  /\ got = [p \in Cycle |-> "none"]
  /\ exec = [d \in Decision |-> [status |-> "absent", hash |-> FALSE, created |-> 0]]
  /\ tx = [d \in Decision |-> "none"]
  /\ now = 0
  /\ sends = [d \in Decision |-> 0]
  /\ gateAt = [d \in Decision |-> 0]
  /\ signedAt = [d \in Decision |-> 0]

(***************************************************************************)
(* Helpers.                                                                *)
(***************************************************************************)
DayStart(t) == t - (t % HoursPerDay)

\* Seeded fault: the gate looks at reserved hashes only.
OtherInFlightReservedOnly(d) == \E e \in Decision \ {d} : exec[e].status \in Resumable

OtherInFlight(d) == \E e \in Decision \ {d} : exec[e].status \in InFlight

\* Seeded fault: a reverted attempt frees the day.
DailyCapFreedByRevert(d, t) ==
  \E e \in Live \ {d} :
    exec[e].status \in Attempt \ {"reverted"} /\ exec[e].created >= DayStart(t)

\* The cap is locked to one by the configuration, so counting is emptiness.
DailyCapReached(d, t) ==
  \E e \in Live \ {d} : exec[e].status \in Attempt /\ exec[e].created >= DayStart(t)

GatePasses(d, t) ==
  /\ ~OtherInFlight(d)
  /\ d \in Live => ~DailyCapReached(d, t)

SetStatus(d, s) == exec' = [exec EXCEPT ![d].status = s]

Goto(p, label) ==
  /\ pc' = [pc EXCEPT ![p] = label]
  /\ UNCHANGED <<dec, got>>

GotoWith(p, label, value) ==
  /\ pc' = [pc EXCEPT ![p] = label]
  /\ got' = [got EXCEPT ![p] = value]
  /\ UNCHANGED dec

Exit(p) ==
  /\ pc' = [pc EXCEPT ![p] = "idle"]
  /\ dec' = [dec EXCEPT ![p] = NoDecision]
  /\ got' = [got EXCEPT ![p] = "none"]

\* Seeded fault: a receipt that does not come in time is a failure.
ReceiptStatusTimeoutFails(d) == IF tx[d] \in Settled THEN tx[d] ELSE "failed"

ReceiptStatus(d) == IF tx[d] \in Settled THEN tx[d] ELSE "pending"

(***************************************************************************)
(* A cycle persists its decision, then enters the admission transaction.   *)
(* BEGIN IMMEDIATE makes insert, gate and commit one step; created_at and  *)
(* the gate's now_s are two clock reads, which an hour may separate.       *)
(***************************************************************************)
Decide(p, d) ==
  /\ pc[p] = "idle"
  /\ Slot[d] = now
  /\ pc' = [pc EXCEPT ![p] = "admit"]
  /\ dec' = [dec EXCEPT ![p] = d]
  /\ UNCHANGED <<got, exec, tx, now, hist>>

Admit(p) ==
  LET d == dec[p] IN
  /\ pc[p] = "admit"
  /\ exec[d].status = "absent"
  /\ \E later \in {0, 1} :
       /\ now + later <= MaxHour
       /\ GatePasses(d, now + later)
       /\ now' = now + later
       /\ gateAt' = [gateAt EXCEPT ![d] = now + later]
  /\ exec' = [exec EXCEPT ![d] = [status |-> "risk_checked", hash |-> FALSE, created |-> now]]
  /\ Goto(p, "checks")
  /\ UNCHANGED <<tx, sends, signedAt>>

\* The gate refuses, or the pause file, which may exist at any moment.
Skip(p) ==
  LET d == dec[p] IN
  /\ pc[p] = "admit"
  /\ exec[d].status = "absent"
  /\ exec' = [exec EXCEPT ![d] = [status |-> "skipped", hash |-> FALSE, created |-> now]]
  /\ Exit(p)
  /\ UNCHANGED <<tx, now, hist>>

\* Seeded fault: a rerun that finds a signed row sends the swap again.
RejoinSendsAgain(p) ==
  LET d == dec[p] IN
  /\ pc[p] = "admit"
  /\ exec[d].status # "absent"
  /\ IF exec[d].status \in Resumable
       THEN Goto(p, IF exec[d].status = "signed" THEN "broadcast" ELSE "resume")
       ELSE Exit(p)
  /\ UNCHANGED <<exec, tx, now, hist>>

\* Seeded fault: only a row that already timed out is reconciled.
RejoinPendingOnly(p) ==
  LET d == dec[p] IN
  /\ pc[p] = "admit"
  /\ exec[d].status # "absent"
  /\ IF d \in Live /\ exec[d].status = "pending" THEN Goto(p, "resume") ELSE Exit(p)
  /\ UNCHANGED <<exec, tx, now, hist>>

\* The row exists: its content is read inside the transaction, used after it.
Rejoin(p) ==
  LET d == dec[p] IN
  /\ pc[p] = "admit"
  /\ exec[d].status # "absent"
  /\ IF d \in Live /\ exec[d].hash /\ exec[d].status \in Resumable
       THEN Goto(p, "resume")
       ELSE Exit(p)
  /\ UNCHANGED <<exec, tx, now, hist>>

(***************************************************************************)
(* The creator's path.                                                     *)
(***************************************************************************)
Quote(p) ==
  /\ pc[p] = "checks"
  /\ SetStatus(dec[p], "quoted")
  /\ Goto(p, "quoted")
  /\ UNCHANGED <<tx, now, hist>>

\* RiskCheckError or LiveModeNotAllowed: the status is written blindly.
Refuse(p) ==
  /\ \/ pc[p] = "checks" /\ \E s \in {"skipped", "failed"} : SetStatus(dec[p], s)
     \/ pc[p] = "quoted" /\ SetStatus(dec[p], "skipped")
  /\ Exit(p)
  /\ UNCHANGED <<tx, now, hist>>

Simulate(p) ==
  /\ pc[p] = "quoted"
  /\ dec[p] \notin Live
  /\ SetStatus(dec[p], "simulated")
  /\ Exit(p)
  /\ UNCHANGED <<tx, now, hist>>

Approve(p) ==
  /\ pc[p] = "quoted"
  /\ dec[p] \in Live
  /\ SetStatus(dec[p], "allowance_ready")
  /\ Goto(p, "allowance")
  /\ UNCHANGED <<tx, now, hist>>

\* Seeded fault: the swap goes out before its hash is committed.
SignThenBroadcast(p) ==
  /\ pc[p] = "allowance"
  /\ tx' = [tx EXCEPT ![dec[p]] = "signed"]
  /\ signedAt' = [signedAt EXCEPT ![dec[p]] = now]
  /\ Goto(p, "broadcast")
  /\ UNCHANGED <<exec, now, sends, gateAt>>

Sign(p) ==
  /\ pc[p] = "allowance"
  /\ tx' = [tx EXCEPT ![dec[p]] = "signed"]
  /\ signedAt' = [signedAt EXCEPT ![dec[p]] = now]
  /\ Goto(p, "reserve")
  /\ UNCHANGED <<exec, now, sends, gateAt>>

Reserve(p) ==
  /\ pc[p] = "reserve"
  /\ exec' = [exec EXCEPT ![dec[p]].status = "signed", ![dec[p]].hash = TRUE]
  /\ Goto(p, "broadcast")
  /\ UNCHANGED <<tx, now, hist>>

\* The node takes the transaction; its answer may still be lost or wrong.
Broadcast(p) ==
  /\ pc[p] = "broadcast"
  /\ tx' = [tx EXCEPT ![dec[p]] = "mempool"]
  /\ sends' = [sends EXCEPT ![dec[p]] = @ + 1]
  /\ \E label \in {"record", "fail"} : Goto(p, label)
  /\ UNCHANGED <<exec, now, gateAt, signedAt>>

RecordBroadcast(p) ==
  /\ pc[p] = "record"
  /\ SetStatus(dec[p], "broadcast")
  /\ Goto(p, "await")
  /\ UNCHANGED <<tx, now, hist>>

\* Seeded fault: the wait has no timeout.
AwaitReceiptForEver(p) ==
  /\ pc[p] = "await"
  /\ tx[dec[p]] \in Settled
  /\ GotoWith(p, "receipt", tx[dec[p]])
  /\ UNCHANGED <<exec, tx, now, hist>>

\* A receipt, or the timeout with no receipt yet, which reads as pending.
AwaitReceipt(p) ==
  /\ pc[p] = "await"
  /\ GotoWith(p, "receipt", ReceiptStatus(dec[p]))
  /\ UNCHANGED <<exec, tx, now, hist>>

SaveReceipt(p) ==
  /\ pc[p] = "receipt"
  /\ SetStatus(dec[p], got[p])
  /\ Exit(p)
  /\ UNCHANGED <<tx, now, hist>>

(***************************************************************************)
(* Any other exception of the creator's path, a locked database included.  *)
(* _record_execution_failure reads the row in autocommit and writes later. *)
(***************************************************************************)
Raise(p) ==
  /\ pc[p] \in Owning \ {"fail", "failsave"}
  /\ GotoWith(p, "fail", "none")
  /\ UNCHANGED <<exec, tx, now, hist>>

\* Seeded fault: every failure is written as failed.
ReadForFailureAlwaysFails(p) ==
  /\ pc[p] = "fail"
  /\ GotoWith(p, "failsave", "failed")
  /\ UNCHANGED <<exec, tx, now, hist>>

ReadForFailure(p) ==
  LET row == exec[dec[p]] IN
  /\ pc[p] = "fail"
  /\ GotoWith(p, "failsave", IF row.hash THEN row.status ELSE "failed")
  /\ UNCHANGED <<exec, tx, now, hist>>

SaveFailure(p) ==
  /\ pc[p] = "failsave"
  /\ SetStatus(dec[p], got[p])
  /\ Exit(p)
  /\ UNCHANGED <<tx, now, hist>>

(***************************************************************************)
(* A rerun that found a reserved hash: look it up, write what was found.   *)
(***************************************************************************)
Reconcile(p) ==
  /\ pc[p] = "resume"
  /\ \/ GotoWith(p, "resave", ReceiptStatus(dec[p]))
     \/ Exit(p)
  /\ UNCHANGED <<exec, tx, now, hist>>

SaveReconciled(p) ==
  /\ pc[p] = "resave"
  /\ SetStatus(dec[p], got[p])
  /\ Exit(p)
  /\ UNCHANGED <<tx, now, hist>>

(***************************************************************************)
(* Surroundings: a killed process, the chain and the clock.                *)
(***************************************************************************)
Crash(p) ==
  /\ pc[p] # "idle"
  /\ Exit(p)
  /\ UNCHANGED <<exec, tx, now, hist>>

Mine(d) ==
  /\ tx[d] = "mempool"
  /\ \E outcome \in Settled : tx' = [tx EXCEPT ![d] = outcome]
  /\ UNCHANGED <<local, exec, now, hist>>

TickHour ==
  /\ now < MaxHour
  /\ now' = now + 1
  /\ UNCHANGED <<local, exec, tx, hist>>

Work(p) ==
  \/ Admit(p) \/ Skip(p) \/ Rejoin(p)
  \/ Quote(p) \/ Refuse(p) \/ Simulate(p) \/ Approve(p)
  \/ Sign(p) \/ Reserve(p) \/ Broadcast(p) \/ RecordBroadcast(p)
  \/ AwaitReceipt(p) \/ SaveReceipt(p)
  \/ ReadForFailure(p) \/ SaveFailure(p)
  \/ Reconcile(p) \/ SaveReconciled(p)

Next ==
  \/ \E p \in Cycle, d \in Decision : Decide(p, d)
  \/ \E p \in Cycle : Work(p) \/ Raise(p) \/ Crash(p)
  \/ \E d \in Decision : Mine(d)
  \/ TickHour

Spec == Init /\ [][Next]_vars

(***************************************************************************)
(* Fairness.  A running cycle keeps running: every external call has a     *)
(* timeout.  No exception, crash, block or new BUY is ever forced.         *)
(* Reruns is what the README asks of the operator, rerunning the cycle,    *)
(* and of the world, no call that fails for ever.                          *)
(***************************************************************************)
FairSpec == Spec /\ \A p \in Cycle : WF_vars(Work(p))

ReconcileAnswered(p) == Reconcile(p) /\ pc'[p] = "resave"

Reruns ==
  /\ \A d \in Decision : SF_vars(\E p \in Cycle : Decide(p, d))
  /\ \A p \in Cycle : /\ SF_vars(Rejoin(p))
                      /\ SF_vars(ReconcileAnswered(p))
                      /\ SF_vars(SaveReconciled(p))

(***************************************************************************)
(* Properties.                                                             *)
(***************************************************************************)
OnChain(d) == tx[d] = "mempool" \/ tx[d] \in Settled

Unresolved(d) == exec[d].status \in InFlight /\ tx[d] \notin Settled

\* However cycles interleave and die, no two executions are unresolved at
\* once: has_other_in_flight_execution inside BEGIN IMMEDIATE is a lock that
\* a crash keeps closed and only a receipt or a safe failure opens.
AtMostOneUnresolved ==
  \A d, e \in Decision : d # e => ~(Unresolved(d) /\ Unresolved(e))

\* A swap the node has seen is one whose hash the database holds, so that a
\* crash anywhere around the broadcast leaves something to reconcile.
HashBeforeBroadcast == \A d \in Decision : OnChain(d) => exec[d].hash

\* A terminal status never lies about the chain: a settled row repeats the
\* receipt, and skipped, failed and simulated mean the node never saw a swap,
\* although failures are recorded from a row read earlier.
TerminalTellsTheTruth ==
  \A d \in Decision :
    /\ exec[d].status \in Settled => tx[d] = exec[d].status
    /\ exec[d].status \in Closed => ~OnChain(d)

\* Reruns, retries and failure handling never send a second swap for one BUY.
BroadcastOnce == \A d \in Decision : sends[d] <= 1

\* The daily cap as the code enforces it: of two live attempts, one was
\* created before the UTC day in which the other passed the gate.
OneAttemptPerAdmissionDay ==
  \A d, e \in Live :
    d # e /\ exec[d].status \in Attempt /\ exec[e].status \in Attempt =>
      \/ exec[d].created < DayStart(gateAt[e])
      \/ exec[e].created < DayStart(gateAt[d])

Admitted(d) == exec[d].status = "absent" /\ exec'[d].status = "risk_checked"

\* No execution is ever admitted while another decision's swap may still be
\* mined: the second path is closed for as long as the first is open.
NoAdmissionOverOpenSwap ==
  [][\A d \in Decision : Admitted(d) =>
       \A e \in Decision \ {d} : tx[e] # "mempool"]_vars

\* A cycle that starts ends, whatever the chain and the other cycles do: the
\* receipt wait times out, and no path waits for another execution.
CycleEnds == \A p \in Cycle : pc[p] # "idle" ~> pc[p] = "idle"

ResultKnown(d) == tx[d] \in Settled

\* Rerunning the cycle within its hour does reconcile a mined swap, through
\* crashes, failed look-ups and stale writes of other cycles.
RerunReconciles ==
  Reruns =>
    \A d \in Live : ResultKnown(d) ~> (exec[d].status \in Settled \/ now > Slot[d])

(***************************************************************************)
(* The inductive invariant behind the safety properties.  A creator owns   *)
(* its row until it ends, the row's hash separates what the chain may know *)
(* of from what it cannot, and a status a cycle still has to write is      *)
(* pending or already true.                                                *)
(***************************************************************************)
OneOwner ==
  \A p, q \in Cycle :
    p # q /\ pc[p] \in Owning /\ pc[q] \in Owning => dec[p] # dec[q]

RowConsistent(d) ==
  /\ exec[d].hash <=> exec[d].status \in Attempt
  /\ exec[d].status \in Settled => tx[d] = exec[d].status
  /\ OnChain(d) => exec[d].hash
  /\ exec[d].status = "absent" => tx[d] = "none"
  /\ sends[d] = IF OnChain(d) THEN 1 ELSE 0

\* A value got for d may be written over any status of a reserved row.
Writable(s, d) == s \in Attempt /\ (s \in Settled => tx[d] = s)

CycleConsistent(p) ==
  LET d == dec[p]  row == exec[dec[p]] IN
  /\ pc[p] \in {"checks", "quoted", "allowance"} => row.status \in PreSign /\ tx[d] = "none"
  /\ pc[p] = "reserve" => row.status \in PreSign /\ tx[d] = "signed"
  /\ pc[p] = "broadcast" => row.hash /\ tx[d] = "signed"
  /\ pc[p] \in {"record", "await", "receipt", "resume", "resave"} => row.hash
  /\ pc[p] = "fail" => row.status # "absent"
  /\ pc[p] \in {"receipt", "resave"} => Writable(got[p], d)
  /\ pc[p] = "failsave" => IF row.hash THEN Writable(got[p], d) ELSE got[p] = "failed" /\ row.status # "absent"

\* What the gate saw when it let d through still holds of every attempt.
GateRemembered ==
  \A d, e \in Live :
    d # e /\ exec[d].status \in PreSign /\ exec[e].status \in Attempt =>
      exec[e].created < DayStart(gateAt[d])

IInv ==
  /\ TypeOK
  /\ OneOwner
  /\ \A d \in Decision : RowConsistent(d)
  /\ \A p \in Cycle : CycleConsistent(p)
  /\ AtMostOneUnresolved
  /\ GateRemembered
  /\ OneAttemptPerAdmissionDay

(***************************************************************************)
(* Seen from the chain, an execution is a SwapLedger entry.                *)
(***************************************************************************)
SwapState(d) ==
  IF tx[d] \in Settled THEN "mined"
  ELSE IF tx[d] = "mempool" THEN "sent"
  ELSE IF exec[d].hash THEN "reserved" ELSE "none"

Ledger == INSTANCE SwapLedger WITH swap <- [d \in Decision |-> SwapState(d)]

\* The lifecycle, its failures and its reruns implement the ledger: reserve,
\* then send once, then mined, one swap open at a time.
ImplementsLedger == Ledger!Spec

=============================================================================
