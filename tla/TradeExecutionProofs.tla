------------------------ MODULE TradeExecutionProofs ------------------------
(***************************************************************************)
(* For every number of cycles, set of decisions, slot assignment and day   *)
(* length: IInv is inductive, so the safety properties of TradeExecution   *)
(* hold in every reachable state, and every step is a step of SwapLedger   *)
(* or leaves it unchanged.                                                 *)
(***************************************************************************)
EXTENDS TradeExecution, TLAPS

\* A UTC day starts at or before every moment of it.
LEMMA DayStartBound == ASSUME NEW t \in Nat PROVE DayStart(t) \in Int /\ DayStart(t) <= t
BY DayAssumption DEF DayStart

\* The value sets and the small helpers are expanded everywhere.
USE LiveAssumption, NoneAssumption
    DEF Row, Status, Pc, Owning, InFlight, PreSign, Resumable, Settled, Closed, Attempt,
        Goto, GotoWith, Exit, SetStatus, hist, local

\* With no rows and no running cycle the invariant holds.
LEMMA InitIInv == Init => IInv
BY DEF Init, IInv, TypeOK, OneOwner, RowConsistent, CycleConsistent, AtMostOneUnresolved,
       GateRemembered, OneAttemptPerAdmissionDay, Unresolved, OnChain

(***************************************************************************)
(* The actions that need the invariant's conjuncts one by one.             *)
(***************************************************************************)
\* A refused admission closes a row nobody owns.
LEMMA SkipPreserves == ASSUME IInv, NEW p \in Cycle, Skip(p) PROVE IInv'
<1>1. TypeOK'
  BY DEF IInv, Skip, TypeOK
<1>2. OneOwner'
  BY DEF IInv, Skip, TypeOK, OneOwner, RowConsistent, CycleConsistent, Writable
<1>3. (\A d \in Decision : RowConsistent(d))'
  BY DEF IInv, Skip, TypeOK, RowConsistent, CycleConsistent, OnChain, Writable
<1>4. (\A q \in Cycle : CycleConsistent(q))'
  <2> SUFFICES ASSUME NEW q \in Cycle PROVE CycleConsistent(q)'
    OBVIOUS
  <2>1. CASE q = p
    BY <2>1 DEF IInv, Skip, TypeOK, CycleConsistent
  <2>2. CASE q # p /\ dec[q] = dec[p]
    BY <2>2, SMTT(30) DEF IInv, Skip, TypeOK, RowConsistent, CycleConsistent
  <2>3. CASE q # p /\ dec[q] # dec[p]
    <3>1. CASE pc[q] = "idle"
      BY <2>3, <3>1 DEF IInv, Skip, TypeOK, CycleConsistent
    <3>2. CASE pc[q] # "idle"
      <4>1. dec[q] \in Decision /\ exec'[dec[q]] = exec[dec[q]]
        BY <2>3, <3>2 DEF IInv, Skip, TypeOK
      <4> QED BY <2>3, <4>1 DEF IInv, Skip, TypeOK, CycleConsistent, Writable
    <3> QED BY <3>1, <3>2
  <2> QED BY <2>1, <2>2, <2>3
<1>5. AtMostOneUnresolved'
  BY DEF IInv, Skip, TypeOK, AtMostOneUnresolved, Unresolved, RowConsistent, CycleConsistent,
     OnChain, Writable
<1>6. GateRemembered'
  BY DayStartBound DEF IInv, Skip, TypeOK, GateRemembered, RowConsistent, CycleConsistent,
     AtMostOneUnresolved, Unresolved, OnChain, Writable
<1>7. OneAttemptPerAdmissionDay'
  BY DayStartBound DEF IInv, Skip, TypeOK, OneAttemptPerAdmissionDay, GateRemembered,
     RowConsistent, CycleConsistent, OnChain, Writable
<1> QED BY <1>1, <1>2, <1>3, <1>4, <1>5, <1>6, <1>7 DEF IInv

\* A risk error closes the row of a cycle that has not signed.
LEMMA RefusePreserves == ASSUME IInv, NEW p \in Cycle, Refuse(p) PROVE IInv'
<1>1. PICK s \in {"skipped", "failed"} : exec' = [exec EXCEPT ![dec[p]].status = s]
  BY DEF Refuse
<1>2. /\ dec[p] \in Decision /\ pc[p] \in {"checks", "quoted"}
      /\ pc' = [pc EXCEPT ![p] = "idle"] /\ dec' = [dec EXCEPT ![p] = NoDecision]
      /\ got' = [got EXCEPT ![p] = "none"] /\ UNCHANGED <<tx, now, hist>>
  BY DEF IInv, TypeOK, Refuse
<1>3. TypeOK'
  BY <1>1, <1>2 DEF IInv, TypeOK
<1>4. OneOwner'
  BY <1>1, <1>2 DEF IInv, TypeOK, OneOwner, RowConsistent, CycleConsistent, Writable
<1>5. (\A d \in Decision : RowConsistent(d))'
  BY <1>1, <1>2 DEF IInv, TypeOK, RowConsistent, CycleConsistent, OnChain, Writable
<1>6. (\A q \in Cycle : CycleConsistent(q))'
  BY <1>1, <1>2 DEF IInv, TypeOK, OneOwner, RowConsistent, CycleConsistent, OnChain, Writable
<1>7. AtMostOneUnresolved'
  BY <1>1, <1>2 DEF IInv, TypeOK, AtMostOneUnresolved, Unresolved, RowConsistent, CycleConsistent,
     OnChain, Writable
<1>8. GateRemembered'
  BY <1>1, <1>2, DayStartBound DEF IInv, TypeOK, GateRemembered, RowConsistent, CycleConsistent,
     AtMostOneUnresolved, Unresolved, OnChain, Writable
<1>9. OneAttemptPerAdmissionDay'
  BY <1>1, <1>2, DayStartBound DEF IInv, TypeOK, OneAttemptPerAdmissionDay, GateRemembered,
     RowConsistent, CycleConsistent, OnChain, Writable
<1> QED BY <1>3, <1>4, <1>5, <1>6, <1>7, <1>8, <1>9 DEF IInv

\* Committing the hash turns the row into an attempt of its admission day.
LEMMA ReservePreserves == ASSUME IInv, NEW p \in Cycle, Reserve(p) PROVE IInv'
<1>1. /\ dec[p] \in Decision /\ pc[p] = "reserve"
      /\ exec' = [exec EXCEPT ![dec[p]] = [@ EXCEPT !.status = "signed", !.hash = TRUE]]
      /\ pc' = [pc EXCEPT ![p] = "broadcast"] /\ UNCHANGED <<dec, got, tx, now, hist>>
  BY DEF IInv, TypeOK, Reserve
<1>2. TypeOK'
  BY <1>1, ZenonT(40) DEF IInv, TypeOK
<1>3. OneOwner'
  BY <1>1 DEF IInv, TypeOK, OneOwner, RowConsistent, CycleConsistent, Writable
<1>4. (\A d \in Decision : RowConsistent(d))'
  BY <1>1 DEF IInv, TypeOK, RowConsistent, CycleConsistent, OnChain, Writable
<1>5. (\A q \in Cycle : CycleConsistent(q))'
  BY <1>1 DEF IInv, TypeOK, OneOwner, RowConsistent, CycleConsistent, OnChain, Writable
<1>6. AtMostOneUnresolved'
  BY <1>1 DEF IInv, TypeOK, AtMostOneUnresolved, Unresolved, RowConsistent, CycleConsistent,
     OnChain, Writable
<1>7. GateRemembered'
  BY <1>1, DayStartBound, SMTT(30) DEF IInv, TypeOK, GateRemembered, RowConsistent, CycleConsistent,
     AtMostOneUnresolved, Unresolved, OnChain, Writable
<1>8. OneAttemptPerAdmissionDay'
  BY <1>1, DayStartBound DEF IInv, TypeOK, OneAttemptPerAdmissionDay, GateRemembered,
     RowConsistent, CycleConsistent, OnChain, Writable
<1> QED BY <1>2, <1>3, <1>4, <1>5, <1>6, <1>7, <1>8 DEF IInv

\* The status read before is still writable when it is written.
LEMMA SaveFailurePreserves == ASSUME IInv, NEW p \in Cycle, SaveFailure(p) PROVE IInv'
<1>0. dec[p] \in Decision /\ got[p] \in Status
  BY DEF IInv, TypeOK, CycleConsistent, Writable, SaveFailure
<1>1. TypeOK'
  BY <1>0 DEF IInv, SaveFailure, TypeOK
<1>2. OneOwner'
  BY <1>0 DEF IInv, SaveFailure, TypeOK, OneOwner, RowConsistent, CycleConsistent, Writable
<1>3. (\A d \in Decision : RowConsistent(d))'
  BY <1>0 DEF IInv, SaveFailure, TypeOK, RowConsistent, CycleConsistent, OnChain, Writable
<1>4. (\A q \in Cycle : CycleConsistent(q))'
  BY <1>0 DEF IInv, SaveFailure, TypeOK, OneOwner, RowConsistent, CycleConsistent, OnChain, Writable
<1>5. AtMostOneUnresolved'
  BY <1>0 DEF IInv, SaveFailure, TypeOK, AtMostOneUnresolved, Unresolved, RowConsistent,
     CycleConsistent, OnChain, Writable
<1>6. GateRemembered'
  BY <1>0, DayStartBound DEF IInv, SaveFailure, TypeOK, GateRemembered, RowConsistent,
     CycleConsistent, AtMostOneUnresolved, Unresolved, OnChain, Writable
<1>7. OneAttemptPerAdmissionDay'
  BY <1>0, DayStartBound DEF IInv, SaveFailure, TypeOK, OneAttemptPerAdmissionDay, GateRemembered,
     RowConsistent, CycleConsistent, OnChain, Writable
<1> QED BY <1>1, <1>2, <1>3, <1>4, <1>5, <1>6, <1>7 DEF IInv

\* A validated quote moves an unsigned row.
LEMMA QuotePreserves == ASSUME IInv, NEW p \in Cycle, Quote(p) PROVE IInv'
<1>1. TypeOK'
  BY DEF IInv, Quote, TypeOK
<1>2. OneOwner'
  BY DEF IInv, Quote, TypeOK, OneOwner, RowConsistent, CycleConsistent, Writable
<1>3. (\A d \in Decision : RowConsistent(d))'
  BY DEF IInv, Quote, TypeOK, RowConsistent, CycleConsistent, OnChain, Writable
<1>4. (\A q \in Cycle : CycleConsistent(q))'
  BY DEF IInv, Quote, TypeOK, OneOwner, RowConsistent, CycleConsistent, OnChain, Writable
<1>5. AtMostOneUnresolved'
  BY DEF IInv, Quote, TypeOK, AtMostOneUnresolved, Unresolved, RowConsistent, CycleConsistent,
     OnChain, Writable
<1>6. GateRemembered'
  BY DayStartBound DEF IInv, Quote, TypeOK, GateRemembered, RowConsistent, CycleConsistent,
     AtMostOneUnresolved, Unresolved, OnChain, Writable
<1>7. OneAttemptPerAdmissionDay'
  BY DayStartBound DEF IInv, Quote, TypeOK, OneAttemptPerAdmissionDay, GateRemembered,
     RowConsistent, CycleConsistent, OnChain, Writable
<1> QED BY <1>1, <1>2, <1>3, <1>4, <1>5, <1>6, <1>7 DEF IInv

\* A dry run ends without a swap.
LEMMA SimulatePreserves == ASSUME IInv, NEW p \in Cycle, Simulate(p) PROVE IInv'
<1>1. TypeOK'
  BY DEF IInv, Simulate, TypeOK
<1>2. OneOwner'
  BY DEF IInv, Simulate, TypeOK, OneOwner, RowConsistent, CycleConsistent, Writable
<1>3. (\A d \in Decision : RowConsistent(d))'
  BY DEF IInv, Simulate, TypeOK, RowConsistent, CycleConsistent, OnChain, Writable
<1>4. (\A q \in Cycle : CycleConsistent(q))'
  BY DEF IInv, Simulate, TypeOK, OneOwner, RowConsistent, CycleConsistent, OnChain, Writable
<1>5. AtMostOneUnresolved'
  BY DEF IInv, Simulate, TypeOK, AtMostOneUnresolved, Unresolved, RowConsistent, CycleConsistent,
     OnChain, Writable
<1>6. GateRemembered'
  BY DayStartBound DEF IInv, Simulate, TypeOK, GateRemembered, RowConsistent, CycleConsistent,
     AtMostOneUnresolved, Unresolved, OnChain, Writable
<1>7. OneAttemptPerAdmissionDay'
  BY DayStartBound DEF IInv, Simulate, TypeOK, OneAttemptPerAdmissionDay, GateRemembered,
     RowConsistent, CycleConsistent, OnChain, Writable
<1> QED BY <1>1, <1>2, <1>3, <1>4, <1>5, <1>6, <1>7 DEF IInv

(***************************************************************************)
(* The blind writes of a status to a row whose hash is reserved.           *)
(***************************************************************************)
\* A writable status leaves the row an attempt, and resolved if it was.
LEMMA WriteAttempt ==
  ASSUME IInv, NEW d \in Decision, NEW s, exec[d].hash, Writable(s, d),
         exec' = [exec EXCEPT ![d].status = s], UNCHANGED <<tx, hist>>
  PROVE  /\ \A e \in Decision : RowConsistent(e)'
         /\ AtMostOneUnresolved' /\ GateRemembered' /\ OneAttemptPerAdmissionDay'
<1>1. exec[d].status \in Attempt /\ (exec[d].status \in Settled => tx[d] = exec[d].status)
  BY DEF IInv, RowConsistent
<1>2. /\ exec'[d].status = s /\ exec'[d].hash = exec[d].hash /\ exec'[d].created = exec[d].created
      /\ \A e \in Decision \ {d} : exec'[e] = exec[e]
  BY ZenonT(40) DEF IInv, TypeOK
<1>3. \A e \in Decision : RowConsistent(e)'
  BY <1>1, <1>2 DEF IInv, RowConsistent, OnChain, Writable
<1>4. AtMostOneUnresolved'
  BY <1>1, <1>2 DEF IInv, AtMostOneUnresolved, Unresolved, Writable
<1>5. GateRemembered'
  BY <1>1, <1>2 DEF IInv, GateRemembered, DayStart, Writable
<1>6. OneAttemptPerAdmissionDay'
  BY <1>1, <1>2 DEF IInv, OneAttemptPerAdmissionDay, DayStart, Writable
<1> QED BY <1>3, <1>4, <1>5, <1>6

\* Broadcast is writable at any time.
LEMMA RecordBroadcastPreserves == ASSUME IInv, NEW p \in Cycle, RecordBroadcast(p) PROVE IInv'
<1>1. dec[p] \in Decision /\ exec[dec[p]].hash /\ Writable("broadcast", dec[p])
  BY DEF IInv, RecordBroadcast, TypeOK, CycleConsistent, Writable
<1>2. exec' = [exec EXCEPT ![dec[p]].status = "broadcast"] /\ UNCHANGED <<tx, hist>>
  BY DEF RecordBroadcast
<1>3. /\ \A e \in Decision : RowConsistent(e)'
      /\ AtMostOneUnresolved' /\ GateRemembered' /\ OneAttemptPerAdmissionDay'
  BY <1>1, <1>2, WriteAttempt
<1>4. TypeOK'
  BY <1>1 DEF IInv, RecordBroadcast, TypeOK, Writable
<1>5. OneOwner'
  BY DEF IInv, RecordBroadcast, TypeOK, OneOwner
<1>6. \A q \in Cycle : CycleConsistent(q)'
  BY <1>1 DEF IInv, RecordBroadcast, TypeOK, OneOwner, RowConsistent, CycleConsistent, OnChain,
     Writable
<1> QED BY <1>3, <1>4, <1>5, <1>6 DEF IInv

\* What the wait returned is still writable.
LEMMA SaveReceiptPreserves == ASSUME IInv, NEW p \in Cycle, SaveReceipt(p) PROVE IInv'
<1>1. dec[p] \in Decision /\ exec[dec[p]].hash /\ Writable(got[p], dec[p])
  BY DEF IInv, SaveReceipt, TypeOK, CycleConsistent, Writable
<1>2. exec' = [exec EXCEPT ![dec[p]].status = got[p]] /\ UNCHANGED <<tx, hist>>
  BY DEF SaveReceipt
<1>3. /\ \A e \in Decision : RowConsistent(e)'
      /\ AtMostOneUnresolved' /\ GateRemembered' /\ OneAttemptPerAdmissionDay'
  BY <1>1, <1>2, WriteAttempt
<1>4. TypeOK'
  BY <1>1 DEF IInv, SaveReceipt, TypeOK, Writable
<1>5. OneOwner'
  BY DEF IInv, SaveReceipt, TypeOK, OneOwner
<1>6. \A q \in Cycle : CycleConsistent(q)'
  BY <1>1 DEF IInv, SaveReceipt, TypeOK, OneOwner, RowConsistent, CycleConsistent, OnChain, Writable
<1> QED BY <1>3, <1>4, <1>5, <1>6 DEF IInv

\* What the look-up returned is still writable.
LEMMA SaveReconciledPreserves == ASSUME IInv, NEW p \in Cycle, SaveReconciled(p) PROVE IInv'
<1>1. dec[p] \in Decision /\ exec[dec[p]].hash /\ Writable(got[p], dec[p])
  BY DEF IInv, SaveReconciled, TypeOK, CycleConsistent, Writable
<1>2. exec' = [exec EXCEPT ![dec[p]].status = got[p]] /\ UNCHANGED <<tx, hist>>
  BY DEF SaveReconciled
<1>3. /\ \A e \in Decision : RowConsistent(e)'
      /\ AtMostOneUnresolved' /\ GateRemembered' /\ OneAttemptPerAdmissionDay'
  BY <1>1, <1>2, WriteAttempt
<1>4. TypeOK'
  BY <1>1 DEF IInv, SaveReconciled, TypeOK, Writable
<1>5. OneOwner'
  BY DEF IInv, SaveReconciled, TypeOK, OneOwner
<1>6. \A q \in Cycle : CycleConsistent(q)'
  BY <1>1 DEF IInv, SaveReconciled, TypeOK, OneOwner, RowConsistent, CycleConsistent, OnChain,
     Writable
<1> QED BY <1>3, <1>4, <1>5, <1>6 DEF IInv

\* The row a cycle owns has been created.
LEMMA OwnedRowsExist ==
  ASSUME IInv, NEW q \in Cycle, pc[q] \in Owning PROVE exec[dec[q]].status # "absent"
BY DEF IInv, TypeOK, RowConsistent, CycleConsistent, Writable

\* The gate leaves one unresolved execution, on a day of its own.
LEMMA AdmitPreserves == ASSUME IInv, NEW p \in Cycle, Admit(p) PROVE IInv'
<1>1. TypeOK'
  BY DEF IInv, Admit, GatePasses, OtherInFlight, DailyCapReached, TypeOK
<1>2. OneOwner'
  BY OwnedRowsExist DEF IInv, Admit, TypeOK, OneOwner
<1>3. (\A d \in Decision : RowConsistent(d))'
  BY DEF IInv, Admit, GatePasses, OtherInFlight, DailyCapReached, TypeOK, RowConsistent,
     CycleConsistent, OnChain, Writable
<1>4. (\A q \in Cycle : CycleConsistent(q))'
  BY DEF IInv, Admit, GatePasses, OtherInFlight, DailyCapReached, TypeOK, OneOwner, RowConsistent,
     CycleConsistent, OnChain, Writable
<1>5. AtMostOneUnresolved'
  BY DEF IInv, Admit, GatePasses, OtherInFlight, DailyCapReached, TypeOK, AtMostOneUnresolved,
     Unresolved, RowConsistent, CycleConsistent, OnChain, Writable
<1>6. GateRemembered'
  BY DayStartBound DEF IInv, Admit, GatePasses, OtherInFlight, DailyCapReached, TypeOK,
     GateRemembered, RowConsistent, CycleConsistent, AtMostOneUnresolved, Unresolved, OnChain,
     Writable
<1>7. OneAttemptPerAdmissionDay'
  BY DayStartBound, SMTT(30) DEF IInv, Admit, GatePasses, OtherInFlight, DailyCapReached, TypeOK,
     OneAttemptPerAdmissionDay, GateRemembered, RowConsistent, CycleConsistent, OnChain, Writable
<1> QED BY <1>1, <1>2, <1>3, <1>4, <1>5, <1>6, <1>7 DEF IInv

\* A receipt resolves a swap and makes no stale value false.
LEMMA MinePreserves == ASSUME IInv, NEW d \in Decision, Mine(d) PROVE IInv'
<1>1. TypeOK'
  BY DEF IInv, Mine, TypeOK
<1>2. OneOwner'
  BY DEF IInv, Mine, TypeOK, OneOwner, RowConsistent, CycleConsistent, Writable
<1>3. (\A e \in Decision : RowConsistent(e))'
  BY DEF IInv, Mine, TypeOK, RowConsistent, CycleConsistent, OnChain, Writable
<1>4. (\A q \in Cycle : CycleConsistent(q))'
  BY DEF IInv, Mine, TypeOK, OneOwner, RowConsistent, CycleConsistent, OnChain, Writable
<1>5. AtMostOneUnresolved'
  BY DEF IInv, Mine, TypeOK, AtMostOneUnresolved, Unresolved, RowConsistent, CycleConsistent,
     OnChain, Writable
<1>6. GateRemembered'
  BY DayStartBound DEF IInv, Mine, TypeOK, GateRemembered, RowConsistent, CycleConsistent,
     AtMostOneUnresolved, Unresolved, OnChain, Writable
<1>7. OneAttemptPerAdmissionDay'
  BY DayStartBound DEF IInv, Mine, TypeOK, OneAttemptPerAdmissionDay, GateRemembered,
     RowConsistent, CycleConsistent, OnChain, Writable
<1> QED BY <1>1, <1>2, <1>3, <1>4, <1>5, <1>6, <1>7 DEF IInv

(***************************************************************************)
(* The actions that touch no table and no transaction.                     *)
(***************************************************************************)
\* What they leave to show is the cycle's own part of the invariant.
LEMMA LocalStep ==
  ASSUME IInv, UNCHANGED <<exec, tx, hist>>, TypeOK', OneOwner',
         \A q \in Cycle : CycleConsistent(q)'
  PROVE  IInv'
<1>1. \A d \in Decision : RowConsistent(d)'
  BY DEF IInv, RowConsistent, OnChain
<1>2. AtMostOneUnresolved'
  BY DEF IInv, AtMostOneUnresolved, Unresolved
<1>3. GateRemembered' /\ OneAttemptPerAdmissionDay'
  BY DEF IInv, GateRemembered, OneAttemptPerAdmissionDay, DayStart
<1> QED BY <1>1, <1>2, <1>3 DEF IInv

\* A cycle with a decision owns nothing yet.
LEMMA DecidePreserves == ASSUME IInv, NEW p \in Cycle, NEW d \in Decision, Decide(p, d) PROVE IInv'
<1>1. TypeOK'
  BY DEF IInv, Decide, TypeOK
<1>2. OneOwner'
  BY DEF IInv, Decide, TypeOK, OneOwner
<1>3. ASSUME NEW q \in Cycle PROVE CycleConsistent(q)'
  BY DEF IInv, Decide, TypeOK, RowConsistent, CycleConsistent, Writable, OnChain
<1> QED BY <1>1, <1>2, <1>3, LocalStep DEF Decide

\* A rerun looks at a row of which it owns nothing.
LEMMA RejoinPreserves == ASSUME IInv, NEW p \in Cycle, Rejoin(p) PROVE IInv'
<1>1. TypeOK'
  BY SMTT(30) DEF IInv, Rejoin, TypeOK
<1>2. OneOwner'
  BY DEF IInv, Rejoin, TypeOK, OneOwner
<1>3. ASSUME NEW q \in Cycle PROVE CycleConsistent(q)'
  BY DEF IInv, Rejoin, TypeOK, RowConsistent, CycleConsistent, Writable, OnChain
<1> QED BY <1>1, <1>2, <1>3, LocalStep DEF Rejoin

\* What the wait returns is pending or already true.
LEMMA AwaitReceiptPreserves == ASSUME IInv, NEW p \in Cycle, AwaitReceipt(p) PROVE IInv'
<1>1. TypeOK'
  BY DEF IInv, AwaitReceipt, ReceiptStatus, TypeOK
<1>2. OneOwner'
  BY DEF IInv, AwaitReceipt, TypeOK, OneOwner
<1>3. ASSUME NEW q \in Cycle PROVE CycleConsistent(q)'
  BY DEF IInv, AwaitReceipt, ReceiptStatus, TypeOK, RowConsistent, CycleConsistent, Writable,
     OnChain
<1> QED BY <1>1, <1>2, <1>3, LocalStep DEF AwaitReceipt

\* An exception leaves the row to its owner.
LEMMA RaisePreserves == ASSUME IInv, NEW p \in Cycle, Raise(p) PROVE IInv'
<1>1. TypeOK'
  BY DEF IInv, Raise, TypeOK
<1>2. OneOwner'
  BY DEF IInv, Raise, TypeOK, OneOwner
<1>3. ASSUME NEW q \in Cycle PROVE CycleConsistent(q)'
  BY DEF IInv, Raise, TypeOK, RowConsistent, CycleConsistent, Writable, OnChain
<1> QED BY <1>1, <1>2, <1>3, LocalStep DEF Raise

\* What a failure will write is harmless while the row has a hash.
LEMMA ReadForFailurePreserves == ASSUME IInv, NEW p \in Cycle, ReadForFailure(p) PROVE IInv'
<1>1. TypeOK'
  <2>1. dec[p] \in Decision /\ exec[dec[p]] \in Row
    BY DEF IInv, ReadForFailure, TypeOK
  <2>2. exec[dec[p]].status # "absent"
    BY DEF IInv, ReadForFailure, CycleConsistent
  <2> QED BY <2>1, <2>2 DEF IInv, ReadForFailure, TypeOK
<1>2. OneOwner'
  BY DEF IInv, ReadForFailure, TypeOK, OneOwner
<1>3. ASSUME NEW q \in Cycle PROVE CycleConsistent(q)'
  BY DEF IInv, ReadForFailure, TypeOK, RowConsistent, CycleConsistent, Writable, OnChain
<1> QED BY <1>1, <1>2, <1>3, LocalStep DEF ReadForFailure

\* What a rerun looks up is pending or already true.
LEMMA ReconcilePreserves == ASSUME IInv, NEW p \in Cycle, Reconcile(p) PROVE IInv'
<1>1. TypeOK'
  BY DEF IInv, Reconcile, ReceiptStatus, TypeOK
<1>2. OneOwner'
  BY DEF IInv, Reconcile, TypeOK, OneOwner
<1>3. ASSUME NEW q \in Cycle PROVE CycleConsistent(q)'
  BY DEF IInv, Reconcile, ReceiptStatus, TypeOK, RowConsistent, CycleConsistent, Writable, OnChain
<1> QED BY <1>1, <1>2, <1>3, LocalStep DEF Reconcile

\* A dead cycle owns nothing.
LEMMA CrashPreserves == ASSUME IInv, NEW p \in Cycle, Crash(p) PROVE IInv'
<1>1. TypeOK'
  BY DEF IInv, Crash, TypeOK
<1>2. OneOwner'
  BY DEF IInv, Crash, TypeOK, OneOwner
<1>3. ASSUME NEW q \in Cycle PROVE CycleConsistent(q)'
  BY DEF IInv, Crash, TypeOK, RowConsistent, CycleConsistent, Writable, OnChain
<1> QED BY <1>1, <1>2, <1>3, LocalStep DEF Crash

(***************************************************************************)
(* Every step keeps the invariant.                                         *)
(***************************************************************************)
\* Each action of a cycle, a crash, a receipt or the clock keeps the invariant.
LEMMA NextPreserves == IInv /\ [Next]_vars => IInv'
<1> SUFFICES ASSUME IInv, [Next]_vars PROVE IInv'
  OBVIOUS
<1>1. CASE UNCHANGED vars
  BY <1>1 DEF vars, IInv, TypeOK, OneOwner, RowConsistent, CycleConsistent, AtMostOneUnresolved,
         GateRemembered, OneAttemptPerAdmissionDay, Unresolved, OnChain, Writable
<1>2. ASSUME NEW p \in Cycle, NEW d \in Decision, Decide(p, d) PROVE IInv'
  BY <1>2, DecidePreserves
<1>3. ASSUME NEW p \in Cycle, Admit(p) PROVE IInv'
  BY <1>3, AdmitPreserves
<1>4. ASSUME NEW p \in Cycle, Skip(p) PROVE IInv'
  BY <1>4, SkipPreserves
<1>5. ASSUME NEW p \in Cycle, Rejoin(p) PROVE IInv'
  BY <1>5, RejoinPreserves
<1>6. ASSUME NEW p \in Cycle, Quote(p) PROVE IInv'
  BY <1>6, QuotePreserves
<1>7. ASSUME NEW p \in Cycle, Refuse(p) PROVE IInv'
  BY <1>7, RefusePreserves
<1>8. ASSUME NEW p \in Cycle, Simulate(p) PROVE IInv'
  BY <1>8, SimulatePreserves
<1>9. ASSUME NEW p \in Cycle, Approve(p) PROVE IInv'
  BY <1>9 DEF Approve, IInv, TypeOK, OneOwner, RowConsistent, CycleConsistent, AtMostOneUnresolved,
         GateRemembered, OneAttemptPerAdmissionDay, Unresolved, OnChain, Writable
<1>10. ASSUME NEW p \in Cycle, Sign(p) PROVE IInv'
  BY <1>10 DEF Sign, IInv, TypeOK, OneOwner, RowConsistent, CycleConsistent, AtMostOneUnresolved,
         GateRemembered, OneAttemptPerAdmissionDay, Unresolved, OnChain, Writable
<1>11. ASSUME NEW p \in Cycle, Reserve(p) PROVE IInv'
  BY <1>11, ReservePreserves
<1>12. ASSUME NEW p \in Cycle, Broadcast(p) PROVE IInv'
  BY <1>12 DEF Broadcast, IInv, TypeOK, OneOwner, RowConsistent, CycleConsistent,
     AtMostOneUnresolved,
         GateRemembered, OneAttemptPerAdmissionDay, Unresolved, OnChain, Writable
<1>13. ASSUME NEW p \in Cycle, RecordBroadcast(p) PROVE IInv'
  BY <1>13, RecordBroadcastPreserves
<1>14. ASSUME NEW p \in Cycle, AwaitReceipt(p) PROVE IInv'
  BY <1>14, AwaitReceiptPreserves
<1>15. ASSUME NEW p \in Cycle, SaveReceipt(p) PROVE IInv'
  BY <1>15, SaveReceiptPreserves
<1>16. ASSUME NEW p \in Cycle, Raise(p) PROVE IInv'
  BY <1>16, RaisePreserves
<1>17. ASSUME NEW p \in Cycle, ReadForFailure(p) PROVE IInv'
  BY <1>17, ReadForFailurePreserves
<1>18. ASSUME NEW p \in Cycle, SaveFailure(p) PROVE IInv'
  BY <1>18, SaveFailurePreserves
<1>19. ASSUME NEW p \in Cycle, Reconcile(p) PROVE IInv'
  BY <1>19, ReconcilePreserves
<1>20. ASSUME NEW p \in Cycle, SaveReconciled(p) PROVE IInv'
  BY <1>20, SaveReconciledPreserves
<1>21. ASSUME NEW p \in Cycle, Crash(p) PROVE IInv'
  BY <1>21, CrashPreserves
<1>22. ASSUME NEW d \in Decision, Mine(d) PROVE IInv'
  BY <1>22, MinePreserves
<1>23. CASE TickHour
  BY <1>23 DEF TickHour, IInv, TypeOK, OneOwner, RowConsistent, CycleConsistent,
     AtMostOneUnresolved,
         GateRemembered, OneAttemptPerAdmissionDay, Unresolved, OnChain, Writable
<1> QED BY <1>1, <1>2, <1>3, <1>4, <1>5, <1>6, <1>7, <1>8, <1>9, <1>10, <1>11, <1>12, <1>13,
   <1>14, <1>15, <1>16, <1>17, <1>18, <1>19, <1>20, <1>21, <1>22, <1>23
  DEF Next, Work

\* The strengthening holds in every reachable state, for every set of cycles,
\* decisions and slots; the safety theorems below read off it.
THEOREM InductiveInvariant == Spec => []IInv
<1>1. Init => IInv
  BY InitIInv
<1>2. IInv /\ [Next]_vars => IInv'
  BY NextPreserves
<1> QED BY <1>1, <1>2, PTL DEF Spec

\* Type correctness: a cycle past its decision always has one, and no
\* status outside the table's vocabulary is ever written.
THEOREM TypeCorrectness == Spec => []TypeOK
<1>1. IInv => TypeOK
  BY DEF IInv
<1> QED BY <1>1, InductiveInvariant, PTL

\* The in-flight gate is a lock for any number of overlapping cycles and
\* crashes: two executions are never unresolved together.
THEOREM MutualExclusion == Spec => []AtMostOneUnresolved
<1>1. IInv => AtMostOneUnresolved
  BY DEF IInv
<1> QED BY <1>1, InductiveInvariant, PTL

\* Whatever the chain may know of, the database can reconcile.
THEOREM DurableHash == Spec => []HashBeforeBroadcast
<1>1. IInv => HashBeforeBroadcast
  BY DEF IInv, RowConsistent, HashBeforeBroadcast
<1> QED BY <1>1, InductiveInvariant, PTL

\* Terminal statuses agree with the chain.
THEOREM TruthfulTerminals == Spec => []TerminalTellsTheTruth
<1>1. IInv => TerminalTellsTheTruth
  BY DEF IInv, TypeOK, RowConsistent, TerminalTellsTheTruth
<1> QED BY <1>1, InductiveInvariant, PTL

\* No BUY is ever broadcast twice.
THEOREM SingleBroadcast == Spec => []BroadcastOnce
<1>1. IInv => BroadcastOnce
  BY DEF IInv, RowConsistent, BroadcastOnce
<1> QED BY <1>1, InductiveInvariant, PTL

\* The daily cap as enforced at the gate, for every length of the day.
THEOREM DailyCap == Spec => []OneAttemptPerAdmissionDay
<1>1. IInv => OneAttemptPerAdmissionDay
  BY DEF IInv
<1> QED BY <1>1, InductiveInvariant, PTL

(***************************************************************************)
(* Admission while a swap is open.                                         *)
(***************************************************************************)
\* No other decision's swap is in the mempool when an execution is admitted.
THEOREM AdmissionIsExclusive == Spec => NoAdmissionOverOpenSwap
<1>1. ASSUME IInv, [Next]_vars, NEW d \in Decision, Admitted(d),
             NEW e \in Decision \ {d}
      PROVE  tx[e] # "mempool"
  <2>1. PICK p \in Cycle : Admit(p) /\ dec[p] = d
    <3>1. exec # exec' /\ exec[d].status = "absent" /\ exec'[d].status = "risk_checked"
      BY <1>1 DEF Admitted
    <3>2. ASSUME NEW p \in Cycle, Admit(p) PROVE dec[p] = d
      BY <1>1, <3>1, <3>2 DEF Admit, IInv, TypeOK
    <3>3. ASSUME NEW p \in Cycle,
                 Rejoin(p) \/ Sign(p) \/ Broadcast(p) \/ AwaitReceipt(p) \/ Raise(p)
                   \/ ReadForFailure(p) \/ Reconcile(p) \/ Crash(p)
          PROVE  FALSE
      BY <3>1, <3>3 DEF Rejoin, Sign, Broadcast, AwaitReceipt, Raise, ReadForFailure, Reconcile,
         Crash
    <3>4. ASSUME NEW p \in Cycle,
                 Skip(p) \/ Quote(p) \/ Refuse(p) \/ Simulate(p) \/ Approve(p) \/ Reserve(p)
                   \/ RecordBroadcast(p)
          PROVE  FALSE
      <4>1. CASE Skip(p)
        BY <1>1, <3>1, <4>1 DEF Skip, IInv, TypeOK
      <4>2. CASE Reserve(p)
        <5>0. dec[p] \in Decision /\ pc[p] = "reserve"
          BY <1>1, <4>2 DEF Reserve, IInv, TypeOK
        <5>1. exec'[d].status \in {exec[d].status, "signed"}
          BY <1>1, <4>2, <5>0 DEF Reserve, IInv, TypeOK
        <5> QED BY <3>1, <5>1
      <4>3. CASE Quote(p) \/ Refuse(p) \/ Simulate(p) \/ Approve(p) \/ RecordBroadcast(p)
        <5>1. \E s \in {"quoted", "skipped", "failed", "simulated", "allowance_ready", "broadcast"} :
                exec' = [exec EXCEPT ![dec[p]].status = s]
          BY <4>3 DEF Quote, Refuse, Simulate, Approve, RecordBroadcast
        <5> QED BY <1>1, <3>1, <5>1 DEF IInv, TypeOK
      <4> QED BY <3>4, <4>1, <4>2, <4>3
    <3>5. ASSUME NEW p \in Cycle, SaveReceipt(p) \/ SaveFailure(p) \/ SaveReconciled(p)
          PROVE  FALSE
      <4>0. pc[p] \in {"receipt", "resave", "failsave"}
        BY <3>5 DEF SaveReceipt, SaveFailure, SaveReconciled
      <4>1. dec[p] \in Decision
        BY <1>1, <4>0 DEF IInv, TypeOK
      <4>3. got[p] # "risk_checked"
        BY <1>1, <4>0, <4>1 DEF IInv, CycleConsistent, Writable
      <4>2. exec' = [exec EXCEPT ![dec[p]].status = got[p]]
        BY <3>5 DEF SaveReceipt, SaveFailure, SaveReconciled
      <4> QED BY <1>1, <3>1, <4>1, <4>2, <4>3 DEF IInv, TypeOK
    <3>6. exec' = exec \/ \E p \in Cycle : Work(p) \/ Raise(p) \/ Crash(p)
      BY <1>1 DEF Next, vars, Decide, Mine, TickHour
    <3> QED BY <3>1, <3>2, <3>3, <3>4, <3>5, <3>6 DEF Work
  <2>2. exec[e].status \notin InFlight
    BY <1>1, <2>1 DEF Admit, GatePasses, OtherInFlight
  <2> QED BY <1>1, <2>2 DEF IInv, TypeOK, RowConsistent, OnChain
<1>2. IInv /\ [Next]_vars =>
        [\A d \in Decision : Admitted(d) => \A e \in Decision \ {d} : tx[e] # "mempool"]_vars
  BY <1>1
<1> QED BY <1>2, InductiveInvariant, PTL DEF Spec, NoAdmissionOverOpenSwap

(***************************************************************************)
(* Refinement.                                                             *)
(***************************************************************************)
\* No swap exists at first, in either specification.
LEMMA LedgerInit == Init => Ledger!Init
BY DEF Init, Ledger!Init, SwapState

\* Reserving, sending and mining are the ledger's steps; no other action shows.
LEMMA LedgerStep == IInv /\ [Next]_vars => [Ledger!Next]_[d \in Decision |-> SwapState(d)]
<1> SUFFICES ASSUME IInv, [Next]_vars
             PROVE  \/ Ledger!Next
                    \/ \A d \in Decision : SwapState(d)' = SwapState(d)
  OBVIOUS
<1>1. ASSUME NEW p \in Cycle, Reserve(p) PROVE Ledger!Next
  <2> DEFINE d == dec[p]
  <2>1. d \in Decision /\ exec[d].status \in PreSign /\ ~exec[d].hash /\ tx[d] = "signed"
    BY <1>1 DEF IInv, TypeOK, RowConsistent, CycleConsistent, Reserve
  <2>2. \A e \in Decision : ~Ledger!Open(e)
    BY <2>1 DEF IInv, TypeOK, RowConsistent, AtMostOneUnresolved, Unresolved, Ledger!Open,
       SwapState, OnChain
  <2>3. exec' = [exec EXCEPT ![d] = [@ EXCEPT !.status = "signed", !.hash = TRUE]] /\ tx' = tx
    BY <1>1, <2>1 DEF Reserve, IInv, TypeOK
  <2>4. Ledger!ReserveSwap(d)
    BY <2>1, <2>2, <2>3, ZenonT(40) DEF Ledger!ReserveSwap, SwapState, IInv, TypeOK
  <2> QED BY <2>1, <2>4 DEF Ledger!Next
<1>2. ASSUME NEW p \in Cycle, Broadcast(p) PROVE Ledger!Next
  <2>1. dec[p] \in Decision /\ exec[dec[p]].hash /\ tx[dec[p]] = "signed"
    BY <1>2 DEF IInv, TypeOK, CycleConsistent, Broadcast
  <2>2. Ledger!SendSwap(dec[p])
    BY <1>2, <2>1 DEF Ledger!SendSwap, Broadcast, SwapState, IInv, TypeOK
  <2> QED BY <2>1, <2>2 DEF Ledger!Next
<1>3. ASSUME NEW d \in Decision, Mine(d) PROVE Ledger!Next
  <2>1. PICK outcome \in Settled : tx' = [tx EXCEPT ![d] = outcome]
    BY <1>3 DEF Mine
  <2>2. tx[d] = "mempool" /\ exec' = exec
    BY <1>3 DEF Mine
  <2>3. Ledger!MineSwap(d)
    BY <2>1, <2>2 DEF Ledger!MineSwap, SwapState, IInv, TypeOK
  <2> QED BY <2>3 DEF Ledger!Next
<1>4. ASSUME UNCHANGED tx, \A d \in Decision : exec'[d].hash = exec[d].hash
      PROVE  \A d \in Decision : SwapState(d)' = SwapState(d)
  BY <1>4 DEF SwapState
<1>5. ASSUME NEW p \in Cycle, Sign(p)
      PROVE  \A d \in Decision : SwapState(d)' = SwapState(d)
  BY <1>5 DEF Sign, SwapState, IInv, TypeOK, CycleConsistent
<1>6. ASSUME NEW p \in Cycle, Admit(p) \/ Skip(p)
      PROVE  UNCHANGED tx /\ \A d \in Decision : exec'[d].hash = exec[d].hash
  <2>1. dec[p] \in Decision /\ exec[dec[p]].hash = FALSE /\ UNCHANGED tx
    BY <1>6, SMTT(30) DEF Admit, Skip, IInv, TypeOK, RowConsistent
  <2>2. PICK s \in Status : exec' = [exec EXCEPT ![dec[p]] = [status |-> s, hash |-> FALSE, created |-> now]]
    BY <1>6 DEF Admit, Skip
  <2>3. \A d \in Decision \ {dec[p]} : exec'[d] = exec[d]
    BY <2>2 DEF IInv, TypeOK
  <2>4. exec'[dec[p]].hash = FALSE
    BY <2>1, <2>2 DEF IInv, TypeOK
  <2> QED BY <2>1, <2>3, <2>4
<1>7. ASSUME NEW p \in Cycle,
             Quote(p) \/ Refuse(p) \/ Simulate(p) \/ Approve(p) \/ RecordBroadcast(p)
               \/ SaveReceipt(p) \/ SaveFailure(p) \/ SaveReconciled(p)
      PROVE  UNCHANGED tx /\ \A d \in Decision : exec'[d].hash = exec[d].hash
  BY <1>7 DEF Quote, Refuse, Simulate, Approve, RecordBroadcast, SaveReceipt, SaveFailure,
     SaveReconciled, IInv, TypeOK
<1>8. ASSUME NEW p \in Cycle,
             Rejoin(p) \/ AwaitReceipt(p) \/ Raise(p) \/ ReadForFailure(p) \/ Reconcile(p) \/ Crash(p)
      PROVE  UNCHANGED <<exec, tx>>
  BY <1>8 DEF Rejoin, AwaitReceipt, Raise, ReadForFailure, Reconcile, Crash
<1>9. ASSUME NEW p \in Cycle, NEW d \in Decision, Decide(p, d) PROVE UNCHANGED <<exec, tx>>
  BY <1>9 DEF Decide
<1>10. CASE TickHour \/ UNCHANGED vars
  BY <1>4, <1>10 DEF TickHour, vars
<1> QED BY <1>1, <1>2, <1>3, <1>4, <1>5, <1>6, <1>7, <1>8, <1>9, <1>10
  DEF Next, Work

\* The lifecycle with its crashes, reruns and failure paths is the ledger.
THEOREM Refinement == Spec => ImplementsLedger
<1>1. Init => Ledger!Init
  BY LedgerInit
<1>2. IInv /\ [Next]_vars => [Ledger!Next]_[d \in Decision |-> SwapState(d)]
  BY LedgerStep
<1> QED BY <1>1, <1>2, InductiveInvariant, PTL DEF Spec, ImplementsLedger, Ledger!Spec
=============================================================================
