----------------------- MODULE WalletApprovalsProofs ------------------------
(***************************************************************************)
(* What the nonce, the read-back and the simulation guarantee about the    *)
(* allowance, for any number of commands and any cap.                      *)
(*                                                                         *)
(* The argument rests on three facts about the chain: a slot holds its own *)
(* nonce or nothing, a mined slot never changes, and the node's answer is  *)
(* no lower than any nonce without a gap below it.  The rest says where    *)
(* the transactions of one command can be: mined before its next step,     *)
(* unless it waits for the last one or gave up on it.                      *)
(***************************************************************************)
EXTENDS WalletApprovals, FiniteSetTheorems, TLAPS

Slot == 1..Len(slots)

\* Steps before the swap is signed, steps with a transaction on its way.
Early  == {"new", "check", "topup", "reset", "grant", "read", "simulate", "swap"}
Signed == {"send", "wait", "read"}

ChainSound ==
  /\ \A i \in Slot : slots[i] # NoTx => slots[i].nonce = i - 1
  /\ \A g \in barred : g.nonce < Mined /\ \A i \in 1..Mined : slots[i] # g

TxSound(c) ==
  /\ pc[c] \in Signed => tx[c] \in Tx /\ tx[c].by = c /\ tx[c].nonce <= Len(slots)
  /\ pc[c] = "read" => IsMined(c)
  /\ pc[c] \in Early => tx[c].kind # "swap"
  /\ pc[c] \in Signed /\ tx[c].kind = "reset" =>
       \A g \in older[c] : g.nonce <= tx[c].nonce

\* A transaction of c that is not mined is its last one, awaited or given up.
OwnPending(c) ==
  \A i \in Slot : i > Mined /\ slots[i].by = c => slots[i] = tx[c] /\ pc[c] \in {"wait", "failed"}

\* Since the simulation c itself mined nothing but the swap.
SwapReady(c) ==
  /\ simAt[c] <= Mined /\ checkedAt[c] <= Mined
  /\ pc[c] = "swap" =>
       /\ \A i \in Slot : slots[i].by = c => i <= simAt[c]
       /\ Foreign(c, simAt[c]) \/ allowance >= Cap
  /\ tx[c].kind = "swap" =>
       /\ \A i \in Slot : slots[i].by = c => i <= simAt[c] \/ slots[i] = tx[c]
       /\ Foreign(c, simAt[c]) \/ allowance >= Cap \/ \E i \in 1..Mined : slots[i] = tx[c]

NoApproval(c)  == \A i \in Slot : ~(slots[i].by = c /\ slots[i].kind # "swap")
OneApproval(c) ==
  \A i, j \in Slot :
    slots[i].by = c /\ slots[i].kind # "swap" /\ slots[j].by = c /\ slots[j].kind # "swap" => i = j

\* At most one reset and one grant; no grant yet.
OneOfEach(c) ==
  \A i, j \in Slot :
    /\ slots[i].by = c /\ slots[i].kind # "swap"
    /\ slots[j].by = c /\ slots[j].kind = slots[i].kind
    => i = j
NoGrant(c) == \A i \in Slot : ~(slots[i].by = c /\ slots[i].kind = "grant")

\* What a cycle sent, by where it is.
Spent(c) ==
  /\ pc[c] \in {"new", "check", "topup"} => \A i \in Slot : slots[i].by # c
  /\ OneOfEach(c)
  /\ pc[c] = "reset" \/ (pc[c] = "send" /\ tx[c].kind = "reset") => NoApproval(c)
  /\ \/ pc[c] \in {"reset", "grant"}
     \/ pc[c] \in Signed /\ tx[c].kind = "reset"
     \/ pc[c] = "send" /\ tx[c].kind = "grant"
     => NoGrant(c)

\* What it may send, by what it found approved.
Budget(c) ==
  /\ pc[c] = "topup" => Foreign(c, checkedAt[c]) \/ allowance = snap[c]
  /\ \/ overtaken[c]
     \/ snap[c] \in 1..Cap - 1
     \/ pc[c] \in {"new", "check", "topup"}
     \/ /\ snap[c] >= Cap
        /\ NoApproval(c)
        /\ pc[c] \notin {"reset", "grant"}
        /\ pc[c] \in Signed => tx[c].kind = "swap"
     \/ /\ snap[c] = 0
        /\ OneApproval(c)
        /\ pc[c] # "reset"
        /\ pc[c] \in Signed => tx[c].kind # "reset"
        /\ pc[c] = "grant" \/ (pc[c] = "send" /\ tx[c].kind = "grant") => NoApproval(c)

CommandSound(c) ==
  TxSound(c) /\ OwnPending(c) /\ SwapReady(c) /\ (kind[c] = "cycle" => Spent(c) /\ Budget(c))

IInv ==
  /\ TypeOK
  /\ ChainSound
  /\ \A c \in Command : CommandSound(c)

LEMMA InitIInv == Init => IInv
<1> SUFFICES ASSUME Init PROVE IInv
  OBVIOUS
<1>1. slots = <<>> /\ receipts = <<>> /\ Len(slots) = 0 /\ Len(receipts) = 0
  BY DEF Init
<1>2. TypeOK
  BY <1>1, MixAssumption, AllowanceAssumption DEF Init, TypeOK, Mined
<1>3. ChainSound
  BY <1>1 DEF Init, ChainSound, Slot, Mined
<1>4. ASSUME NEW c \in Command PROVE CommandSound(c)
  <2>1. TxSound(c) /\ OwnPending(c)
    BY <1>1 DEF Init, TxSound, OwnPending, Slot, Mined, Signed, NoTx
  <2>2. SwapReady(c)
    BY <1>1 DEF Init, SwapReady, Mined, NoTx
  <2>3. Spent(c) /\ Budget(c)
    BY <1>1 DEF Init, Spent, OneOfEach, NoGrant, Budget, OneApproval, NoApproval, Slot, Signed
  <2> QED BY <2>1, <2>2, <2>3 DEF CommandSound
<1> QED BY <1>2, <1>3, <1>4 DEF IInv

\* Lengths are naturals, the mined slots are slots, and a gap is nobody's.
LEMMA Lengths ==
  ASSUME TypeOK
  PROVE  /\ Len(slots) \in Nat /\ Mined \in Nat /\ Mined <= Len(slots)
         /\ \A i \in Slot : slots[i] \in Tx \union {NoTx}
         /\ \A i \in Slot : slots[i].by \in Command => slots[i] \in Tx
         /\ \A i \in 1..Mined : i \in Slot
BY NobodyAssumption DEF TypeOK, Mined, Slot, NoTx

\* The node's answer is one of the nonces, above every one without a gap before it.
LEMMA PendingBounds ==
  ASSUME TypeOK
  PROVE  /\ Pending \in Nat /\ Pending <= Len(slots)
         /\ \A n \in Slot : Gapless(n) => n <= Pending
<1> DEFINE Below == {n \in 1..Len(slots) : Gapless(n)}
<1>1. Len(slots) \in Nat
  BY Lengths
<1>2. IsFiniteSet(1..Len(slots)) /\ Cardinality(1..Len(slots)) = Len(slots)
  BY <1>1, FS_Interval
<1>3. IsFiniteSet(Below) /\ Cardinality(Below) <= Len(slots)
  BY <1>2, FS_Subset
<1>4. Pending \in Nat /\ Pending <= Len(slots)
  BY <1>3, FS_CardinalityType DEF Pending
<1>5. ASSUME NEW n \in Slot, Gapless(n) PROVE n <= Pending
  <2>1. n \in Nat /\ 1..n \subseteq Below
    BY <1>1, <1>5 DEF Slot, Gapless
  <2>2. Cardinality(1..n) = n
    BY <2>1, FS_Interval
  <2>3. Cardinality(1..n) <= Cardinality(Below)
    BY <1>3, <2>1, FS_Subset
  <2> QED BY <2>2, <2>3 DEF Pending
<1> QED BY <1>4, <1>5

\* What is known of a command that does not move stays known while the chain stands still.
LEMMA StillCommand ==
  ASSUME NEW d \in Command, CommandSound(d), UNCHANGED <<slots, receipts, allowance, kind>>,
         pc'[d] = pc[d], tx'[d] = tx[d], snap'[d] = snap[d], simAt'[d] = simAt[d],
         checkedAt'[d] = checkedAt[d], older'[d] = older[d], overtaken'[d] = overtaken[d]
  PROVE  CommandSound(d)'
<1>1. TxSound(d)' /\ OwnPending(d)'
  BY DEF CommandSound, TxSound, OwnPending, Signed, Early, IsMined, Mined, Slot
<1>2. SwapReady(d)'
  BY DEF CommandSound, SwapReady, Foreign, Mined, Slot
<1>3. (kind[d] = "cycle" => Spent(d) /\ Budget(d))'
  BY DEF CommandSound, Spent, OneOfEach, NoGrant, Budget, Foreign, Mined, Slot, Signed, NoApproval, OneApproval
<1> QED BY <1>1, <1>2, <1>3 DEF CommandSound

\* A step of one command that leaves the chain alone.
LEMMA LocalStep ==
  ASSUME IInv, NEW c \in Command, UNCHANGED <<slots, receipts, allowance, kind, barred>>, TypeOK',
         \A d \in Command \ {c} :
           /\ pc'[d] = pc[d] /\ tx'[d] = tx[d] /\ snap'[d] = snap[d]
           /\ simAt'[d] = simAt[d] /\ checkedAt'[d] = checkedAt[d] /\ older'[d] = older[d]
        /\ overtaken'[d] = overtaken[d],
         CommandSound(c)'
  PROVE  IInv'
<1>1. ChainSound'
  BY DEF IInv, ChainSound, Slot, Mined
<1>2. ASSUME NEW d \in Command \ {c} PROVE CommandSound(d)'
  BY StillCommand DEF IInv
<1> QED BY <1>1, <1>2 DEF IInv

\* What was sent, and what may be, only change with the slots or the next step.
LEMMA SameSlots ==
  ASSUME NEW c \in Command, UNCHANGED <<slots, receipts>>
  PROVE  /\ NoApproval(c)' <=> NoApproval(c)
         /\ OneApproval(c)' <=> OneApproval(c)
         /\ NoGrant(c)' <=> NoGrant(c)
         /\ OneOfEach(c)' <=> OneOfEach(c)
         /\ (\A i \in Slot : slots[i].by # c)' <=> (\A i \in Slot : slots[i].by # c)
         /\ \A k \in Nat : Foreign(c, k)' <=> Foreign(c, k)
BY DEF NoApproval, OneApproval, NoGrant, OneOfEach, Slot, Foreign, Mined

LEMMA StartPreserves == ASSUME IInv, NEW c \in Command, Start(c) PROVE IInv'
<1>1. TypeOK'
  BY Lengths DEF Start, Goto, IInv, TypeOK, Running, Ended, chainVars, history, Mined
<1>2. TxSound(c)' /\ OwnPending(c)'
  BY Lengths DEF Start, Goto, IInv, TypeOK, CommandSound, TxSound, OwnPending, IsMined, Mined, Slot,
     Signed, Early, Running, chainVars, history
<1>3. SwapReady(c)'
  BY Lengths DEF Start, Goto, IInv, TypeOK, CommandSound, TxSound, OwnPending, SwapReady, Foreign,
     Mined,
     Slot, Early, Running, chainVars, history
<1>4. (kind[c] = "cycle" => Spent(c) /\ Budget(c))'
  BY Lengths, CapAssumption DEF Start, Goto, IInv, TypeOK, CommandSound, TxSound, Spent, OneOfEach, NoGrant, Budget, Foreign,
     Mined,
     Slot, Signed, Running, NoApproval, OneApproval, chainVars, history
<1>5. UNCHANGED <<slots, receipts, allowance, kind, barred>>
  BY DEF Start, chainVars, history
<1>6. \A d \in Command \ {c} :
        /\ pc'[d] = pc[d] /\ tx'[d] = tx[d] /\ snap'[d] = snap[d]
        /\ simAt'[d] = simAt[d] /\ checkedAt'[d] = checkedAt[d] /\ older'[d] = older[d]
        /\ overtaken'[d] = overtaken[d]
  BY DEF Start, Goto, IInv, TypeOK, chainVars, history
<1> QED BY <1>1, <1>2, <1>3, <1>4, <1>5, <1>6, LocalStep DEF CommandSound

LEMMA CheckContractsPreserves == ASSUME IInv, NEW c \in Command, CheckContracts(c) PROVE IInv'
<1>1. TypeOK'
  <2>1. pc' \in [Command -> {"new"} \union Running \union Ended]
    BY DEF CheckContracts, Goto, IInv, TypeOK, Running, Ended
  <2>2. /\ snap' \in [Command -> 0..MaxAllowance]
        /\ checkedAt' \in [Command -> Nat]
    BY Lengths DEF CheckContracts, IInv, TypeOK
  <2>3. UNCHANGED <<kind, tx, slots, receipts, allowance, overtaken, simAt, older, barred>>
    BY DEF CheckContracts, chainVars
  <2> QED BY <2>1, <2>2, <2>3 DEF IInv, TypeOK, Mined
<1>2. TxSound(c)' /\ OwnPending(c)'
  <2>1. pc[c] = "check" /\ UNCHANGED <<tx, slots, receipts, older>>
    BY DEF CheckContracts, chainVars
  <2>2. pc'[c] \in {"topup", "reset", "grant", "already-approved", "already-revoked"}
    BY DEF CheckContracts, Goto, IInv, TypeOK
  <2> QED BY <2>1, <2>2 DEF IInv, CommandSound, TxSound, OwnPending, Mined, Slot, Signed, Early
<1>3. SwapReady(c)'
  BY Lengths DEF CheckContracts, Goto, IInv, TypeOK, CommandSound, TxSound, OwnPending, SwapReady,
     Foreign, Mined,
     Slot, Early, Running, chainVars, history
<1>4. (kind[c] = "cycle" => Spent(c) /\ Budget(c))'
  <2> SUFFICES ASSUME kind[c] = "cycle" PROVE Spent(c)' /\ Budget(c)'
    BY DEF CheckContracts
  <2>1. /\ pc[c] = "check" /\ pc'[c] = "topup"
        /\ snap'[c] = allowance /\ checkedAt'[c] = Mined
        /\ UNCHANGED <<tx, slots, receipts, allowance>>
    BY DEF CheckContracts, Goto, IInv, TypeOK, chainVars
  <2>2. Spent(c) /\ \A i \in Slot : slots[i].by # c
    BY <2>1 DEF IInv, CommandSound, Spent
  <2> QED BY <2>1, <2>2 DEF Spent, Budget, Signed, OneOfEach, Slot
<1>5. UNCHANGED <<slots, receipts, allowance, kind, barred>>
  BY DEF CheckContracts, chainVars, history
<1>6. \A d \in Command \ {c} :
        /\ pc'[d] = pc[d] /\ tx'[d] = tx[d] /\ snap'[d] = snap[d]
        /\ simAt'[d] = simAt[d] /\ checkedAt'[d] = checkedAt[d] /\ older'[d] = older[d]
        /\ overtaken'[d] = overtaken[d]
  BY DEF CheckContracts, Goto, IInv, TypeOK, chainVars, history
<1> QED BY <1>1, <1>2, <1>3, <1>4, <1>5, <1>6, LocalStep DEF CommandSound

LEMMA TopUpPreserves == ASSUME IInv, NEW c \in Command, TopUp(c) PROVE IInv'
<1>1. TypeOK'
  <2>1. overtaken' \in [Command -> BOOLEAN]
    <3>1. Foreign(c, checkedAt[c]) \in BOOLEAN
      BY Zenon DEF Foreign
    <3>2. overtaken' = [overtaken EXCEPT ![c] = Foreign(c, checkedAt[c])] /\ overtaken \in [Command -> BOOLEAN]
      BY DEF TopUp, IInv, TypeOK
    <3> QED BY ONLY <3>1, <3>2, Zenon
  <2>2. pc' \in [Command -> {"new"} \union Running \union Ended] /\ checkedAt' \in [Command -> Nat]
    BY DEF TopUp, Goto, IInv, TypeOK, Running
  <2> QED BY <2>1, <2>2 DEF TopUp, IInv, TypeOK, chainVars, Mined
<1>2. TxSound(c)' /\ OwnPending(c)'
  BY Lengths DEF TopUp, Goto, IInv, TypeOK, CommandSound, TxSound, OwnPending, IsMined, Mined, Slot,
     Signed, Early, Running, chainVars, history
<1>3. SwapReady(c)'
  BY Lengths DEF TopUp, Goto, IInv, TypeOK, CommandSound, TxSound, OwnPending, SwapReady, Foreign,
     Mined,
     Slot, Early, Running, chainVars, history
<1>4. (kind[c] = "cycle" => Spent(c) /\ Budget(c))'
  <2> SUFFICES ASSUME kind[c] = "cycle" PROVE Spent(c)' /\ Budget(c)'
    BY DEF TopUp
  <2>1. /\ pc[c] = "topup" /\ UNCHANGED <<snap, tx, slots, receipts>>
        /\ pc'[c] = CASE allowance >= Cap -> "simulate" [] allowance = 0 -> "grant" [] OTHER -> "reset"
    BY DEF TopUp, Goto, IInv, TypeOK, chainVars
  <2>2. Spent(c) /\ \A i \in Slot : slots[i].by # c
    BY <2>1 DEF IInv, CommandSound, Spent
  <2>3. allowance \in Nat /\ (Foreign(c, checkedAt[c]) \/ allowance = snap[c])
    BY <2>1, AllowanceAssumption DEF IInv, CommandSound, Budget, TypeOK
  <2>4. NoApproval(c) /\ OneApproval(c) /\ NoGrant(c)
    BY <2>2 DEF NoApproval, OneApproval, NoGrant
  <2>5. pc'[c] \in {"simulate", "grant", "reset"}
    BY <2>1
  <2>6. Spent(c)'
    BY <2>1, <2>2, <2>4, <2>5, SameSlots DEF Spent, Signed
  <2>7. overtaken'[c] \/ allowance = snap[c]
    BY <2>3 DEF TopUp, IInv, TypeOK
  <2>8. Budget(c)'
    BY <2>1, <2>3, <2>4, <2>5, <2>7, SameSlots, CapAssumption DEF Budget, Signed
  <2> QED BY <2>6, <2>8
<1>5. UNCHANGED <<slots, receipts, allowance, kind, barred>>
  BY DEF TopUp, chainVars, history
<1>6. \A d \in Command \ {c} :
        /\ pc'[d] = pc[d] /\ tx'[d] = tx[d] /\ snap'[d] = snap[d]
        /\ simAt'[d] = simAt[d] /\ checkedAt'[d] = checkedAt[d] /\ older'[d] = older[d]
        /\ overtaken'[d] = overtaken[d]
  BY DEF TopUp, Goto, IInv, TypeOK, chainVars, history
<1> QED BY <1>1, <1>2, <1>3, <1>4, <1>5, <1>6, LocalStep DEF CommandSound

LEMMA RaisePreserves == ASSUME IInv, NEW c \in Command, Raise(c) PROVE IInv'
<1>1. TypeOK'
  BY Lengths DEF Raise, Goto, IInv, TypeOK, Running, Ended, chainVars, history, Mined
<1>2. TxSound(c)' /\ OwnPending(c)'
  BY Lengths DEF Raise, Goto, IInv, TypeOK, CommandSound, TxSound, OwnPending, IsMined, Mined, Slot,
     Signed, Early, Running, chainVars, history
<1>3. SwapReady(c)'
  <2>1. UNCHANGED <<tx, slots, receipts, allowance, simAt, checkedAt, overtaken>> /\ pc'[c] = "failed"
    BY DEF Raise, Goto, IInv, TypeOK, chainVars, history
  <2> QED BY <2>1 DEF IInv, CommandSound, SwapReady, Foreign, Mined, Slot
<1>4. (kind[c] = "cycle" => Spent(c) /\ Budget(c))'
  BY Lengths, CapAssumption DEF Raise, Goto, IInv, TypeOK, CommandSound, TxSound, Spent, OneOfEach, NoGrant, Budget, Foreign,
     Mined,
     Slot, Signed, Running, NoApproval, OneApproval, chainVars, history
<1>5. UNCHANGED <<slots, receipts, allowance, kind, barred>>
  BY DEF Raise, chainVars, history
<1>6. \A d \in Command \ {c} :
        /\ pc'[d] = pc[d] /\ tx'[d] = tx[d] /\ snap'[d] = snap[d]
        /\ simAt'[d] = simAt[d] /\ checkedAt'[d] = checkedAt[d] /\ older'[d] = older[d]
        /\ overtaken'[d] = overtaken[d]
  BY DEF Raise, Goto, IInv, TypeOK, chainVars, history
<1> QED BY <1>1, <1>2, <1>3, <1>4, <1>5, <1>6, LocalStep DEF CommandSound

LEMMA WaitForReceiptPreserves == ASSUME IInv, NEW c \in Command, WaitForReceipt(c) PROVE IInv'
<1>1. TypeOK'
  BY Lengths DEF WaitForReceipt, Goto, IInv, TypeOK, Running, Ended, chainVars, history, Mined
<1>2. TxSound(c)' /\ OwnPending(c)'
  <2>1. PICK label \in {"failed", "swapped", "read"} :
          /\ Goto(c, label)
          /\ label # "failed" => IsMined(c)
          /\ label = "read" => tx[c].kind # "swap"
    BY DEF WaitForReceipt
  <2>2. UNCHANGED <<tx, slots, receipts, older>> /\ pc[c] = "wait"
    BY DEF WaitForReceipt, chainVars, history
  <2>3. pc'[c] = label
    BY <2>1 DEF Goto, IInv, TypeOK
  <2>4. TxSound(c)'
    BY <2>1, <2>2, <2>3 DEF IInv, CommandSound, TxSound, IsMined, Mined, Signed, Early
  <2>5. OwnPending(c)'
    <3>1. CASE label = "failed"
      BY <2>2, <2>3, <3>1 DEF IInv, CommandSound, OwnPending, Mined, Slot
    <3>2. CASE label # "failed"
      <4>1. tx[c] \in Tx /\ tx[c].nonce < Mined
        BY <2>1, <2>2, <3>2 DEF IsMined, IInv, CommandSound, TxSound, Signed
      <4>2. ASSUME NEW i \in Slot, i > Mined, slots[i].by = c PROVE FALSE
        <5>1. slots[i] = tx[c] /\ slots[i] # NoTx
          BY <4>2, NobodyAssumption DEF IInv, CommandSound, OwnPending, NoTx
        <5>2. slots[i].nonce = i - 1
          BY <5>1 DEF IInv, ChainSound
        <5> QED BY <4>1, <4>2, <5>1, <5>2, Lengths DEF IInv, Slot
      <4> QED BY <2>2, <4>2 DEF OwnPending, Mined, Slot
    <3> QED BY <3>1, <3>2
  <2> QED BY <2>4, <2>5
<1>3. SwapReady(c)'
  <2>1. UNCHANGED <<tx, slots, receipts, allowance, simAt, checkedAt>> /\ pc'[c] # "swap"
    BY DEF WaitForReceipt, Goto, IInv, TypeOK, chainVars, history
  <2> QED BY <2>1 DEF IInv, CommandSound, SwapReady, Foreign, Mined, Slot
<1>4. (kind[c] = "cycle" => Spent(c) /\ Budget(c))'
  <2> SUFFICES ASSUME kind[c] = "cycle" PROVE Spent(c)' /\ Budget(c)'
    BY DEF WaitForReceipt
  <2>1. /\ pc[c] = "wait" /\ UNCHANGED <<snap, tx, slots, receipts, checkedAt, overtaken>>
        /\ pc'[c] \in {"failed", "swapped", "read"}
    BY DEF WaitForReceipt, Goto, IInv, TypeOK, chainVars, history
  <2>2. Spent(c) /\ Budget(c)
    BY DEF IInv, CommandSound
  <2>3. Spent(c)'
    BY <2>1, <2>2, SameSlots DEF Spent, Signed
  <2>4. Budget(c)'
    BY <2>1, <2>2, SameSlots DEF Budget, Signed
  <2> QED BY <2>3, <2>4
<1>5. UNCHANGED <<slots, receipts, allowance, kind, barred>>
  BY DEF WaitForReceipt, chainVars, history
<1>6. \A d \in Command \ {c} :
        /\ pc'[d] = pc[d] /\ tx'[d] = tx[d] /\ snap'[d] = snap[d]
        /\ simAt'[d] = simAt[d] /\ checkedAt'[d] = checkedAt[d] /\ older'[d] = older[d]
        /\ overtaken'[d] = overtaken[d]
  BY DEF WaitForReceipt, Goto, IInv, TypeOK, chainVars, history
<1> QED BY <1>1, <1>2, <1>3, <1>4, <1>5, <1>6, LocalStep DEF CommandSound

LEMMA SimulateSwapPreserves == ASSUME IInv, NEW c \in Command, SimulateSwap(c) PROVE IInv'
<1>1. TypeOK'
  BY Lengths DEF SimulateSwap, Goto, IInv, TypeOK, Running, Ended, chainVars, history, Mined
<1>2. TxSound(c)' /\ OwnPending(c)'
  BY Lengths DEF SimulateSwap, Goto, IInv, TypeOK, CommandSound, TxSound, OwnPending, IsMined,
     Mined, Slot,
     Signed, Early, Running, chainVars, history
<1>3. SwapReady(c)'
  <2>1. /\ pc[c] = "simulate" /\ tx[c].kind # "swap" /\ UNCHANGED <<tx, slots, receipts, allowance, checkedAt>>
        /\ simAt'[c] = Mined /\ (pc'[c] = "swap" => allowance >= Cap)
    BY DEF SimulateSwap, Goto, chainVars, history, IInv, TypeOK, CommandSound, TxSound, Early
  <2>2. \A i \in Slot : slots[i].by = c => i <= Mined
    BY <2>1, Lengths DEF IInv, CommandSound, OwnPending, Slot
  <2> QED BY <2>1, <2>2, Lengths DEF IInv, CommandSound, SwapReady, Foreign, Mined, Slot
<1>4. (kind[c] = "cycle" => Spent(c) /\ Budget(c))'
  <2> SUFFICES ASSUME kind[c] = "cycle" PROVE Spent(c)' /\ Budget(c)'
    BY DEF SimulateSwap
  <2>1. /\ pc[c] = "simulate" /\ UNCHANGED <<snap, tx, slots, receipts, checkedAt, overtaken>>
        /\ pc'[c] \in {"failed", "swap"}
    BY DEF SimulateSwap, Goto, IInv, TypeOK, chainVars
  <2>2. Spent(c) /\ Budget(c)
    BY DEF IInv, CommandSound
  <2>3. Spent(c)'
    BY <2>1, <2>2, SameSlots DEF Spent, Signed
  <2>4. Budget(c)'
    BY <2>1, <2>2, SameSlots DEF Budget, Signed
  <2> QED BY <2>3, <2>4
<1>5. UNCHANGED <<slots, receipts, allowance, kind, barred>>
  BY DEF SimulateSwap, chainVars, history
<1>6. \A d \in Command \ {c} :
        /\ pc'[d] = pc[d] /\ tx'[d] = tx[d] /\ snap'[d] = snap[d]
        /\ simAt'[d] = simAt[d] /\ checkedAt'[d] = checkedAt[d] /\ older'[d] = older[d]
        /\ overtaken'[d] = overtaken[d]
  BY DEF SimulateSwap, Goto, IInv, TypeOK, chainVars, history
<1> QED BY <1>1, <1>2, <1>3, <1>4, <1>5, <1>6, LocalStep DEF CommandSound

LEMMA OutstandingIsOlder ==
  ASSUME IInv, NEW g \in Outstanding PROVE g \in Tx /\ g.nonce <= Pending
<1>1. CASE \E d \in Command : g = tx[d] /\ InHand(d)
  <2>1. PICK d \in Command : g = tx[d] /\ pc[d] = "send" /\ Gapless(tx[d].nonce)
    BY <1>1 DEF InHand
  <2>2. g \in Tx /\ g.nonce \in Nat /\ g.nonce <= Len(slots) /\ Gapless(g.nonce)
    BY <2>1 DEF IInv, CommandSound, TxSound, Signed, Tx
  <2>3. g.nonce = 0 \/ g.nonce \in Slot
    BY <2>2, Lengths DEF IInv, Slot
  <2> QED BY <2>2, <2>3, PendingBounds DEF IInv
<1>2. CASE \E i \in Mined + 1..Len(slots) : g = slots[i] /\ slots[i].kind = "grant" /\ Gapless(i)
  <2>1. PICK i \in Mined + 1..Len(slots) : g = slots[i] /\ slots[i].kind = "grant" /\ Gapless(i)
    BY <1>2
  <2>2. i \in Slot /\ i \in Nat /\ g \in Tx /\ g # NoTx
    BY <2>1, Lengths DEF IInv, Slot, NoTx
  <2>3. g.nonce = i - 1
    BY <2>1, <2>2 DEF IInv, ChainSound
  <2> QED BY <2>1, <2>2, <2>3, PendingBounds DEF IInv
<1> QED BY <1>1, <1>2 DEF Outstanding

LEMMA SignApprovalPreserves == ASSUME IInv, NEW c \in Command, SignApproval(c) PROVE IInv'
<1> DEFINE signed == [by |-> c, kind |-> pc[c], nonce |-> Pending]
<1>1. /\ pc[c] \in {"reset", "grant"} /\ pc' = [pc EXCEPT ![c] = "send"] /\ tx' = [tx EXCEPT ![c] = signed]
      /\ UNCHANGED <<snap, checkedAt, overtaken, simAt>>
  BY DEF SignApproval, Goto, PendingCount
<1>2. PICK found \in SUBSET Tx :
        /\ older' = [older EXCEPT ![c] = found]
        /\ \A g \in found : g.nonce <= Pending
  <2> DEFINE barrable == IF kind[c] = "revoke" THEN Outstanding ELSE {}
  <2>1. older' = [older EXCEPT ![c] = barrable]
    BY DEF SignApproval
  <2>2. \A g \in barrable : g \in Tx /\ g.nonce <= Pending
    BY OutstandingIsOlder
  <2> HIDE DEF barrable
  <2> QED BY <2>1, <2>2
<1>5. UNCHANGED <<slots, receipts, allowance, kind, barred>>
  BY DEF SignApproval, chainVars, history
<1>6. \A d \in Command \ {c} :
        /\ pc'[d] = pc[d] /\ tx'[d] = tx[d] /\ snap'[d] = snap[d]
        /\ simAt'[d] = simAt[d] /\ checkedAt'[d] = checkedAt[d] /\ older'[d] = older[d]
        /\ overtaken'[d] = overtaken[d]
  BY DEF SignApproval, Goto, IInv, TypeOK, chainVars, history
<1>7. signed \in Tx /\ pc \in [Command -> {"new"} \union Running \union Ended]
  BY <1>1, PendingBounds DEF Tx, IInv, TypeOK
<1>8. TypeOK'
  BY <1>1, <1>2, <1>5, <1>7 DEF IInv, TypeOK, Running, Mined
<1>9. tx'[c] = signed /\ pc'[c] = "send" /\ older'[c] = found
  BY <1>1, <1>2, <1>7 DEF IInv, TypeOK
<1>10. TxSound(c)' /\ OwnPending(c)'
  BY <1>1, <1>2, <1>5, <1>7, <1>9, PendingBounds DEF IInv, CommandSound, TxSound, OwnPending, Mined,
     Slot, Signed, Early
<1>11. SwapReady(c)'
  BY <1>1, <1>5, <1>9 DEF IInv, CommandSound, SwapReady, Mined
<1>12. (kind[c] = "cycle" => Spent(c) /\ Budget(c))'
  BY <1>1, <1>5, <1>9 DEF IInv, CommandSound, Spent, OneOfEach, NoGrant, Budget, Foreign, Mined, Slot, Signed, NoApproval,
     OneApproval
<1> QED BY <1>5, <1>6, <1>8, <1>10, <1>11, <1>12, LocalStep DEF CommandSound

LEMMA SignSwapPreserves == ASSUME IInv, NEW c \in Command, SignSwap(c) PROVE IInv'
<1> DEFINE signed == [by |-> c, kind |-> "swap", nonce |-> Pending]
<1>1. /\ pc[c] = "swap" /\ pc' = [pc EXCEPT ![c] = "send"] /\ tx' = [tx EXCEPT ![c] = signed]
      /\ UNCHANGED <<snap, checkedAt, overtaken, simAt, older>>
  BY DEF SignSwap, Goto, PendingCount, history
<1>5. UNCHANGED <<slots, receipts, allowance, kind, barred>>
  BY DEF SignSwap, chainVars, history
<1>6. \A d \in Command \ {c} :
        /\ pc'[d] = pc[d] /\ tx'[d] = tx[d] /\ snap'[d] = snap[d]
        /\ simAt'[d] = simAt[d] /\ checkedAt'[d] = checkedAt[d] /\ older'[d] = older[d]
        /\ overtaken'[d] = overtaken[d]
  BY DEF SignSwap, Goto, IInv, TypeOK, chainVars, history
<1>7. signed \in Tx /\ pc \in [Command -> {"new"} \union Running \union Ended]
  BY PendingBounds DEF Tx, IInv, TypeOK
<1>8. TypeOK'
  BY <1>1, <1>5, <1>7 DEF IInv, TypeOK, Running, Mined
<1>9. tx'[c] = signed /\ pc'[c] = "send"
  BY <1>1, <1>7 DEF IInv, TypeOK
<1>10. TxSound(c)' /\ OwnPending(c)'
  BY <1>1, <1>5, <1>7, <1>9, PendingBounds DEF IInv, CommandSound, TxSound, OwnPending, Mined, Slot,
     Signed, Early
<1>11. SwapReady(c)'
  BY <1>1, <1>5, <1>9 DEF IInv, CommandSound, SwapReady, Foreign, Mined, Slot
<1>12. (kind[c] = "cycle" => Spent(c) /\ Budget(c))'
  BY <1>1, <1>5, <1>9 DEF IInv, CommandSound, Spent, OneOfEach, NoGrant, Budget, Foreign, Mined, Slot, Signed, NoApproval,
     OneApproval
<1> QED BY <1>5, <1>6, <1>8, <1>10, <1>11, <1>12, LocalStep DEF CommandSound

\* A revocation is reported when its own transaction is mined: what it found
\* outstanding has a nonce no larger, so it is mined already or never.
LEMMA ReadBackPreserves == ASSUME IInv, NEW c \in Command, ReadBack(c) PROVE IInv'
<1>1. PICK label \in {"failed", "revoked", "grant", "approved", "simulate"} :
        /\ Goto(c, label)
        /\ label = "grant" => tx[c].kind = "reset"
  BY Zenon DEF ReadBack
<1>2. /\ pc[c] = "read" /\ UNCHANGED <<kind, snap, tx, slots, receipts, allowance, checkedAt, overtaken, simAt, older>>
  BY DEF ReadBack, chainVars
<1>3. barred' = barred \/ /\ tx[c].kind = "reset"
                          /\ barred' = barred \union {g \in older[c] : \A i \in 1..Mined : slots[i] # g}
  BY DEF ReadBack
<1>4. pc'[c] = label /\ \A d \in Command \ {c} : pc'[d] = pc[d]
  BY <1>1 DEF Goto, IInv, TypeOK
<1>5. tx[c] \in Tx /\ tx[c].nonce < Mined
  BY <1>2 DEF IInv, CommandSound, TxSound, IsMined, Signed
<1>6. TypeOK'
  <2>1. pc' \in [Command -> {"new"} \union Running \union Ended]
    BY <1>1 DEF Goto, IInv, TypeOK, Running, Ended
  <2>2. barred' \in SUBSET Tx
    BY <1>3 DEF IInv, TypeOK
  <2> QED BY <1>2, <2>1, <2>2 DEF IInv, TypeOK, Mined
<1>7. ChainSound'
  <2>1. ASSUME NEW g \in older[c], tx[c].kind = "reset" PROVE g.nonce < Mined
    <3>1. g \in Tx /\ g.nonce <= tx[c].nonce
      BY <1>2, <2>1 DEF IInv, TypeOK, CommandSound, TxSound, Signed
    <3> QED BY <1>5, <3>1, Lengths DEF Tx, IInv
  <2> QED BY <1>2, <1>3, <2>1 DEF IInv, ChainSound, Mined, Slot
<1>8. TxSound(c)'
  BY <1>2, <1>4 DEF IInv, CommandSound, TxSound, Signed, Early
<1>9. OwnPending(c)'
  BY <1>2, <1>4 DEF IInv, CommandSound, OwnPending, Mined, Slot
<1>10. SwapReady(c)'
  BY <1>2, <1>4 DEF IInv, CommandSound, SwapReady, Foreign, Mined, Slot
<1>11. (kind[c] = "cycle" => Spent(c) /\ Budget(c))'
  <2> SUFFICES ASSUME kind[c] = "cycle" PROVE Spent(c)' /\ Budget(c)'
    BY <1>2
  <2>1. Spent(c) /\ Budget(c) /\ tx[c].kind # "swap"
    BY <1>2 DEF IInv, CommandSound, TxSound, Early
  <2>2. Spent(c)'
    BY <1>1, <1>2, <1>4, <2>1, SameSlots DEF Spent, Signed
  <2>3. Budget(c)'
    BY <1>1, <1>2, <1>4, <2>1, SameSlots, CapAssumption DEF Budget, Signed
  <2> QED BY <2>2, <2>3
<1>12. ASSUME NEW d \in Command \ {c} PROVE CommandSound(d)'
  BY <1>2, <1>4, StillCommand DEF IInv
<1> QED BY <1>6, <1>7, <1>8, <1>9, <1>10, <1>11, <1>12 DEF IInv, CommandSound

\* Of a command that gains no transaction nothing has to be said anew.
LEMMA NothingNew ==
  ASSUME NEW d \in Command, \A i \in Slot' : slots'[i].by = d => i \in Slot /\ slots'[i] = slots[i]
  PROVE  /\ NoApproval(d) => NoApproval(d)'
         /\ OneApproval(d) => OneApproval(d)'
         /\ NoGrant(d) => NoGrant(d)'
         /\ OneOfEach(d) => OneOfEach(d)'
         /\ (\A i \in Slot : slots[i].by # d) => (\A i \in Slot : slots[i].by # d)'
<1>1. (NoApproval(d) => NoApproval(d)') /\ (NoGrant(d) => NoGrant(d)')
  BY DEF NoApproval, NoGrant
<1>2. (OneApproval(d) => OneApproval(d)') /\ (OneOfEach(d) => OneOfEach(d)')
  BY DEF OneApproval, OneOfEach
<1> QED BY <1>1, <1>2

\* The node files a transaction at the end, or in place of another or of none.
LEMMA FiledSlots ==
  ASSUME IInv, NEW c \in Command, pc[c] = "send", Filed(c)
  PROVE  /\ slots' \in Seq(Tx \union {NoTx}) /\ Len(slots') >= Len(slots)
         /\ tx[c].nonce >= Mined /\ tx[c].nonce < Len(slots')
         /\ slots'[tx[c].nonce + 1] = tx[c]
         /\ \A i \in 1..Len(slots') : i # tx[c].nonce + 1 => i \in Slot /\ slots'[i] = slots[i]
<1>1. tx[c] \in Tx /\ tx[c].nonce \in Nat /\ tx[c].nonce <= Len(slots)
      /\ slots \in Seq(Tx \union {NoTx})
  BY DEF IInv, TypeOK, CommandSound, TxSound, Signed, Tx
<1>2. CASE tx[c].nonce + 1 = Len(slots) + 1
  <2>1. slots' = Append(slots, tx[c])
    BY <1>2 DEF Filed
  <2>2. Len(slots') = Len(slots) + 1 /\ slots' \in Seq(Tx \union {NoTx})
    BY <1>1, <2>1
  <2>3. \A i \in 1..Len(slots') : slots'[i] = IF i = Len(slots) + 1 THEN tx[c] ELSE slots[i]
    BY <1>1, <2>1
  <2> QED BY <1>1, <1>2, <2>2, <2>3, Lengths DEF Slot, IInv
<1>3. CASE tx[c].nonce + 1 # Len(slots) + 1
  <2>1. tx[c].nonce + 1 > Mined /\ slots' = [slots EXCEPT ![tx[c].nonce + 1] = tx[c]]
    BY <1>3 DEF Filed
  <2>2. tx[c].nonce + 1 \in 1..Len(slots)
    BY <1>1, <1>3
  <2>3. slots' \in Seq(Tx \union {NoTx}) /\ Len(slots') = Len(slots)
    BY <1>1, <2>1, <2>2
  <2>4. \A i \in 1..Len(slots) : slots'[i] = IF i = tx[c].nonce + 1 THEN tx[c] ELSE slots[i]
    BY <1>1, <2>1, <2>2
  <2> QED BY <1>1, <2>1, <2>2, <2>3, <2>4, Lengths DEF Slot, IInv
<1> QED BY <1>2, <1>3

LEMMA FiledPreserves ==
  ASSUME IInv, NEW c \in Command, pc[c] = "send", Filed(c), Goto(c, "wait") \/ Goto(c, "failed"),
         UNCHANGED <<kind, snap, tx, receipts, allowance, checkedAt, overtaken, simAt, older, barred>>
  PROVE  IInv'
<1> DEFINE n == tx[c].nonce + 1
<1>1. /\ pc'[c] \in {"wait", "failed"} /\ \A d \in Command \ {c} : pc'[d] = pc[d]
      /\ pc' \in [Command -> {"new"} \union Running \union Ended]
  BY DEF Goto, IInv, TypeOK, Running, Ended
<1>2. tx[c] \in Tx /\ tx[c].by = c /\ tx[c].nonce \in Nat
  BY DEF IInv, CommandSound, TxSound, Signed, Tx
<1>3. /\ slots' \in Seq(Tx \union {NoTx}) /\ Len(slots') \in Nat /\ Len(slots') >= Len(slots)
      /\ n > Mined /\ n \in 1..Len(slots') /\ slots'[n] = tx[c]
      /\ \A i \in 1..Len(slots') : i # n => i \in Slot /\ slots'[i] = slots[i]
  BY <1>2, FiledSlots, Lengths DEF IInv
<1>4. \A i \in 1..Mined : i \in Slot /\ i \in 1..Len(slots') /\ i # n /\ slots'[i] = slots[i]
  BY <1>3, Lengths DEF IInv, Slot
<1>5. Mined' = Mined /\ Mined \in Nat /\ Len(slots) \in Nat /\ Mined <= Len(slots)
  BY Lengths DEF IInv, Mined
<1> HIDE DEF n
<1>6. TypeOK'
  BY <1>1, <1>3, <1>5 DEF IInv, TypeOK
<1>7. ChainSound'
  <2>1. \A i \in 1..Len(slots') : slots'[i] # NoTx => slots'[i].nonce = i - 1
    BY <1>2, <1>3 DEF IInv, ChainSound, n
  <2> QED BY <1>4, <1>5, <2>1 DEF IInv, ChainSound, Slot
<1>8. ASSUME NEW d \in Command PROVE TxSound(d)'
  <2>1. CASE d = c
    BY <1>1, <1>2, <1>3, <2>1, FiledSlots DEF IInv, CommandSound, TxSound, Signed, Early
  <2>2. CASE d # c
    <3>0. tx[d].nonce \in Nat
      BY DEF IInv, TypeOK, Tx, NoTx
    <3>1. IsMined(d) => IsMined(d)'
      BY <1>3, <1>4, <1>5, <3>0, SMTT(30) DEF IsMined
    <3>2. tx[d] \in Tx => tx[d].nonce \in Nat
      BY DEF Tx
    <3> QED BY <1>1, <1>3, <1>5, <2>2, <3>1, <3>2 DEF IInv, CommandSound, TxSound, Signed, Early
  <2> QED BY <2>1, <2>2
<1>9. ASSUME NEW d \in Command PROVE OwnPending(d)'
  BY <1>1, <1>2, <1>3, <1>5 DEF IInv, CommandSound, OwnPending, Slot
<1>10. ASSUME NEW d \in Command PROVE SwapReady(d)'
  <2>1. simAt[d] \in Nat /\ checkedAt[d] \in Nat
    BY DEF IInv, TypeOK
  <2>2. Foreign(d, simAt[d])' <=> Foreign(d, simAt[d])
    BY <1>4, <1>5, <2>1 DEF Foreign
  <2> QED BY <1>1, <1>2, <1>3, <1>4, <1>5, <2>2, SMTT(30) DEF IInv, CommandSound, SwapReady, Slot
<1>11. ASSUME NEW d \in Command, kind[d] = "cycle" PROVE Spent(d)' /\ Budget(d)'
  <2>1. checkedAt[d] \in Nat
    BY DEF IInv, TypeOK
  <2>2. Foreign(d, checkedAt[d])' <=> Foreign(d, checkedAt[d])
    BY <1>4, <1>5, <2>1 DEF Foreign
  <2>3. Spent(d) /\ Budget(d)
    BY <1>11 DEF IInv, CommandSound
  <2>4. CASE d # c
    <3>1. \A i \in Slot' : slots'[i].by = d => i \in Slot /\ slots'[i] = slots[i]
      BY <1>2, <1>3, <2>4 DEF Slot
    <3>2. pc'[d] = pc[d]
      BY <1>1, <2>4
    <3>3. Spent(d)'
      BY <2>3, <3>1, <3>2, NothingNew DEF Spent, Signed
    <3>4. Budget(d)'
      BY <2>2, <2>3, <3>1, <3>2, NothingNew DEF Budget, Signed
    <3> QED BY <3>3, <3>4
  <2>5. CASE d = c
    <3>1. tx[c].kind \in {"reset", "grant", "swap"}
      BY <1>2 DEF Tx
    <3>2. tx[c].kind = "swap" => /\ NoApproval(c) => NoApproval(c)'
                                 /\ OneApproval(c) => OneApproval(c)'
                                 /\ OneOfEach(c) => OneOfEach(c)'
      BY <1>3 DEF NoApproval, OneApproval, OneOfEach, Slot
    <3>3. NoApproval(c) => OneApproval(c)'
      BY <1>3 DEF NoApproval, OneApproval, Slot
    <3>4. tx[c].kind = "reset" /\ NoApproval(c) => OneOfEach(c)' /\ NoGrant(c)'
      BY <1>3 DEF NoApproval, OneOfEach, NoGrant, Slot
    <3>5. tx[c].kind = "grant" /\ NoGrant(c) /\ OneOfEach(c) => OneOfEach(c)'
      BY <1>3 DEF NoGrant, OneOfEach, Slot
    <3>6. Spent(c)'
      BY <1>1, <2>3, <2>5, <3>1, <3>2, <3>4, <3>5 DEF Spent, Signed
    <3>7. Budget(c)'
      BY <1>1, <2>2, <2>3, <2>5, <3>1, <3>2, <3>3 DEF Budget, Signed
    <3> QED BY <2>5, <3>6, <3>7
  <2> QED BY <2>4, <2>5
<1> QED BY <1>6, <1>7, <1>8, <1>9, <1>10, <1>11 DEF IInv, CommandSound

LEMMA BroadcastPreserves == ASSUME IInv, NEW c \in Command, Broadcast(c) PROVE IInv'
<1>1. pc[c] = "send" /\ UNCHANGED <<kind, snap, tx, receipts, allowance, checkedAt, overtaken, simAt, older, barred>>
  BY DEF Broadcast, history
<1>2. CASE Filed(c) /\ (Goto(c, "wait") \/ Goto(c, "failed"))
  BY <1>1, <1>2, FiledPreserves
<1>3. CASE UNCHANGED slots /\ Goto(c, "failed")
  <2>1. pc'[c] = "failed" /\ \A d \in Command \ {c} : pc'[d] = pc[d]
    BY <1>3 DEF Goto, IInv, TypeOK
  <2>2. TypeOK'
    BY <1>1, <1>3 DEF Goto, IInv, TypeOK, Ended, Mined
  <2>3. TxSound(c)' /\ OwnPending(c)'
    BY <1>1, <1>3, <2>1 DEF IInv, CommandSound, TxSound, OwnPending, Signed, Early, Mined, Slot
  <2>4. SwapReady(c)'
    BY <1>1, <1>3, <2>1 DEF IInv, CommandSound, SwapReady, Foreign, Mined, Slot
  <2>5. (kind[c] = "cycle" => Spent(c) /\ Budget(c))'
    BY <1>1, <1>3, <2>1 DEF IInv, CommandSound, Spent, OneOfEach, NoGrant, Budget, Foreign, Mined, Slot, Signed, NoApproval,
       OneApproval
  <2> QED BY <1>1, <1>3, <2>1, <2>2, <2>3, <2>4, <2>5, LocalStep DEF CommandSound
<1> QED BY <1>2, <1>3 DEF Broadcast

\* The node forgets: a pending slot is emptied, and nothing is mined or sent.
LEMMA ForgetPreserves == ASSUME IInv, Forget PROVE IInv'
<1>1. UNCHANGED <<kind, pc, snap, tx, receipts, allowance, checkedAt, overtaken, simAt, older, barred>>
  BY DEF Forget, history
<1>2. PICK n \in Mined + 1..Len(slots) : slots' = [slots EXCEPT ![n] = NoTx]
  BY DEF Forget
<1>3. /\ slots \in Seq(Tx \union {NoTx}) /\ Mined \in Nat /\ Len(slots) \in Nat
      /\ n \in Slot /\ n > Mined /\ Mined <= Len(slots)
  BY Lengths DEF IInv, TypeOK, Slot
<1>4. /\ slots' \in Seq(Tx \union {NoTx}) /\ Len(slots') = Len(slots)
      /\ \A i \in 1..Len(slots) : slots'[i] = IF i = n THEN NoTx ELSE slots[i]
  BY <1>2, <1>3
<1>5. Mined' = Mined /\ Slot' = Slot /\ \A i \in 1..Mined : i \in Slot /\ slots'[i] = slots[i]
  BY <1>1, <1>3, <1>4 DEF Mined, Slot
<1>6. TypeOK'
  BY <1>1, <1>3, <1>4, <1>5 DEF IInv, TypeOK
<1>7. ChainSound'
  BY <1>1, <1>4, <1>5 DEF IInv, ChainSound, Slot
<1>8. ASSUME NEW d \in Command PROVE CommandSound(d)'
  <2>1. \A i \in Slot : slots'[i].by = d => i # n /\ slots'[i] = slots[i]
    BY <1>4, NobodyAssumption DEF NoTx, Slot
  <2>2. simAt[d] \in Nat /\ checkedAt[d] \in Nat /\ tx[d].nonce \in Nat
    BY DEF IInv, TypeOK, Tx, NoTx
  <2>3. /\ Foreign(d, simAt[d])' <=> Foreign(d, simAt[d])
        /\ Foreign(d, checkedAt[d])' <=> Foreign(d, checkedAt[d])
    <3>1. ASSUME NEW k \in Nat PROVE \A i \in k + 1..Mined : slots'[i] = slots[i]
      BY <1>3, <1>5
    <3> QED BY <1>1, <1>5, <2>2, <3>1 DEF Foreign
  <2>4. IsMined(d) => IsMined(d)'
    <3>1. tx[d].nonce < Mined => tx[d].nonce + 1 \in 1..Mined
      BY <1>3, <2>2
    <3> QED BY <1>1, <1>5, <3>1 DEF IsMined
  <2>5. TxSound(d)'
    BY <1>1, <1>4, <2>4 DEF IInv, CommandSound, TxSound
  <2>6. OwnPending(d)'
    BY <1>1, <1>5, <2>1 DEF IInv, CommandSound, OwnPending
  <2>7. SwapReady(d)'
    BY <1>1, <1>5, <2>1, <2>3 DEF IInv, CommandSound, SwapReady
  <2>8. (kind[d] = "cycle" => Spent(d) /\ Budget(d))'
    <3>1. \A i \in Slot' : slots'[i].by = d => i \in Slot /\ slots'[i] = slots[i]
      BY <1>5, <2>1
    <3> QED BY <1>1, <2>3, <3>1, NothingNew DEF IInv, CommandSound, Spent, Budget
  <2> QED BY <2>5, <2>6, <2>7, <2>8 DEF CommandSound
<1> QED BY <1>6, <1>7, <1>8 DEF IInv

\* Whatever is mined next is not what a revocation barred, and c's own only if c
\* awaits it or gave up on it.
LEMMA MinePreserves == ASSUME IInv, Mine PROVE IInv'
<1>1. UNCHANGED <<kind, pc, snap, tx, slots, checkedAt, overtaken, simAt, older, barred>>
  BY DEF Mine, history
<1>2. PICK success \in BOOLEAN : receipts' = Append(receipts, success)
  BY DEF Mine
<1>3. /\ Mined' = Mined + 1 /\ Mined \in Nat /\ Len(slots) \in Nat /\ Mined + 1 \in Slot
      /\ receipts' \in Seq(BOOLEAN)
  BY <1>2, Lengths DEF Mine, Mined, IInv, TypeOK, Slot
<1>4. TypeOK'
  <2>1. allowance' \in 0..MaxAllowance
    <3>1. slots[Mined + 1].kind \in {"reset", "grant", "swap"}
      BY <1>3, Lengths DEF Mine, IInv, Tx
    <3>2. allowance \in Nat /\ allowance <= MaxAllowance /\ Cap \in Nat /\ MaxAllowance \in Nat /\ Cap <= MaxAllowance
      BY CapAssumption, AllowanceAssumption DEF IInv, TypeOK
    <3>3. \/ allowance' = allowance \/ allowance' = 0 \/ allowance' = Cap
          \/ (allowance >= Cap /\ allowance' = allowance - Cap)
      BY <3>1 DEF Mine
    <3> QED BY <3>2, <3>3
  <2> QED BY <1>1, <1>3, <2>1 DEF IInv, TypeOK, Slot
<1>5. ChainSound'
  <2>1. ASSUME NEW g \in barred PROVE g.nonce < Mined + 1 /\ \A i \in 1..Mined + 1 : slots[i] # g
    <3>1. g.nonce \in Nat /\ g.nonce < Mined /\ \A i \in 1..Mined : slots[i] # g
      BY DEF IInv, TypeOK, ChainSound, Tx
    <3>2. slots[Mined + 1].nonce = Mined
      BY <1>3 DEF Mine, IInv, ChainSound
    <3> QED BY <1>3, <3>1, <3>2
  <2> QED BY <1>1, <1>3, <2>1 DEF IInv, ChainSound, Slot
<1>6. ASSUME NEW d \in Command, NEW k \in Nat, Foreign(d, k) PROVE Foreign(d, k)'
  BY <1>1, <1>3, <1>6 DEF Foreign
<1>7. ASSUME NEW d \in Command PROVE CommandSound(d)'
  <2>1. simAt[d] \in Nat /\ checkedAt[d] \in Nat /\ simAt[d] <= Mined /\ checkedAt[d] <= Mined
    BY DEF IInv, TypeOK, CommandSound, SwapReady
  <2>2. slots[Mined + 1].by = d => slots[Mined + 1] = tx[d] /\ pc[d] \in {"wait", "failed"}
    BY <1>3 DEF IInv, CommandSound, OwnPending
  <2>3. slots[Mined + 1].by # d => Foreign(d, simAt[d])' /\ Foreign(d, checkedAt[d])'
    BY <1>1, <1>3, <2>1 DEF Foreign
  <2>4. (Foreign(d, simAt[d]) => Foreign(d, simAt[d])') /\ (Foreign(d, checkedAt[d]) => Foreign(d, checkedAt[d])')
    BY <1>1, <1>6, <2>1
  <2>5. TxSound(d)' /\ OwnPending(d)'
    <3>1. tx[d].nonce \in Nat
      BY DEF IInv, TypeOK, Tx, NoTx
    <3>2. IsMined(d) => IsMined(d)'
      BY <1>1, <1>3, <3>1 DEF IsMined
    <3>3. TxSound(d)'
      BY <1>1, <3>2 DEF IInv, CommandSound, TxSound, Signed, Early
    <3>4. OwnPending(d)'
      BY <1>1, <1>3 DEF IInv, CommandSound, OwnPending, Slot
    <3> QED BY <3>3, <3>4
  <2>6. SwapReady(d)'
    <3>1. pc[d] = "swap" => Foreign(d, simAt[d])'
      BY <2>2, <2>3
    <3>2. slots[Mined + 1].by = d => \E i \in 1..Mined' : slots'[i] = tx[d]
      BY <1>1, <1>3, <2>2
    <3> QED BY <1>1, <1>3, <2>1, <2>3, <3>1, <3>2 DEF IInv, CommandSound, SwapReady, Slot
  <2>7. (kind[d] = "cycle" => Spent(d) /\ Budget(d))'
    BY <1>1, <1>3, <2>2, <2>3, <2>4 DEF IInv, CommandSound, Spent, Budget, Slot, Signed, NoApproval,
       OneApproval, OneOfEach, NoGrant
  <2> QED BY <2>5, <2>6, <2>7 DEF CommandSound
<1> QED BY <1>4, <1>5, <1>7 DEF IInv

LEMMA StepIInv == IInv /\ [Next]_vars => IInv'
<1> SUFFICES ASSUME IInv, [Next]_vars PROVE IInv'
  OBVIOUS
<1>1. ASSUME NEW c \in Command, Start(c) \/ Step(c) \/ Raise(c) PROVE IInv'
  BY <1>1, StartPreserves, CheckContractsPreserves, TopUpPreserves, SignApprovalPreserves,
     BroadcastPreserves, WaitForReceiptPreserves, ReadBackPreserves, SimulateSwapPreserves,
     SignSwapPreserves, RaisePreserves
  DEF Step
<1>2. CASE UNCHANGED vars
  <2>1. UNCHANGED <<kind, pc, snap, tx, slots, receipts, allowance, checkedAt, overtaken, simAt, older, barred>>
    BY <1>2 DEF vars, chainVars, history
  <2>2. \A c \in Command : CommandSound(c)'
    BY <2>1, StillCommand DEF IInv
  <2> QED BY <2>1, <2>2 DEF IInv, TypeOK, ChainSound, Mined, Slot
<1> QED BY <1>1, <1>2, MinePreserves, ForgetPreserves DEF Next

\* The invariant: where the transactions of one command can be.
THEOREM InductiveInvariant == Spec => []IInv
BY InitIInv, StepIInv, PTL DEF Spec

\* Every variable has its type; allowances stay within what was found or granted.
THEOREM TypeCorrectness == Spec => []TypeOK
<1>1. IInv => TypeOK
  BY DEF IInv
<1> QED BY <1>1, InductiveInvariant, PTL

\* For any number of commands, a grant that was outstanding when a reported revocation
\* was signed is mined before it or never, unless it queued behind a forgotten nonce.
THEOREM RevocationBarsOutstanding == Spec => []RevocationHolds
<1>1. IInv => RevocationHolds
  BY DEF IInv, ChainSound, RevocationHolds
<1> QED BY <1>1, InductiveInvariant, PTL

\* A swap that is mined with too small an allowance has another command to blame.
THEOREM SimulatedSwapIsCovered == Spec => SwapFindsAllowance
<1>1. ASSUME IInv, Mine, NEW c \in Command, slots[Mined + 1] = tx[c], tx[c].kind = "swap", allowance < Cap
      PROVE  Foreign(c, simAt[c])
  <2>1. Mined \in Nat /\ Mined + 1 \in Slot /\ Len(slots) \in Nat /\ \A i \in 1..Mined : i \in Slot
    BY <1>1, Lengths DEF Mine, Mined, IInv, TypeOK, Slot
  <2>2. ASSUME NEW i \in 1..Mined PROVE slots[i] # tx[c]
    BY <1>1, <2>1 DEF IInv, ChainSound, NoTx
  <2>3. ~(allowance >= Cap)
    BY <1>1, CapAssumption, AllowanceAssumption DEF IInv, TypeOK
  <2> QED BY <1>1, <2>2, <2>3 DEF IInv, CommandSound, SwapReady
<1>2. IInv /\ [Next]_vars =>
        [\A c \in Command :
           Mined' > Mined /\ slots[Mined + 1] = tx[c] /\ tx[c].kind = "swap" /\ allowance < Cap
             => Foreign(c, simAt[c])]_vars
  <2> SUFFICES ASSUME IInv, [Next]_vars, NEW c \in Command, Mined' > Mined, slots[Mined + 1] = tx[c],
                      tx[c].kind = "swap", allowance < Cap
               PROVE  Foreign(c, simAt[c])
    OBVIOUS
  <2>1. Mined' # Mined
    BY Lengths DEF IInv
  <2>2. receipts' # receipts
    BY <2>1 DEF Mined
  <2>3. Mine
    BY <2>2 DEF Next, Forget, Start, Step, Raise, CheckContracts, TopUp, SignApproval, Broadcast,
       WaitForReceipt, ReadBack,
       SimulateSwap, SignSwap, chainVars, vars
  <2> QED BY <1>1, <2>3
<1> QED BY <1>2, InductiveInvariant, PTL DEF Spec, SwapFindsAllowance

\* A cycle pays for one reset and one grant at most; for no more than the reserve was
\* checked for, if no part of a trade was approved and no other command's transaction
\* was mined between its checks and its top-up.
THEOREM GasBudget == Spec => []GasBudgetCoversApprovals
<1>1. ASSUME IInv, NEW c \in Command, kind[c] = "cycle"
      PROVE  /\ \A i, j \in ApprovalsOf(c) : slots[i].kind = slots[j].kind => i = j
             /\ snap[c] = 0 /\ ~overtaken[c] => \A i, j \in ApprovalsOf(c) : i = j
             /\ snap[c] >= Cap /\ ~overtaken[c] => ApprovalsOf(c) = {}
  <2>1. \A i \in ApprovalsOf(c) : i \in Slot /\ slots[i].by = c /\ slots[i].kind # "swap"
    BY <1>1, Lengths DEF IInv, ApprovalsOf
  <2>2. Spent(c) /\ Budget(c) /\ snap[c] \in Nat
    BY <1>1, AllowanceAssumption DEF IInv, CommandSound, TypeOK
  <2>3. \A i, j \in ApprovalsOf(c) : slots[i].kind = slots[j].kind => i = j
    BY <2>1, <2>2 DEF Spent, OneOfEach
  <2>4. ASSUME ~overtaken[c], snap[c] = 0 PROVE OneApproval(c)
    BY <2>2, <2>4, CapAssumption DEF Spent, Budget, OneApproval
  <2>5. ASSUME ~overtaken[c], snap[c] >= Cap PROVE NoApproval(c)
    BY <2>2, <2>5, CapAssumption DEF Spent, Budget, NoApproval
  <2> QED BY <2>1, <2>3, <2>4, <2>5 DEF OneApproval, NoApproval
<1>2. IInv => GasBudgetCoversApprovals
  BY <1>1 DEF GasBudgetCoversApprovals
<1> QED BY <1>2, InductiveInvariant, PTL
=============================================================================
