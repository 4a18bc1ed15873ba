--------------------------- MODULE WalletApprovals ---------------------------
(***************************************************************************)
(* The USDT allowance of the router, and the commands that change it from  *)
(* one wallet: approve-trading, revoke-trading, and a live cycle with its  *)
(* top-up and swap.  They share nothing but the chain: no lock, and a row  *)
(* of the database for cycles only.                                        *)
(*                                                                         *)
(* A transaction sits in the slot of its nonce.  The first slots are mined *)
(* and final, the others pending in the node.  There a transaction stays   *)
(* until it is mined, another of the same nonce replaces it, or the node   *)
(* forgets it: then those after it wait until its nonce is used again.  A  *)
(* quote is always for Cap, one trade.  Gas, prices and deadlines only     *)
(* decide whether a step raises.                                           *)
(***************************************************************************)
EXTENDS Naturals, Sequences, FiniteSets

CONSTANTS
  Command,        \* the commands that are ever started
  Cap,            \* MAX_APPROVAL_USDT_RAW, one trade
  Mixes,          \* what those commands may be
  MaxAllowance,   \* bound: allowances found on the chain at first
  MaxForgotten    \* bound: transactions forgotten and not replaced yet

Kind == {"approve", "revoke", "cycle"}

ASSUME CapAssumption == Cap \in Nat \ {0}
ASSUME MixAssumption == Mixes \subseteq [Command -> Kind]
ASSUME AllowanceAssumption == MaxAllowance \in Nat /\ MaxAllowance >= Cap
ASSUME ForgottenAssumption == MaxForgotten \in Nat
ASSUME NobodyAssumption == "nobody" \notin Command

VARIABLES
  kind,        \* what each command is
  pc,          \* its next step
  snap,        \* checked.allowance_raw of a cycle; the others use it at once
  tx,          \* the transaction it signed last
  slots,       \* transactions by nonce, mined ones first; NoTx when forgotten
  receipts,    \* of the mined slots, whether each succeeded
  allowance,   \* on the chain
  checkedAt,   \* history: slots mined at the contract checks, until the top-up
  overtaken,   \* history: another command's was mined between checks and top-up
  simAt,       \* history: slots mined at the simulation of the swap
  older,       \* history: grants a revocation found signed and not mined
  barred       \* history: those of the revocations reported so far

chainVars == <<slots, receipts, allowance>>
history   == <<checkedAt, overtaken, simAt, older, barred>>
vars == <<kind, pc, snap, tx, chainVars, history>>

Tx    == [by : Command, kind : {"reset", "grant", "swap"}, nonce : Nat]
NoTx  == [by |-> "nobody", kind |-> "none", nonce |-> 0]
Mined == Len(receipts)

Running == {"check", "topup", "reset", "grant", "send", "wait", "read", "simulate", "swap"}
Ended   == {"failed", "already-approved", "approved", "already-revoked", "revoked", "swapped"}

TypeOK ==
  /\ kind \in [Command -> Kind]
  /\ pc \in [Command -> {"new"} \union Running \union Ended]
  /\ snap \in [Command -> 0..MaxAllowance]
  /\ tx \in [Command -> Tx \union {NoTx}]
  /\ slots \in Seq(Tx \union {NoTx})
  /\ receipts \in Seq(BOOLEAN)
  /\ Mined <= Len(slots)
  /\ allowance \in 0..MaxAllowance
  /\ checkedAt \in [Command -> Nat]
  /\ overtaken \in [Command -> BOOLEAN]
  /\ simAt \in [Command -> Nat]
  /\ older \in [Command -> SUBSET Tx]
  /\ barred \in SUBSET Tx

Init ==
  /\ kind \in Mixes
  /\ pc = [c \in Command |-> "new"]
  /\ snap = [c \in Command |-> 0]
  /\ tx = [c \in Command |-> NoTx]
  /\ slots = <<>>
  /\ receipts = <<>>
  /\ allowance \in 0..MaxAllowance
  /\ checkedAt = [c \in Command |-> 0]
  /\ overtaken = [c \in Command |-> FALSE]
  /\ simAt = [c \in Command |-> 0]
  /\ older = [c \in Command |-> {}]
  /\ barred = {}

(***************************************************************************)
(* Helpers.                                                                *)
(***************************************************************************)
Goto(c, label) == pc' = [pc EXCEPT ![c] = label]

\* No nonce below n was forgotten.
Gapless(n) == \A i \in 1..n : slots[i] # NoTx

\* What the node answers counts up to the first nonce it does not hold.
Pending == Cardinality({n \in 1..Len(slots) : Gapless(n)})

\* Seeded fault: a revocation takes the place of the oldest pending transaction.
RevokeFirst(c) == IF kind[c] = "revoke" THEN Mined ELSE Pending

\* get_transaction_count(wallet, "pending")
PendingCount(c) == Pending

IsMined(c) == tx[c].nonce < Mined /\ slots[tx[c].nonce + 1] = tx[c]

\* A transaction that c did not sign was mined after the first n.
Foreign(c, n) == \E i \in n + 1..Mined : slots[i].by # c

\* Grants that are signed and may still be mined, those aside that queue behind a
\* nonce the node forgot: the next transaction signed takes that nonce.
InHand(c) == pc[c] = "send" /\ tx[c].kind = "grant" /\ Gapless(tx[c].nonce)
Outstanding ==
  {tx[c] : c \in {d \in Command : InHand(d)}}
    \union {slots[i] : i \in {j \in Mined + 1..Len(slots) : slots[j].kind = "grant" /\ Gapless(j)}}

(***************************************************************************)
(* A command starts, checks the contracts and reads the allowance.         *)
(***************************************************************************)
\* One live cycle at a time, and none while a swap has no receipt.
Start(c) ==
  /\ pc[c] = "new"
  /\ kind[c] = "cycle" =>
       \A d \in Command \ {c} : kind[d] = "cycle" =>
         pc[d] \notin Running /\ (tx[d].kind = "swap" => IsMined(d))
  /\ Goto(c, "check")
  /\ UNCHANGED <<kind, snap, tx, chainVars, history>>

CheckContracts(c) ==
  /\ pc[c] = "check"
  /\ \/ /\ kind[c] = "approve"
        /\ Goto(c, CASE allowance = Cap -> "already-approved"
                     [] allowance = 0   -> "grant"
                     [] OTHER           -> "reset")
        /\ UNCHANGED <<snap, checkedAt>>
     \/ /\ kind[c] = "revoke"
        /\ Goto(c, IF allowance = 0 THEN "already-revoked" ELSE "reset")
        /\ UNCHANGED <<snap, checkedAt>>
     \/ /\ kind[c] = "cycle"
        /\ Goto(c, "topup")
        /\ snap' = [snap EXCEPT ![c] = allowance]
        /\ checkedAt' = [checkedAt EXCEPT ![c] = Mined]
  /\ UNCHANGED <<kind, tx, chainVars, overtaken, simAt, older, barred>>

\* Seeded fault: an allowance of exactly one trade is topped up too.
TopUpExact(c) ==
  /\ pc[c] = "topup"
  /\ Goto(c, CASE allowance > Cap -> "simulate"
               [] allowance = 0   -> "grant"
               [] OTHER           -> "reset")
  /\ overtaken' = [overtaken EXCEPT ![c] = Foreign(c, checkedAt[c])]
  /\ checkedAt' = [checkedAt EXCEPT ![c] = 0]
  /\ UNCHANGED <<kind, snap, tx, chainVars, simAt, older, barred>>

\* The allowance is read again: the quote took its time.
TopUp(c) ==
  /\ pc[c] = "topup"
  /\ Goto(c, CASE allowance >= Cap -> "simulate"
               [] allowance = 0    -> "grant"
               [] OTHER            -> "reset")
  /\ overtaken' = [overtaken EXCEPT ![c] = Foreign(c, checkedAt[c])]
  /\ checkedAt' = [checkedAt EXCEPT ![c] = 0]
  /\ UNCHANGED <<kind, snap, tx, chainVars, simAt, older, barred>>

(***************************************************************************)
(* One transaction: signed, broadcast once, awaited for a limited time.    *)
(***************************************************************************)
SignApproval(c) ==
  /\ pc[c] \in {"reset", "grant"}
  /\ tx' = [tx EXCEPT ![c] = [by |-> c, kind |-> pc[c], nonce |-> PendingCount(c)]]
  /\ older' = [older EXCEPT ![c] = IF kind[c] = "revoke" THEN Outstanding ELSE {}]
  /\ Goto(c, "send")
  /\ UNCHANGED <<kind, snap, chainVars, checkedAt, overtaken, simAt, barred>>

\* The node files the transaction, in place of a forgotten one, or of a pending one
\* if its price is higher.
Filed(c) ==
  LET n == tx[c].nonce + 1
  IN IF n = Len(slots) + 1
     THEN slots' = Append(slots, tx[c])
     ELSE n > Mined /\ slots' = [slots EXCEPT ![n] = tx[c]]

Broadcast(c) ==
  /\ pc[c] = "send"
  /\ \/ Filed(c) /\ Goto(c, "wait")
     \/ Filed(c) /\ Goto(c, "failed")               \* the reply is lost
     \/ UNCHANGED slots /\ Goto(c, "failed")        \* the node refuses
  /\ UNCHANGED <<kind, snap, tx, receipts, allowance, history>>

\* Seeded fault: nothing ends the wait but a receipt.
ReceiptOnly(c) ==
  /\ pc[c] = "wait"
  /\ IsMined(c)
  /\ Goto(c, CASE ~receipts[tx[c].nonce + 1] -> "failed"
               [] tx[c].kind = "swap"        -> "swapped"
               [] OTHER                      -> "read")
  /\ UNCHANGED <<kind, snap, tx, chainVars, history>>

\* A receipt, or the timeout after which nothing is retried.
WaitForReceipt(c) ==
  /\ pc[c] = "wait"
  /\ \/ /\ IsMined(c)
        /\ Goto(c, CASE ~receipts[tx[c].nonce + 1] -> "failed"
                     [] tx[c].kind = "swap"        -> "swapped"
                     [] OTHER                      -> "read")
     \/ Goto(c, "failed")
  /\ UNCHANGED <<kind, snap, tx, chainVars, history>>

\* The allowance must have become what was approved; the cycle needs no more than it.
ReadBack(c) ==
  /\ pc[c] = "read"
  /\ \/ /\ tx[c].kind = "reset"
        /\ Goto(c, CASE allowance # 0      -> "failed"
                     [] kind[c] = "revoke" -> "revoked"
                     [] OTHER              -> "grant")
        /\ barred' = IF kind[c] = "revoke" /\ allowance = 0
                     THEN barred \union
                            {g \in older[c] : \A i \in 1..Mined : slots[i] # g}
                     ELSE barred
     \/ /\ tx[c].kind = "grant"
        /\ Goto(c, CASE kind[c] = "approve" /\ allowance = Cap -> "approved"
                     [] kind[c] = "cycle" /\ allowance >= Cap  -> "simulate"
                     [] OTHER                                  -> "failed")
        /\ UNCHANGED barred
  /\ UNCHANGED <<kind, snap, tx, chainVars, checkedAt, overtaken, simAt, older>>

(***************************************************************************)
(* The swap of a cycle.                                                    *)
(***************************************************************************)
\* Seeded fault: no eth_call before signing.
SimulateBlindly(c) ==
  /\ pc[c] = "simulate"
  /\ Goto(c, "swap")
  /\ simAt' = [simAt EXCEPT ![c] = Mined]
  /\ UNCHANGED <<kind, snap, tx, chainVars, checkedAt, overtaken, older, barred>>

\* eth_call of the swap reverts when the router may not take the amount.
SimulateSwap(c) ==
  /\ pc[c] = "simulate"
  /\ Goto(c, IF allowance >= Cap THEN "swap" ELSE "failed")
  /\ simAt' = [simAt EXCEPT ![c] = Mined]
  /\ UNCHANGED <<kind, snap, tx, chainVars, checkedAt, overtaken, older, barred>>

SignSwap(c) ==
  /\ pc[c] = "swap"
  /\ tx' = [tx EXCEPT ![c] = [by |-> c, kind |-> "swap", nonce |-> PendingCount(c)]]
  /\ Goto(c, "send")
  /\ UNCHANGED <<kind, snap, chainVars, history>>

\* Any step may raise instead (RPC, wallet, quote, gas, deadline) or the process die.
Raise(c) ==
  /\ pc[c] \in Running
  /\ Goto(c, "failed")
  /\ UNCHANGED <<kind, snap, tx, chainVars, history>>

(***************************************************************************)
(* The chain mines the next nonce.  Any transaction may revert; a swap     *)
(* does so when the allowance is short, and else spends it.  The node may  *)
(* forget a pending transaction: its pool is full, or it restarts.         *)
(***************************************************************************)
Forgotten == {i \in 1..Len(slots) : slots[i] = NoTx}

Forget ==
  /\ Cardinality(Forgotten) < MaxForgotten
  /\ \E i \in (Mined + 1..Len(slots)) \ Forgotten : slots' = [slots EXCEPT ![i] = NoTx]
  /\ UNCHANGED <<kind, pc, snap, tx, receipts, allowance, history>>

Mine ==
  /\ Mined < Len(slots)
  /\ slots[Mined + 1] # NoTx
  /\ LET next == slots[Mined + 1]
     IN \/ /\ next.kind = "swap" => allowance >= Cap
           /\ receipts' = Append(receipts, TRUE)
           /\ allowance' = CASE next.kind = "reset" -> 0
                             [] next.kind = "grant" -> Cap
                             [] next.kind = "swap"  -> allowance - Cap
        \/ receipts' = Append(receipts, FALSE) /\ UNCHANGED allowance
  /\ UNCHANGED <<kind, pc, snap, tx, slots, history>>

(***************************************************************************)
(* The specification.  Every call of a command has a timeout of its own    *)
(* and then raises, so a command that lives keeps going.  Nothing is       *)
(* assumed of the chain.                                                   *)
(***************************************************************************)
Step(c) ==
  \/ CheckContracts(c) \/ TopUp(c) \/ SignApproval(c) \/ Broadcast(c) \/ WaitForReceipt(c)
  \/ ReadBack(c) \/ SimulateSwap(c) \/ SignSwap(c)

Next == Mine \/ Forget \/ \E c \in Command : Start(c) \/ Step(c) \/ Raise(c)

Spec == Init /\ [][Next]_vars

FairSpec == Spec /\ \A c \in Command : WF_vars(Step(c))

(***************************************************************************)
(* Properties.                                                             *)
(***************************************************************************)
\* Once revoke-trading reports "revoked", no grant is mined that was outstanding when
\* it signed, by whichever command, even one that timed out long ago.  The nonce sees
\* to it: it counts what is pending, and the revocation's own is mined.  The exception
\* is in `Outstanding`: of grants behind a nonce that the node forgot nothing is said,
\* for there the revocation fills the gap, is mined, and frees the way for them.
\* An answer of "already-revoked" sends nothing and promises nothing of the kind.
RevocationHolds == \A g \in barred : \A i \in 1..Mined : slots[i] # g

\* A swap whose turn comes on the chain finds the allowance it needs, or another
\* command's transaction was mined since the cycle simulated it.
SwapFindsAllowance ==
  [][\A c \in Command :
       Mined' > Mined /\ slots[Mined + 1] = tx[c] /\ tx[c].kind = "swap" /\ allowance < Cap
         => Foreign(c, simAt[c])]_vars

\* A cycle never pays for more than one reset and one grant.  The gas reserve was
\* checked for one approval when the checked allowance was short and for none when it
\* was not, and the allowance is read again after that.  The two readings lead to the
\* same approvals, unless a part of a trade was approved, which takes both, or another
\* command's transaction was mined between them; one mined later changes nothing.
ApprovalsOf(c) == {i \in 1..Mined : slots[i].by = c /\ slots[i].kind # "swap"}
GasBudgetCoversApprovals ==
  \A c \in Command : kind[c] = "cycle" =>
    /\ \A i, j \in ApprovalsOf(c) : slots[i].kind = slots[j].kind => i = j
    /\ snap[c] = 0 /\ ~overtaken[c] => \A i, j \in ApprovalsOf(c) : i = j
    /\ snap[c] >= Cap /\ ~overtaken[c] => ApprovalsOf(c) = {}

\* A command that runs ends, though the chain may never mine and a transaction may
\* have been replaced.
CommandsEnd == \A c \in Command : pc[c] \in Running ~> pc[c] \in Ended
=============================================================================
