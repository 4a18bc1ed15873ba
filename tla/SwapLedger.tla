------------------------------ MODULE SwapLedger ------------------------------
(***************************************************************************)
(* What the executor promises about the chain, with no process, database   *)
(* or failure in sight.  A decision's swap is reserved, then sent, then    *)
(* mined; it moves forward only, and one swap at a time is open.           *)
(***************************************************************************)
CONSTANT Decision

VARIABLE swap

LedgerTypeOK == swap \in [Decision -> {"none", "reserved", "sent", "mined"}]

Open(d) == swap[d] \in {"reserved", "sent"}

Init == swap = [d \in Decision |-> "none"]

ReserveSwap(d) ==
  /\ swap[d] = "none"
  /\ \A e \in Decision : ~Open(e)
  /\ swap' = [swap EXCEPT ![d] = "reserved"]

SendSwap(d) ==
  /\ swap[d] = "reserved"
  /\ swap' = [swap EXCEPT ![d] = "sent"]

MineSwap(d) ==
  /\ swap[d] = "sent"
  /\ swap' = [swap EXCEPT ![d] = "mined"]

Next == \E d \in Decision : ReserveSwap(d) \/ SendSwap(d) \/ MineSwap(d)

Spec == Init /\ [][Next]_swap
=============================================================================
