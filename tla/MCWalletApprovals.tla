------------------------- MODULE MCWalletApprovals --------------------------
(***************************************************************************)
(* Three commands: a cycle between an approval and a revocation, or two    *)
(* cycles and a revocation.                                                *)
(***************************************************************************)
EXTENDS WalletApprovals, TLC

CONSTANTS c1, c2, c3

CommandMixes == {c1 :> "revoke" @@ c2 :> k[1] @@ c3 :> k[2] :
                   k \in {<<"approve", "cycle">>, <<"cycle", "cycle">>}}
=============================================================================
