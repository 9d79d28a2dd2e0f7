--------------------------- MODULE MC_FeeLedger ---------------------------
(* Two users, u1 holding three tokens and u2 one; fees of 0 to 2 tokens;  *)
(* two blocks and two transactions per user.                             *)
EXTENDS FeeLedger, TLC

CONSTANTS u1, u2, feeAddr, poolAddr

MCUsers == {u1, u2}
MCGenesisBalance ==
    (u1 :> 3 @@ u2 :> 1 @@ feeAddr :> 0 @@ poolAddr :> 0)

MCGoodOne == {{u1}}
\* rounds that lose fees: two good entities (odd share) or none
MCGoodLossy == {{}, {u1, u2}}
=============================================================================
