----------------------------- MODULE MCSendRecv -----------------------------
(* SendRecv.tla for TLC.                                                   *)
EXTENDS SendRecv, TLC

CONSTANTS a, b, c

(* One rank that receives from any of two senders.                         *)
Sends == a :> 0 @@ b :> 2 @@ c :> 1
Recvs == a :> 2 @@ b :> 0 @@ c :> 0
=============================================================================
