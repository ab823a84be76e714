--------------------------- MODULE MCUnboundBuffer ---------------------------
EXTENDS UnboundBuffer, TLC

CONSTANTS b1, b2

(* Two threads, of which one is interrupted as well.                       *)
MCMaxOps == b1 :> 1 @@ b2 :> 1
MCMaxAborts == b1 :> 1 @@ b2 :> 0

(* One buffer, used once.                                                  *)
OneMaxOps == b1 :> 1
OneMaxAborts == b1 :> 0
=============================================================================
