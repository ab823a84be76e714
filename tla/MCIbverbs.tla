----------------------------- MODULE MCIbverbs ------------------------------
(***************************************************************************)
(* Ibverbs with two slots: the pair sends on the first and receives on it, *)
(* the peer announces regions for both.  Two receives and two sends fit in *)
(* their queues (kMaxBuffers; 8 in the code), so three arrivals wrap the   *)
(* inbox around and three sends overflow the send queue.                   *)
(***************************************************************************)
EXTENDS Ibverbs
=============================================================================
