-------------------------------- MODULE MCUv --------------------------------
(***************************************************************************)
(* The libuv transport on a small instance: rank a sends and rank b        *)
(* receives, on a slot for messages of two units and a slot for empty      *)
(* ones.  The ranks share a socket address, as in the tests; b has the     *)
(* smaller sequence number and waits for a to connect.                     *)
(***************************************************************************)
EXTENDS Uv

CONSTANTS a, b

MCMaxSends == [r \in Ranks |-> IF r = a THEN 1 ELSE 0]
MCMaxRecvs == [r \in Ranks |-> IF r = b THEN 1 ELSE 0]
MCNoOps == [r \in Ranks |-> 0]
MCAddress == [r \in Ranks |-> [sock |-> 1, seq |-> IF r = a THEN 2 ELSE 1]]
MCPayload == <<2, 0>>
=============================================================================
