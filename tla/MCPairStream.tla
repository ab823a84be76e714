---------------------------- MODULE MCPairStream ----------------------------
EXTENDS PairStream, TLC

CONSTANTS o1, o2, o3, o4

MCOps == {o1, o2, o3, o4}

(* A notification, a bound send and two unbound ones.                      *)
MCOpcode == o1 :> "SEND_UNBOUND_BUFFER" @@ o2 :> "NOTIFY_SEND_READY" @@ o3 :> "SEND_BUFFER"
            @@ o4 :> "SEND_UNBOUND_BUFFER"

(* The notification announces a payload it does not carry; one send is     *)
(* empty.                                                                  *)
MCLength == o1 :> 2 @@ o2 :> 2 @@ o3 :> 1 @@ o4 :> 0
=============================================================================
