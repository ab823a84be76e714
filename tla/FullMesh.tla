------------------------------ MODULE FullMesh ------------------------------
(***************************************************************************)
(* connectFullMesh (gloo/rendezvous/context.cc) as a whole: a rank first   *)
(* exchanges host names (LocalRank), and once it knows its local rank it   *)
(* creates its pairs and connects them (Connect).  Both parts use the      *)
(* store, under different keys.  The ranks are not in step: some connect   *)
(* while others still read host names.                                     *)
(***************************************************************************)
EXTENDS Connect, LocalRank

ASSUME SameRanks == WorldSize = Size

FullMeshInit == Init /\ InitHosts

(* A rank in the exchange of host names; it ends with its process.         *)
ExchangeHosts(i) ==
  /\ DeviceOf[i] \notin aborted
  /\ HostRank(i)
  /\ UNCHANGED vars

(* A rank behind it.                                                       *)
ConnectPairs(i) ==
  /\ phase[i] = "create"
  /\ Rank(i)
  /\ UNCHANGED hostVars

FullMeshNext ==
  \/ \E i \in Ranks : ExchangeHosts(i) \/ ConnectPairs(i)
  \/ (\E d \in Devices : LoopThread(d)) /\ UNCHANGED hostVars

FullMeshSpec == FullMeshInit /\ [][FullMeshNext]_<<vars, hostVars>>
=============================================================================
