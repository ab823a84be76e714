----------------------------- MODULE LocalRank -----------------------------
(***************************************************************************)
(* The first part of connectFullMesh (gloo/rendezvous/context.cc): every   *)
(* rank publishes its host name in the store, reads the host names of the  *)
(* lower ranks one by one, and takes as its local rank the number of those *)
(* that run on its own host.                                               *)
(*                                                                         *)
(* Store::get blocks until the key is set in FileStore and RedisStore, and *)
(* gives up after a timeout; HashStore::get returns an empty value at once *)
(* when the key is not set.                                                *)
(***************************************************************************)
EXTENDS Naturals, FiniteSets

CONSTANTS
  WorldSize,   \* number of ranks
  HostOf,      \* HostOf[i]: host name of rank i
  GetBlocks    \* does Store::get wait for the key?

World == 0 .. WorldSize - 1
NoHost == "no host"

ASSUME WorldAssumption == WorldSize \in Nat \ {0}
ASSUME HostAssumption == DOMAIN HostOf = World /\ \A i \in World : HostOf[i] # NoHost
ASSUME GetAssumption == GetBlocks \in BOOLEAN

VARIABLES
  hostNames,  \* [i]: the value of key "rank_<i>", NoHost when it is not set
  nextRank,   \* [i]: the rank whose host name i reads next
  localRank,  \* [i]
  phase       \* [i]: "set", "get", "create" (the pairs) or "threw"

hostVars == <<hostNames, nextRank, localRank, phase>>

HostTypes ==
  /\ hostNames \in [World -> {HostOf[i] : i \in World} \cup {NoHost}]
  /\ nextRank \in [World -> World]
  /\ localRank \in [World -> World]
  /\ phase \in [World -> {"set", "get", "create", "threw"}]

InitHosts ==
  /\ hostNames = [i \in World |-> NoHost]
  /\ nextRank = [i \in World |-> 0]
  /\ localRank = [i \in World |-> 0]
  /\ phase = [i \in World |-> "set"]

SetHostname(i) ==
  /\ phase[i] = "set"
  /\ hostNames' = [hostNames EXCEPT ![i] = HostOf[i]]
  /\ phase' = [phase EXCEPT ![i] = "get"]
  /\ UNCHANGED <<nextRank, localRank>>

(* The loop ends when it comes to the rank itself.                         *)
ReadsAll(i) == nextRank[i] = i

(* Mutant of CountHost: a host name that was read counts, whatever it is.  *)
CountAnyHost(i, host) == IF host # NoHost THEN localRank[i] + 1 ELSE localRank[i]

CountHost(i, host) == IF host = HostOf[i] THEN localRank[i] + 1 ELSE localRank[i]

GetHostname(i) ==
  LET host == hostNames[nextRank[i]] IN
  /\ phase[i] = "get" /\ ~ReadsAll(i)
  /\ GetBlocks => host # NoHost
  /\ localRank' = [localRank EXCEPT ![i] = CountHost(i, host)]
  /\ nextRank' = [nextRank EXCEPT ![i] = @ + 1]
  /\ UNCHANGED <<hostNames, phase>>

(* A store that waits gives up: the exception leaves connectFullMesh.      *)
GetTimesOut(i) ==
  /\ phase[i] = "get" /\ ~ReadsAll(i)
  /\ GetBlocks /\ hostNames[nextRank[i]] = NoHost
  /\ phase' = [phase EXCEPT ![i] = "threw"]
  /\ UNCHANGED <<hostNames, nextRank, localRank>>

(* All read: the pairs are created, and told the local rank.               *)
SetLocalRank(i) ==
  /\ phase[i] = "get" /\ ReadsAll(i)
  /\ phase' = [phase EXCEPT ![i] = "create"]
  /\ UNCHANGED <<hostNames, nextRank, localRank>>

HostRank(i) == SetHostname(i) \/ GetHostname(i) \/ GetTimesOut(i) \/ SetLocalRank(i)

NextHosts == \E i \in World : HostRank(i)

HostSpec == InitHosts /\ [][NextHosts]_hostVars

-----------------------------------------------------------------------------
(* "Gloo uses the global rank <> hostname mapping to compute local ranks"  *)
(* (context.cc): the ranks on a host number themselves 0, 1, ... in the    *)
(* order of their global ranks, whatever the order in which they run.      *)
LocalRanksAgree ==
  /\ HostTypes
  /\ \A i \in World : phase[i] = "create" =>
       localRank[i] = Cardinality({j \in 0 .. i - 1 : HostOf[j] = HostOf[i]})
=============================================================================
