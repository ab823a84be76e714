------------------------------ MODULE Connect ------------------------------
(***************************************************************************)
(* How a full mesh of pairs gets connected: connectFullMesh                *)
(* (gloo/rendezvous/context.cc), Device::connect (tcp/device.cc), the      *)
(* Listener (tcp/listener.cc), the sequence number exchange                *)
(* (tcp/helpers.h) and Pair::connect / connectCallback (tcp/pair.cc).      *)
(*                                                                         *)
(* Every rank has one thread, which creates its pairs, publishes their     *)
(* addresses and connects them in order; every device has one loop thread  *)
(* and one listener, and may be shared by ranks.  A pair is <<i, j>>, the  *)
(* pair of rank i for rank j.  A connection is named after the pair that   *)
(* initiates it.                                                           *)
(***************************************************************************)
EXTENDS Naturals, Sequences, FiniteSets

CONSTANTS
  Size,        \* number of ranks
  Devices,
  DeviceOf,    \* DeviceOf[i]: the device of rank i
  AddressOf,   \* AddressOf[d]: address and port of d's listener, as ordered by memcmp
  Faults       \* what may fail: a subset of {"timeout", "io"}

Ranks == 0 .. Size - 1

ASSUME SizeAssumption == Size \in Nat \ {0, 1}
ASSUME DeviceAssumption ==
  /\ DeviceOf \in [Ranks -> Devices]
  /\ AddressOf \in [Devices -> Nat]
  /\ \A d, e \in Devices : AddressOf[d] = AddressOf[e] => d = e
ASSUME FaultsAssumption == Faults \subseteq {"timeout", "io"}

Pairs == {p \in Ranks \X Ranks : p[1] # p[2]}
Peer(p) == <<p[2], p[1]>>
PairDevice(p) == DeviceOf[p[1]]

NoFd == <<>>  \* FD_INVALID
Idle == [pair |-> NoFd, socket |-> NoFd, error |-> FALSE]

VARIABLES
  pc, cur,        \* [i]: what rank i does, and for which of its peers
  seq,            \* [d]: Listener::seq_
  allAddrs,       \* [i]: sequence numbers of the pairs of rank i, in order
  store,          \* [i]: what rank i has published
  state, ex, fd,  \* [p]: state_, whether ex_ is set, and fd_ of a pair
  conn,           \* [p]: the connection initiated by p
  seqToCallback,  \* [d]: pairs waiting for a connection, by sequence number
  seqToSocket,    \* [d]: connections waiting for a pair, by sequence number
  deferred,       \* [d]: callbacks deferred to the loop thread
  loop,           \* [d]: the callback the loop thread is about to make
  shut,           \* pairs that have closed their descriptor
  dangling,       \* pairs called back although they no longer exist
  aborted         \* devices whose loop thread failed a GLOO_ENFORCE

thread == <<pc, cur>>
addresses == <<seq, allAddrs, store>>
pair == <<state, ex, fd, shut, dangling>>
listener == <<seqToCallback, seqToSocket, deferred>>
vars == <<thread, addresses, pair, conn, listener, loop, aborted>>

States == <<"INITIALIZING", "CONNECTING", "CONNECTED", "CLOSED">>
Callback == [pair : Pairs, socket : Pairs, error : BOOLEAN]
Stages == {"none", "connecting", "written", "routed", "lost"}

TypeOK ==
  /\ pc \in [Ranks -> {"create", "connect", "device", "waiting", "done", "threw", "gone"}]
  /\ cur \in [Ranks -> 1 .. Size]
  /\ seq \in [Devices -> Nat]
  /\ allAddrs \in [Ranks -> Seq(Nat)]
  /\ store \in [Ranks -> Seq(Nat)]
  /\ state \in [Pairs -> {States[k] : k \in 1 .. 4}]
  /\ ex \in [Pairs -> BOOLEAN]
  /\ fd \in [Pairs -> Pairs \cup {NoFd}]
  /\ conn \in [Pairs -> [stage : Stages, device : Devices, seq : Nat]]
  /\ seqToCallback \in [Devices -> SUBSET (Nat \X Pairs)]
  /\ seqToSocket \in [Devices -> SUBSET (Nat \X Pairs)]
  /\ deferred \in [Devices -> Seq(Callback)]
  /\ loop \in [Devices -> Callback \cup {Idle}]
  /\ shut \subseteq Pairs
  /\ dangling \subseteq Pairs
  /\ aborted \subseteq Devices

Init ==
  /\ pc = [i \in Ranks |-> "create"] /\ cur = [i \in Ranks |-> 1]
  /\ seq = [d \in Devices |-> 0]
  /\ allAddrs = [i \in Ranks |-> <<>>] /\ store = [i \in Ranks |-> <<>>]
  /\ state = [p \in Pairs |-> "INITIALIZING"]
  /\ ex = [p \in Pairs |-> FALSE]
  /\ fd = [p \in Pairs |-> NoFd]
  /\ conn = [p \in Pairs |-> [stage |-> "none", device |-> PairDevice(p), seq |-> 0]]
  /\ seqToCallback = [d \in Devices |-> {}]
  /\ seqToSocket = [d \in Devices |-> {}]
  /\ deferred = [d \in Devices |-> <<>>]
  /\ loop = [d \in Devices |-> Idle]
  /\ shut = {} /\ dangling = {} /\ aborted = {}

-----------------------------------------------------------------------------
(* The rank the loops over all ranks but i visit at their k-th iteration.  *)
PeerAt(i, k) == IF k - 1 < i THEN k - 1 ELSE k
Current(i) == <<i, PeerAt(i, cur[i])>>

(* Mutant of ExtractAddress: a rank's own place in the list is not skipped. *)
ExtractAddressAt(addrs, rank, i) == addrs[IF rank < Len(addrs) THEN rank + 1 ELSE Len(addrs)]

(* Context::extractAddress: rank's address in the list published by i,     *)
(* which has none for i itself.                                            *)
ExtractAddress(addrs, rank, i) == addrs[IF rank > i THEN rank ELSE rank + 1]

Local(p) == [device |-> PairDevice(p), seq |-> ExtractAddress(allAddrs[p[1]], p[2], p[1])]
Remote(p) == [device |-> PairDevice(Peer(p)), seq |-> ExtractAddress(store[p[2]], p[1], p[2])]

(* Device::isInitiator: the higher address and port, or on a shared device *)
(* the higher sequence number.                                             *)
IsInitiator(local, remote) ==
  \/ AddressOf[local.device] > AddressOf[remote.device]
  \/ local.device = remote.device /\ local.seq > remote.seq

-----------------------------------------------------------------------------
(* Context::createPair: the pair takes its address from the listener.      *)
CreatePair(i) ==
  LET d == DeviceOf[i] IN
  /\ pc[i] = "create" /\ cur[i] < Size
  /\ allAddrs' = [allAddrs EXCEPT ![i] = Append(@, seq[d])]
  /\ seq' = [seq EXCEPT ![d] = @ + 1]
  /\ cur' = [cur EXCEPT ![i] = @ + 1]
  /\ UNCHANGED <<pc, store, pair, conn, listener, loop>>

(* store.set(rank, all addresses) *)
Publish(i) ==
  /\ pc[i] = "create" /\ cur[i] = Size
  /\ store' = [store EXCEPT ![i] = allAddrs[i]]
  /\ pc' = [pc EXCEPT ![i] = "connect"]
  /\ cur' = [cur EXCEPT ![i] = 1]
  /\ UNCHANGED <<seq, allAddrs, pair, conn, listener, loop>>

(* store.wait, then Pair::connect up to the call into the device.  From    *)
(* here until the thread waits it holds the mutex of the pair.             *)
PairConnect(i) ==
  /\ pc[i] = "connect" /\ cur[i] < Size
  /\ store[Current(i)[2]] # <<>>
  /\ state' = [state EXCEPT ![Current(i)] = "CONNECTING"]
  /\ pc' = [pc EXCEPT ![i] = "device"]
  /\ UNCHANGED <<cur, addresses, ex, fd, shut, dangling, conn, listener, loop>>

(* store.wait gives up: connectFullMesh throws.                            *)
StoreTimeout(i) ==
  /\ "timeout" \in Faults
  /\ pc[i] = "connect" /\ cur[i] < Size
  /\ store[Current(i)[2]] = <<>>
  /\ pc' = [pc EXCEPT ![i] = "threw"]
  /\ UNCHANGED <<cur, addresses, pair, conn, listener, loop>>

(* Mutant of WaitForConnection: a connection that is already there is not  *)
(* looked for.                                                             *)
WaitForLaterConnection(p, d, s) ==
  /\ seqToCallback' = [seqToCallback EXCEPT ![d] = @ \cup {<<s, p>>}]
  /\ UNCHANGED <<seqToSocket, deferred>>

(* Listener::waitForConnection: persist the callback, or defer it to the   *)
(* loop thread if the connection is already there.                         *)
WaitForConnection(p, d, s) ==
  \/ /\ \A x \in seqToSocket[d] : x[1] # s
     /\ seqToCallback' = [seqToCallback EXCEPT ![d] = @ \cup {<<s, p>>}]
     /\ UNCHANGED <<seqToSocket, deferred>>
  \/ \E x \in seqToSocket[d] :
       /\ x[1] = s
       /\ seqToSocket' = [seqToSocket EXCEPT ![d] = @ \ {x}]
       /\ deferred' = [deferred EXCEPT ![d] =
            Append(@, [pair |-> p, socket |-> x[2], error |-> FALSE])]
       /\ UNCHANGED seqToCallback

(* Device::connect as initiator or as listener; then wait, which releases  *)
(* the pair's mutex.                                                       *)
DeviceConnect(i) ==
  LET p == Current(i) IN
  /\ pc[i] = "device"
  /\ \/ /\ IsInitiator(Local(p), Remote(p))
        /\ conn' = [conn EXCEPT ![p] = [stage |-> "connecting",
                      device |-> Remote(p).device, seq |-> Remote(p).seq]]
        /\ UNCHANGED listener
     \/ /\ ~IsInitiator(Local(p), Remote(p))
        /\ WaitForConnection(p, Local(p).device, Local(p).seq)
        /\ UNCHANGED conn
  /\ pc' = [pc EXCEPT ![i] = "waiting"]
  /\ UNCHANGED <<cur, addresses, pair, loop>>

(* waitUntilConnected: the predicate holds, or throws.                     *)
Connected(i) ==
  LET p == Current(i) IN
  /\ pc[i] = "waiting"
  /\ \/ /\ ex[p]
        /\ pc' = [pc EXCEPT ![i] = "threw"]
        /\ UNCHANGED cur
     \/ /\ ~ex[p] /\ state[p] \in {"CONNECTED", "CLOSED"}
        /\ pc' = [pc EXCEPT ![i] = IF cur[i] + 1 = Size THEN "done" ELSE "connect"]
        /\ cur' = [cur EXCEPT ![i] = @ + 1]
  /\ UNCHANGED <<addresses, pair, conn, listener, loop>>

(* Pair::signalException: set ex_, close the descriptor, move to CLOSED.   *)
SignalException(p) ==
  /\ ex' = [ex EXCEPT ![p] = TRUE]
  /\ state' = [state EXCEPT ![p] = "CLOSED"]
  /\ shut' = IF fd[p] = NoFd THEN shut ELSE shut \cup {p}
  /\ fd' = [fd EXCEPT ![p] = NoFd]
  /\ UNCHANGED dangling

(* waitUntil: the connect timeout.                                         *)
ConnectTimeout(i) ==
  LET p == Current(i) IN
  /\ "timeout" \in Faults
  /\ pc[i] = "waiting"
  /\ ~ex[p] /\ state[p] \notin {"CONNECTED", "CLOSED"}
  /\ SignalException(p)
  /\ pc' = [pc EXCEPT ![i] = "threw"]
  /\ UNCHANGED <<cur, addresses, conn, listener, loop>>

(* The exception leaves connectFullMesh: the context goes, and its pairs   *)
(* with it (~Pair).  The listener is not told.                             *)
Unwind(i) ==
  /\ pc[i] = "threw"
  /\ pc' = [pc EXCEPT ![i] = "gone"]
  /\ state' = [p \in Pairs |-> IF p[1] = i THEN "CLOSED" ELSE state[p]]
  /\ shut' = shut \cup {p \in Pairs : p[1] = i /\ fd[p] # NoFd}
  /\ fd' = [p \in Pairs |-> IF p[1] = i THEN NoFd ELSE fd[p]]
  /\ UNCHANGED <<cur, addresses, ex, dangling, conn, listener, loop>>

-----------------------------------------------------------------------------
(* The loop thread of device d.                                            *)

(* WriteValueOperation: the initiator's socket became writable, or failed  *)
(* to connect.                                                             *)
WriteSeq(d, p) ==
  /\ loop[d] = Idle
  /\ PairDevice(p) = d /\ conn[p].stage = "connecting"
  /\ \E failed \in {FALSE} \cup {"io" \in Faults} :
       /\ conn' = [conn EXCEPT ![p].stage = IF failed THEN "lost" ELSE "written"]
       /\ loop' = [loop EXCEPT ![d] = [pair |-> p, socket |-> p, error |-> failed]]
  /\ UNCHANGED <<thread, addresses, pair, listener>>

(* Listener::haveConnection: persist the socket, or take the callback and  *)
(* make it once the listener's mutex is released.                          *)
HaveConnection(c, d, s) ==
  \/ /\ \A x \in seqToCallback[d] : x[1] # s
     /\ seqToSocket' = [seqToSocket EXCEPT ![d] = @ \cup {<<s, c>>}]
     /\ UNCHANGED <<seqToCallback, deferred, loop>>
  \/ \E x \in seqToCallback[d] :
       /\ x[1] = s
       /\ seqToCallback' = [seqToCallback EXCEPT ![d] = @ \ {x}]
       /\ loop' = [loop EXCEPT ![d] = [pair |-> x[2], socket |-> c, error |-> FALSE]]
       /\ UNCHANGED <<seqToSocket, deferred>>

(* Listener::handleEvents and ReadValueOperation: a connection was         *)
(* accepted and its sequence number read.  A failed read is dropped.       *)
ReadSeq(d, c) ==
  /\ loop[d] = Idle
  /\ conn[c].stage = "written" /\ conn[c].device = d
  /\ \/ /\ HaveConnection(c, d, conn[c].seq)
        /\ conn' = [conn EXCEPT ![c].stage = "routed"]
     \/ /\ "io" \in Faults
        /\ conn' = [conn EXCEPT ![c].stage = "lost"]
        /\ UNCHANGED <<listener, loop>>
  /\ UNCHANGED <<thread, addresses, pair>>

(* Loop::defer: the callback of a connection that came first.              *)
RunDeferred(d) ==
  /\ loop[d] = Idle /\ deferred[d] # <<>>
  /\ loop' = [loop EXCEPT ![d] = Head(deferred[d])]
  /\ deferred' = [deferred EXCEPT ![d] = Tail(@)]
  /\ UNCHANGED <<thread, addresses, pair, conn, seqToCallback, seqToSocket>>

(* Pair::connectCallback, which blocks on the pair's mutex: fail the pair, *)
(* or hand it the socket and move it to CONNECTED, whatever its state.     *)
ConnectCallback(d) ==
  LET p == loop[d].pair IN
  /\ loop[d] # Idle
  /\ pc[p[1]] # "gone"
  /\ ~(pc[p[1]] = "device" /\ Current(p[1]) = p)
  /\ \/ /\ loop[d].error /\ ~ex[p]
        /\ SignalException(p)
     \/ /\ ~loop[d].error
        /\ fd' = [fd EXCEPT ![p] = loop[d].socket]
        /\ state' = [state EXCEPT ![p] = "CONNECTED"]
        /\ UNCHANGED <<ex, shut, dangling>>
  /\ loop' = [loop EXCEPT ![d] = Idle]
  /\ UNCHANGED <<thread, addresses, conn, listener>>

(* The callback reaches a pair that was destroyed.                         *)
DanglingCallback(d) ==
  /\ loop[d] # Idle
  /\ pc[loop[d].pair[1]] = "gone"
  /\ dangling' = dangling \cup {loop[d].pair}
  /\ loop' = [loop EXCEPT ![d] = Idle]
  /\ UNCHANGED <<thread, addresses, state, ex, fd, shut, conn, listener>>

(* Pair::handleEvents finds end of file: the peer closed its descriptor.   *)
HandleEof(d, p) ==
  /\ loop[d] = Idle
  /\ PairDevice(p) = d /\ state[p] = "CONNECTED" /\ ~ex[p]
  /\ Peer(p) \in shut
  /\ SignalException(p)
  /\ UNCHANGED <<thread, addresses, conn, listener, loop>>

(* GLOO_ENFORCE(ex_ == nullptr) fails in signalException, called back with *)
(* an error, or in handleEvents: nothing catches the exception on the loop *)
(* thread, and the process ends.                                           *)
EnforceFails(d) ==
  /\ \/ /\ loop[d] # Idle /\ loop[d].error
        /\ pc[loop[d].pair[1]] # "gone"
        /\ ex[loop[d].pair]
     \/ /\ loop[d] = Idle
        /\ \E p \in Pairs : /\ PairDevice(p) = d /\ state[p] = "CONNECTED" /\ ex[p]
                            /\ Peer(p) \in shut
  /\ aborted' = aborted \cup {d}
  /\ UNCHANGED <<thread, addresses, pair, conn, listener, loop>>

Rank(i) ==
  /\ DeviceOf[i] \notin aborted
  /\ \/ CreatePair(i) \/ Publish(i) \/ PairConnect(i) \/ StoreTimeout(i)
     \/ DeviceConnect(i) \/ Connected(i) \/ ConnectTimeout(i) \/ Unwind(i)
  /\ UNCHANGED aborted

LoopThread(d) ==
  /\ d \notin aborted
  /\ \/ /\ \/ \E p \in Pairs : WriteSeq(d, p) \/ ReadSeq(d, p) \/ HandleEof(d, p)
           \/ RunDeferred(d) \/ ConnectCallback(d) \/ DanglingCallback(d)
        /\ UNCHANGED aborted
     \/ EnforceFails(d)

Next ==
  \/ \E i \in Ranks : Rank(i)
  \/ \E d \in Devices : LoopThread(d)

Spec == Init /\ [][Next]_vars

-----------------------------------------------------------------------------
(* A pair only ever gets the connection between itself and its peer,       *)
(* at the end it should have.                                              *)
RoutedToPeer ==
  /\ TypeOK
  /\ \A p \in Pairs : fd[p] # NoFd =>
       fd[p] = IF IsInitiator(Local(p), Remote(p)) THEN p ELSE Peer(p)

(* Nobody can take a step but by giving up: the loop threads have nothing  *)
(* left to handle, and every rank has returned or sleeps.                  *)
Quiescent ==
  /\ \A d \in Devices : loop[d] = Idle /\ deferred[d] = <<>>
  /\ \A p \in Pairs : conn[p].stage \notin {"connecting", "written"}
  /\ \A i \in Ranks :
       \/ pc[i] = "done"
       \/ pc[i] = "connect" /\ store[Current(i)[2]] = <<>>
       \/ pc[i] = "waiting" /\ ~ex[Current(i)] /\ state[Current(i)] = "CONNECTING"

(* Unless a connection was lost or a rank gave up, the ranks do not end up *)
(* waiting for each other, whatever the order in which their threads and   *)
(* the loop threads run: when all is quiet every rank has left             *)
(* connectFullMesh, and every pair is connected to its peer.               *)
MeshConnects ==
  Quiescent /\ (\A p \in Pairs : conn[p].stage # "lost") =>
    /\ \A i \in Ranks : pc[i] = "done"
    /\ \A p \in Pairs : state[p] = "CONNECTED" /\ fd[p] = fd[Peer(p)]

(* "State can only move forward, i.e. from initializing, to connected, to  *)
(* closed" (pair.h).                                                       *)
Place(s) == CHOOSE k \in 1 .. 4 : States[k] = s
StateMovesForward == [][\A p \in Pairs : Place(state[p]) \leq Place(state'[p])]_vars
=============================================================================
