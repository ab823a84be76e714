--------------------------- MODULE ConnectProofs ---------------------------
(***************************************************************************)
(* Proofs about connecting a full mesh, for any number of ranks, any       *)
(* placement of the ranks on devices and any faults: a pair only ever gets *)
(* the connection to its peer, and ranks that connect to each other in     *)
(* different orders never wait in a circle.  Before that the ranks on a    *)
(* host number themselves in the order of their global ranks, for any      *)
(* placement on hosts, when Store::get waits for the key.                  *)
(***************************************************************************)
EXTENDS FullMesh, FiniteSetTheorems, SequenceTheorems, WellFoundedInduction, TLAPS

(* Where the pair of rank i for rank j comes in the order of i.            *)
PlaceOf(i, j) == IF j > i THEN j ELSE j + 1

(* Both ranks of a pair have published their addresses, which no longer    *)
(* change.                                                                 *)
Ready(p) == pc[p[1]] # "create" /\ pc[p[2]] # "create"

Initiates(p) == IsInitiator(Local(p), Remote(p))

(* The connection that the pair p is to get.                               *)
OwnConnection(p) == IF Initiates(p) THEN p ELSE Peer(p)

-----------------------------------------------------------------------------
(* The first half of the inductive invariant: addresses and routing.       *)

(* A rank publishes the addresses of all its pairs, and no two pairs on a  *)
(* device have the same sequence number.                                   *)
Addresses ==
  /\ \A i \in Ranks :
       IF pc[i] = "create" THEN store[i] = <<>> /\ Len(allAddrs[i]) = cur[i] - 1
       ELSE store[i] = allAddrs[i] /\ Len(allAddrs[i]) = Size - 1
  /\ \A i \in Ranks : \A k \in DOMAIN allAddrs[i] : allAddrs[i][k] < seq[DeviceOf[i]]
  /\ \A i, j \in Ranks : \A k \in DOMAIN allAddrs[i], l \in DOMAIN allAddrs[j] :
       DeviceOf[i] = DeviceOf[j] /\ allAddrs[i][k] = allAddrs[j][l] => i = j /\ k = l

(* A thread that connects a pair has one to connect, and has found the     *)
(* addresses of its peer.                                                  *)
Threads ==
  \A i \in Ranks :
    /\ pc[i] \in {"connect", "device", "waiting"} => cur[i] < Size
    /\ pc[i] \in {"device", "waiting"} => pc[PeerAt(i, cur[i])] # "create"

(* Connections, parked callbacks and sockets, callbacks to be made and     *)
(* descriptors are all for the pair that they belong to.                   *)
ConnRight ==
  \A p \in Pairs : conn[p].stage # "none" =>
    /\ Ready(p) /\ Initiates(p)
    /\ conn[p].device = Remote(p).device /\ conn[p].seq = Remote(p).seq

CallbacksRight ==
  \A d \in Devices : \A x \in seqToCallback[d] :
    /\ Ready(x[2]) /\ ~Initiates(x[2])
    /\ Local(x[2]).device = d /\ Local(x[2]).seq = x[1]

SocketsRight ==
  \A d \in Devices : \A x \in seqToSocket[d] :
    /\ Ready(x[2]) /\ Initiates(x[2])
    /\ Remote(x[2]).device = d /\ Remote(x[2]).seq = x[1]

CallRight(cb) == Ready(cb.pair) /\ cb.socket = OwnConnection(cb.pair)

CallsRight ==
  \A d \in Devices :
    /\ \A k \in DOMAIN deferred[d] : CallRight(deferred[d][k])
    /\ loop[d] # Idle => CallRight(loop[d])

DescriptorsRight ==
  \A p \in Pairs : fd[p] # NoFd => Ready(p) /\ fd[p] = OwnConnection(p)

Routing ==
  /\ ConnRight /\ CallbacksRight /\ SocketsRight /\ CallsRight /\ DescriptorsRight

RouteInv == TypeOK /\ Addresses /\ Threads /\ Routing

-----------------------------------------------------------------------------
(* The second half: nothing on the way to a pair is lost.                  *)

(* Pair::connect was called for p: p's thread is beyond the call.          *)
Called(p) ==
  LET i == p[1] IN
  /\ pc[i] # "create"
  /\ \/ cur[i] > PlaceOf(i, p[2])
     \/ cur[i] = PlaceOf(i, p[2]) /\ pc[i] \notin {"connect", "device"}

(* ... and did not throw on the way.                                       *)
Started(p) ==
  LET i == p[1] IN
  /\ pc[i] # "create"
  /\ \/ cur[i] > PlaceOf(i, p[2])
     \/ cur[i] = PlaceOf(i, p[2]) /\ pc[i] = "waiting"

(* Pair::connect is only called once the peer has published its addresses. *)
StartedReady == \A p \in Pairs : Started(p) => Ready(p)

Settled(p) == state[p] \in {"CONNECTED", "CLOSED"}

(* A callback with the connection of c is about to be made to p.           *)
IsCall(cb, p, c) == cb.pair = p /\ cb.socket = c /\ ~cb.error

ToBeCalled(d, p, c) ==
  \/ \E k \in DOMAIN deferred[d] : IsCall(deferred[d][k], p, c)
  \/ loop[d] # Idle /\ IsCall(loop[d], p, c)

(* Only pairs that were told to connect dial, wait or are called back.     *)
OnlyCalled ==
  /\ \A p \in Pairs : conn[p].stage # "none" => Called(p)
  /\ \A d \in Devices :
       /\ \A x \in seqToCallback[d] : Called(x[2])
       /\ \A k \in DOMAIN deferred[d] : Called(deferred[d][k].pair) /\ ~deferred[d][k].error
       /\ loop[d] # Idle => Called(loop[d].pair)
       /\ loop[d] # Idle /\ loop[d].error => conn[loop[d].pair].stage = "lost"

(* How the state of a pair goes with what its thread does.                 *)
StatesRight ==
  \A p \in Pairs :
    /\ pc[p[1]] # "gone" /\ ~Called(p) => ~Settled(p)
    /\ pc[p[1]] # "create" /\ cur[p[1]] > PlaceOf(p[1], p[2]) => Settled(p)
    /\ pc[p[1]] = "gone" => state[p] = "CLOSED"
    /\ pc[p[1]] = "done" => cur[p[1]] = Size
    /\ state[p] = "CONNECTED" => fd[p] # NoFd

(* A callback and the connection it waits for are never both parked.       *)
NotBothParked ==
  \A d \in Devices : \A x \in seqToCallback[d], y \in seqToSocket[d] : x[1] # y[1]

(* A pair that dialled has a connection, which reaches the pair itself ... *)
DialledArrives ==
  \A p \in Pairs :
    /\ Started(p) /\ Initiates(p) => conn[p].stage # "none"
    /\ conn[p].stage \in {"written", "routed"} =>
         ToBeCalled(PairDevice(p), p, p) \/ Settled(p)

(* ... and, once its sequence number was read, the peer or the listener;   *)
(* a pair that waits is known to the listener until it is called back.     *)
AwaitedArrives ==
  \A p \in Pairs :
    LET d == Local(p).device
        s == Local(p).seq
    IN
    /\ conn[Peer(p)].stage = "routed" =>
         <<s, Peer(p)>> \in seqToSocket[d] \/ ToBeCalled(d, p, Peer(p)) \/ Settled(p)
    /\ Started(p) /\ ~Initiates(p) =>
         <<s, p>> \in seqToCallback[d] \/ ToBeCalled(d, p, Peer(p)) \/ Settled(p)

(* No pair is closed unless a connection was lost or a rank gave up.       *)
GaveUp ==
  (\E i \in Ranks : pc[i] \in {"threw", "gone"}) \/ (\E p \in Pairs : conn[p].stage = "lost")
ClosedForAReason ==
  \A p \in Pairs : state[p] = "CLOSED" \/ ex[p] \/ p \in shut => GaveUp

MeshInv ==
  /\ RouteInv /\ StartedReady /\ OnlyCalled /\ StatesRight /\ NotBothParked /\ DialledArrives
  /\ AwaitedArrives /\ ClosedForAReason

-----------------------------------------------------------------------------
(* Places in the order of a rank.                                          *)
LEMMA Places ==
  ASSUME NEW i \in Ranks
  PROVE  /\ \A k \in 1 .. Size - 1 :
              /\ PeerAt(i, k) \in Ranks \ {i}
              /\ PlaceOf(i, PeerAt(i, k)) = k
         /\ \A j \in Ranks \ {i} :
              /\ PlaceOf(i, j) \in 1 .. Size - 1
              /\ PeerAt(i, PlaceOf(i, j)) = j
              /\ \A l \in Ranks \ {i} : PlaceOf(i, j) < PlaceOf(i, l) => j < l
BY SizeAssumption DEF PeerAt, PlaceOf, Ranks

LEMMA PairsArePairs ==
  /\ \A p \in Pairs : /\ p[1] \in Ranks /\ p[2] \in Ranks /\ p[1] # p[2]
                      /\ p = <<p[1], p[2]>>
                      /\ Peer(p) \in Pairs /\ Peer(Peer(p)) = p
                      /\ Peer(p)[1] = p[2] /\ Peer(p)[2] = p[1]
                      /\ PairDevice(p) \in Devices
  /\ \A i, j \in Ranks : i # j => <<i, j>> \in Pairs
  /\ NoFd \notin Pairs
BY DeviceAssumption DEF Pairs, Peer, PairDevice, NoFd

(* The two ends of a pair see the same addresses, different ones, and no   *)
(* other pair has them.                                                    *)
LEMMA AddressOfReady ==
  ASSUME TypeOK, Addresses, NEW p \in Pairs, Ready(p)
  PROVE  /\ Ready(Peer(p))
         /\ PlaceOf(p[1], p[2]) \in DOMAIN allAddrs[p[1]]
         /\ Local(p) = [device |-> DeviceOf[p[1]], seq |-> allAddrs[p[1]][PlaceOf(p[1], p[2])]]
         /\ Remote(p) = Local(Peer(p))
         /\ Local(p).seq \in Nat /\ Local(p).device \in Devices
<1>1. /\ p[1] \in Ranks /\ p[2] \in Ranks /\ p[1] # p[2]
      /\ Peer(p)[1] = p[2] /\ Peer(p)[2] = p[1] /\ Peer(p) \in Pairs
  BY PairsArePairs
<1>2. PlaceOf(p[1], p[2]) \in 1 .. Size - 1 /\ PlaceOf(p[2], p[1]) \in 1 .. Size - 1
  BY <1>1, Places
<1>3. /\ store[p[1]] = allAddrs[p[1]] /\ Len(allAddrs[p[1]]) = Size - 1
      /\ store[p[2]] = allAddrs[p[2]] /\ Len(allAddrs[p[2]]) = Size - 1
  BY <1>1 DEF Addresses, Ready
<1>4. allAddrs[p[1]] \in Seq(Nat) /\ allAddrs[p[2]] \in Seq(Nat)
  BY <1>1 DEF TypeOK
<1>5. PlaceOf(p[1], p[2]) \in DOMAIN allAddrs[p[1]]
  BY <1>2, <1>3, <1>4
<1>6. Local(p) = [device |-> DeviceOf[p[1]], seq |-> allAddrs[p[1]][PlaceOf(p[1], p[2])]]
  BY DEF Local, PairDevice, ExtractAddress, PlaceOf
<1>7. Remote(p) = Local(Peer(p))
  BY <1>1, <1>3 DEF Local, Remote, PairDevice, ExtractAddress
<1>8. DeviceOf[p[1]] \in Devices
  BY <1>1, DeviceAssumption
<1>9. allAddrs[p[1]][PlaceOf(p[1], p[2])] \in Nat
  BY <1>4, <1>5
<1> QED
  BY <1>1, <1>5, <1>6, <1>7, <1>8, <1>9 DEF Ready

LEMMA AddressesDiffer ==
  ASSUME TypeOK, Addresses, NEW p \in Pairs, NEW q \in Pairs, Ready(p), Ready(q),
         Local(p).device = Local(q).device, Local(p).seq = Local(q).seq
  PROVE  p = q
<1>1. /\ p[1] \in Ranks /\ p[2] \in Ranks /\ p[1] # p[2] /\ p = <<p[1], p[2]>>
      /\ q[1] \in Ranks /\ q[2] \in Ranks /\ q[1] # q[2] /\ q = <<q[1], q[2]>>
  BY PairsArePairs
<1> DEFINE k == PlaceOf(p[1], p[2])
           l == PlaceOf(q[1], q[2])
<1>2. k \in DOMAIN allAddrs[p[1]] /\ l \in DOMAIN allAddrs[q[1]]
  BY AddressOfReady
<1>3. Local(p) = [device |-> DeviceOf[p[1]], seq |-> allAddrs[p[1]][k]]
  BY AddressOfReady
<1>4. Local(q) = [device |-> DeviceOf[q[1]], seq |-> allAddrs[q[1]][l]]
  BY AddressOfReady
<1>5. PeerAt(p[1], k) = p[2] /\ PeerAt(q[1], l) = q[2]
  BY <1>1, Places
<1> HIDE DEF k, l
<1>6. DeviceOf[p[1]] = DeviceOf[q[1]] /\ allAddrs[p[1]][k] = allAddrs[q[1]][l]
  BY <1>3, <1>4
<1>7. p[1] = q[1] /\ k = l
  BY <1>1, <1>2, <1>6 DEF Addresses
<1> QED
  BY <1>1, <1>5, <1>7

(* Exactly one end of a pair initiates.                                    *)
LEMMA OneInitiates ==
  ASSUME TypeOK, Addresses, NEW p \in Pairs, Ready(p)
  PROVE  Initiates(Peer(p)) <=> ~Initiates(p)
<1> DEFINE q == Peer(p)
<1>1. q \in Pairs /\ p # q /\ Peer(q) = p
  BY PairsArePairs
<1>2. Ready(q) /\ Remote(p) = Local(q)
  BY AddressOfReady
<1>3. Remote(q) = Local(p)
  BY <1>1, <1>2, AddressOfReady
<1>4. /\ Local(p).device \in Devices /\ Local(q).device \in Devices
      /\ Local(p).seq \in Nat /\ Local(q).seq \in Nat
  BY <1>1, <1>2, AddressOfReady
<1>5. ~(Local(p).device = Local(q).device /\ Local(p).seq = Local(q).seq)
  BY <1>1, <1>2, AddressesDiffer
<1>6. /\ AddressOf[Local(p).device] \in Nat /\ AddressOf[Local(q).device] \in Nat
      /\ AddressOf[Local(p).device] = AddressOf[Local(q).device]
           => Local(p).device = Local(q).device
  BY <1>4, DeviceAssumption
<1> HIDE DEF q
<1> QED
  BY <1>2, <1>3, <1>4, <1>5, <1>6 DEF Initiates, IsInitiator, q

-----------------------------------------------------------------------------
LEMMA InitRoute == Init => RouteInv
<1> SUFFICES ASSUME Init PROVE RouteInv
  OBVIOUS
<1> USE SizeAssumption, DeviceAssumption DEF Init
<1>1. TypeOK
  <2>1. pc \in [Ranks -> {"create", "connect", "device", "waiting", "done", "threw", "gone"}]
    OBVIOUS
  <2>2. cur \in [Ranks -> 1 .. Size] /\ seq \in [Devices -> Nat]
    OBVIOUS
  <2>3. allAddrs \in [Ranks -> Seq(Nat)] /\ store \in [Ranks -> Seq(Nat)]
    OBVIOUS
  <2>4. state \in [Pairs -> {States[k] : k \in 1 .. 4}]
    BY DEF States
  <2>5. ex \in [Pairs -> BOOLEAN] /\ fd \in [Pairs -> Pairs \cup {NoFd}]
    OBVIOUS
  <2>6. conn \in [Pairs -> [stage : Stages, device : Devices, seq : Nat]]
    BY PairsArePairs DEF Stages
  <2>7. /\ seqToCallback \in [Devices -> SUBSET (Nat \X Pairs)]
        /\ seqToSocket \in [Devices -> SUBSET (Nat \X Pairs)]
    OBVIOUS
  <2>8. deferred \in [Devices -> Seq(Callback)] /\ loop \in [Devices -> Callback \cup {Idle}]
    OBVIOUS
  <2>9. shut \subseteq Pairs /\ dangling \subseteq Pairs /\ aborted \subseteq Devices
    OBVIOUS
  <2> QED
    BY <2>1, <2>2, <2>3, <2>4, <2>5, <2>6, <2>7, <2>8, <2>9 DEF TypeOK
<1>2. Addresses /\ Threads
  BY DEF Addresses, Threads
<1>3. Routing
  BY DEF Routing, ConnRight, CallbacksRight, SocketsRight, CallsRight, DescriptorsRight
<1> QED
  BY <1>1, <1>2, <1>3 DEF RouteInv

(* The pair a thread works on.                                             *)
LEMMA CurrentPair ==
  ASSUME TypeOK, Threads, NEW i \in Ranks, pc[i] \in {"connect", "device", "waiting"}
  PROVE  /\ cur[i] \in 1 .. Size - 1
         /\ Current(i) \in Pairs /\ Current(i)[1] = i /\ Current(i)[2] = PeerAt(i, cur[i])
         /\ PlaceOf(i, Current(i)[2]) = cur[i]
<1>1. cur[i] \in 1 .. Size - 1
  BY SizeAssumption DEF TypeOK, Threads
<1>2. PeerAt(i, cur[i]) \in Ranks \ {i} /\ PlaceOf(i, PeerAt(i, cur[i])) = cur[i]
  BY <1>1, Places
<1> QED
  BY <1>1, <1>2, PairsArePairs DEF Current

LEMMA SignalExceptionTypes ==
  ASSUME TypeOK, NEW p \in Pairs, SignalException(p)
  PROVE  /\ state' \in [Pairs -> {States[k] : k \in 1 .. 4}]
         /\ ex' \in [Pairs -> BOOLEAN]
         /\ fd' \in [Pairs -> Pairs \cup {NoFd}]
         /\ shut' \subseteq Pairs /\ dangling' \subseteq Pairs
BY DEF TypeOK, SignalException, States

(* The disjuncts of Next, each with what all of them leave unchanged.      *)
LEMMA Actions ==
  ASSUME Next
  PROVE  \/ \E i \in Ranks :
              /\ UNCHANGED aborted
              /\ \/ CreatePair(i) \/ Publish(i) \/ PairConnect(i) \/ StoreTimeout(i)
                 \/ DeviceConnect(i) \/ Connected(i) \/ ConnectTimeout(i) \/ Unwind(i)
         \/ \E d \in Devices :
              /\ UNCHANGED aborted
              /\ \/ \E p \in Pairs : WriteSeq(d, p) \/ ReadSeq(d, p) \/ HandleEof(d, p)
                 \/ RunDeferred(d) \/ ConnectCallback(d) \/ DanglingCallback(d)
         \/ \E d \in Devices : EnforceFails(d)
BY DEF Next, Rank, LoopThread

LEMMA CallbackTypes ==
  /\ Idle \notin Callback
  /\ \A p, c \in Pairs, e \in BOOLEAN : [pair |-> p, socket |-> c, error |-> e] \in Callback
  /\ \A cb \in Callback : cb.pair \in Pairs /\ cb.socket \in Pairs /\ cb.error \in BOOLEAN
BY PairsArePairs DEF Callback, Idle

LEMMA StateTypes ==
  {States[k] : k \in 1 .. 4} = {"INITIALIZING", "CONNECTING", "CONNECTED", "CLOSED"}
BY DEF States

(* A connection moves to another stage.                                    *)
LEMMA StageTypes ==
  ASSUME TypeOK, NEW p \in Pairs, NEW s \in Stages, conn' = [conn EXCEPT ![p].stage = s]
  PROVE  /\ conn' \in [Pairs -> [stage : Stages, device : Devices, seq : Nat]]
         /\ \A q \in Pairs :
              /\ conn'[q].device = conn[q].device /\ conn'[q].seq = conn[q].seq
              /\ conn'[q].stage = IF q = p THEN s ELSE conn[q].stage
<1>1. conn \in [Pairs -> [stage : Stages, device : Devices, seq : Nat]]
  BY DEF TypeOK
<1>2. conn' = [conn EXCEPT ![p] = [@ EXCEPT !.stage = s]]
  OBVIOUS
<1>3. [conn[p] EXCEPT !.stage = s] = [stage |-> s, device |-> conn[p].device, seq |-> conn[p].seq]
  BY <1>1
<1> QED
  BY <1>1, <1>2, <1>3

LEMMA ParkedTypes ==
  ASSUME TypeOK, NEW d \in Devices
  PROVE  /\ \A x \in seqToCallback[d] : x[1] \in Nat /\ x[2] \in Pairs /\ x = <<x[1], x[2]>>
         /\ \A x \in seqToSocket[d] : x[1] \in Nat /\ x[2] \in Pairs /\ x = <<x[1], x[2]>>
         /\ \A s \in Nat, p \in Pairs :
              /\ seqToCallback[d] \cup {<<s, p>>} \in SUBSET (Nat \X Pairs)
              /\ seqToSocket[d] \cup {<<s, p>>} \in SUBSET (Nat \X Pairs)
         /\ \A x : /\ seqToCallback[d] \ {x} \in SUBSET (Nat \X Pairs)
                  /\ seqToSocket[d] \ {x} \in SUBSET (Nat \X Pairs)
<1>1. seqToCallback[d] \in SUBSET (Nat \X Pairs) /\ seqToSocket[d] \in SUBSET (Nat \X Pairs)
  BY DEF TypeOK
<1> QED
  BY <1>1

LEMMA TypeStep ==
  ASSUME RouteInv, [Next]_vars
  PROVE  TypeOK'
<1> USE SizeAssumption, DeviceAssumption
<1>0. TypeOK /\ Threads /\ Routing /\ Addresses
  BY DEF RouteInv
<1>1. CASE UNCHANGED vars
  BY <1>0, <1>1 DEF TypeOK, vars, thread, addresses, pair, listener
<1>2. ASSUME NEW i \in Ranks, CreatePair(i), UNCHANGED aborted PROVE TypeOK'
  <2>1. /\ seq[DeviceOf[i]] \in Nat /\ allAddrs[i] \in Seq(Nat) /\ DeviceOf[i] \in Devices
        /\ cur[i] + 1 \in 1 .. Size
    BY <1>0, <1>2 DEF TypeOK, CreatePair
  <2>2. Append(allAddrs[i], seq[DeviceOf[i]]) \in Seq(Nat)
    BY <2>1
  <2>3. allAddrs' \in [Ranks -> Seq(Nat)] /\ seq' \in [Devices -> Nat] /\ cur' \in [Ranks -> 1 .. Size]
    BY <1>0, <1>2, <2>1, <2>2 DEF TypeOK, CreatePair
  <2> QED
    BY <1>0, <1>2, <2>3 DEF TypeOK, CreatePair, pair, listener
<1>3. ASSUME NEW i \in Ranks, Publish(i), UNCHANGED aborted PROVE TypeOK'
  <2>1. store' \in [Ranks -> Seq(Nat)]
    BY <1>0, <1>3 DEF TypeOK, Publish
  <2>2. /\ pc' \in [Ranks -> {"create", "connect", "device", "waiting", "done", "threw", "gone"}]
        /\ cur' \in [Ranks -> 1 .. Size]
    BY <1>0, <1>3 DEF TypeOK, Publish
  <2> QED
    BY <1>0, <1>3, <2>1, <2>2 DEF TypeOK, Publish, pair, listener
<1>4. ASSUME NEW i \in Ranks, PairConnect(i), UNCHANGED aborted PROVE TypeOK'
  <2>1. Current(i) \in Pairs
    BY <1>0, <1>4, CurrentPair DEF PairConnect
  <2>2. state' \in [Pairs -> {States[k] : k \in 1 .. 4}]
    BY <1>0, <1>4, <2>1, StateTypes DEF TypeOK, PairConnect
  <2> QED
    BY <1>0, <1>4, <2>2 DEF TypeOK, PairConnect, addresses, listener
<1>5. ASSUME NEW i \in Ranks, StoreTimeout(i), UNCHANGED aborted PROVE TypeOK'
  BY <1>0, <1>5 DEF TypeOK, StoreTimeout, addresses, pair, listener
<1>6. ASSUME NEW i \in Ranks, DeviceConnect(i), UNCHANGED aborted PROVE TypeOK'
  <2> DEFINE p == Current(i)
  <2>1. p \in Pairs /\ Ready(p)
    BY <1>0, <1>6, CurrentPair DEF DeviceConnect, Ready, Threads
  <2>2. /\ Local(p).seq \in Nat /\ Local(p).device \in Devices
        /\ Remote(p).seq \in Nat /\ Remote(p).device \in Devices
    BY <1>0, <2>1, AddressOfReady, PairsArePairs
  <2>3. conn' \in [Pairs -> [stage : Stages, device : Devices, seq : Nat]]
    <3>1. \A q \in Pairs : [stage |-> "connecting", device |-> Remote(p).device, seq |-> Remote(p).seq]
                             \in [stage : Stages, device : Devices, seq : Nat]
      BY <2>2 DEF Stages
    <3>2. conn \in [Pairs -> [stage : Stages, device : Devices, seq : Nat]]
      BY <1>0 DEF TypeOK
    <3>3. \/ conn' = conn
          \/ conn' = [conn EXCEPT ![p] = [stage |-> "connecting",
                        device |-> Remote(p).device, seq |-> Remote(p).seq]]
      BY <1>6 DEF DeviceConnect
    <3> HIDE DEF p
    <3> QED
      BY <2>1, <3>1, <3>2, <3>3
  <2>4. /\ seqToCallback' \in [Devices -> SUBSET (Nat \X Pairs)]
        /\ seqToSocket' \in [Devices -> SUBSET (Nat \X Pairs)]
        /\ deferred' \in [Devices -> Seq(Callback)]
    <3> DEFINE d == Local(p).device
               s == Local(p).seq
    <3>1. CASE UNCHANGED listener
      BY <1>0, <3>1 DEF TypeOK, listener
    <3>2. CASE WaitForConnection(p, d, s)
      <4> HIDE DEF d, s, p
      <4>1. CASE seqToCallback' = [seqToCallback EXCEPT ![d] = @ \cup {<<s, p>>}]
                 /\ UNCHANGED <<seqToSocket, deferred>>
        <5>1. d \in Devices /\ s \in Nat
          BY <2>2 DEF d, s
        <5>2. seqToCallback[d] \cup {<<s, p>>} \in SUBSET (Nat \X Pairs)
          BY <1>0, <2>1, <5>1, ParkedTypes
        <5> QED
          BY <1>0, <4>1, <5>1, <5>2 DEF TypeOK
      <4>2. ASSUME NEW x \in seqToSocket[d],
                   seqToSocket' = [seqToSocket EXCEPT ![d] = @ \ {x}],
                   deferred' = [deferred EXCEPT ![d] =
                     Append(@, [pair |-> p, socket |-> x[2], error |-> FALSE])],
                   UNCHANGED seqToCallback
            PROVE  /\ seqToCallback' \in [Devices -> SUBSET (Nat \X Pairs)]
                   /\ seqToSocket' \in [Devices -> SUBSET (Nat \X Pairs)]
                   /\ deferred' \in [Devices -> Seq(Callback)]
        <5>0. d \in Devices
          BY <2>2 DEF d
        <5>1. x[2] \in Pairs /\ seqToSocket[d] \ {x} \in SUBSET (Nat \X Pairs)
          BY <1>0, <5>0, ParkedTypes
        <5>2. [pair |-> p, socket |-> x[2], error |-> FALSE] \in Callback
          BY <2>1, <5>1, CallbackTypes
        <5>3. deferred[d] \in Seq(Callback)
          BY <1>0, <5>0 DEF TypeOK
        <5>4. Append(deferred[d], [pair |-> p, socket |-> x[2], error |-> FALSE]) \in Seq(Callback)
          BY <5>2, <5>3
        <5>5. seqToSocket' \in [Devices -> SUBSET (Nat \X Pairs)]
          BY <1>0, <4>2, <5>1 DEF TypeOK
        <5> QED
          BY <1>0, <4>2, <5>4, <5>5 DEF TypeOK
      <4> QED
        BY <3>2, <4>1, <4>2 DEF WaitForConnection
    <3> QED
      BY <1>6, <3>1, <3>2 DEF DeviceConnect
  <2> QED
    BY <1>0, <1>6, <2>3, <2>4 DEF TypeOK, DeviceConnect, addresses, pair
<1>7. ASSUME NEW i \in Ranks, Connected(i), UNCHANGED aborted PROVE TypeOK'
  <2>1. cur[i] \in 1 .. Size - 1
    BY <1>0, <1>7, CurrentPair DEF Connected
  <2>2. cur' \in [Ranks -> 1 .. Size]
    <3>1. cur' = cur \/ cur' = [cur EXCEPT ![i] = @ + 1]
      BY <1>7 DEF Connected
    <3>2. cur \in [Ranks -> 1 .. Size]
      BY <1>0 DEF TypeOK
    <3> QED
      BY <2>1, <3>1, <3>2
  <2> QED
    BY <1>0, <1>7, <2>2 DEF TypeOK, Connected, addresses, pair, listener
<1>8. ASSUME NEW i \in Ranks, ConnectTimeout(i), UNCHANGED aborted PROVE TypeOK'
  <2>1. Current(i) \in Pairs
    BY <1>0, <1>8, CurrentPair DEF ConnectTimeout
  <2> QED
    BY <1>0, <1>8, <2>1, SignalExceptionTypes DEF TypeOK, ConnectTimeout, addresses, listener
<1>9. ASSUME NEW i \in Ranks, Unwind(i), UNCHANGED aborted PROVE TypeOK'
  <2>1. state' \in [Pairs -> {States[k] : k \in 1 .. 4}]
    BY <1>0, <1>9 DEF TypeOK, Unwind, States
  <2> QED
    BY <1>0, <1>9, <2>1 DEF TypeOK, Unwind, addresses, listener
<1>10. ASSUME NEW d \in Devices, NEW p \in Pairs, WriteSeq(d, p), UNCHANGED aborted PROVE TypeOK'
  <2>1. PICK failed \in {FALSE} \cup {"io" \in Faults} :
          /\ conn' = [conn EXCEPT ![p].stage = IF failed THEN "lost" ELSE "written"]
          /\ loop' = [loop EXCEPT ![d] = [pair |-> p, socket |-> p, error |-> failed]]
    BY <1>10 DEF WriteSeq
  <2>2. failed \in BOOLEAN
    <3>1. failed = FALSE \/ failed = ("io" \in Faults)
      OBVIOUS
    <3>2. ("io" \in Faults) = TRUE \/ ("io" \in Faults) = FALSE
      OBVIOUS
    <3> QED
      BY <3>1, <3>2, Zenon
  <2>3. loop' \in [Devices -> Callback \cup {Idle}]
    BY <1>0, <2>1, <2>2, CallbackTypes DEF TypeOK
  <2>4. conn' \in [Pairs -> [stage : Stages, device : Devices, seq : Nat]]
    <3>1. (IF failed THEN "lost" ELSE "written") \in Stages
      BY <2>2 DEF Stages
    <3> QED
      BY <1>0, <2>1, <3>1, StageTypes
  <2> QED
    BY <1>0, <1>10, <2>3, <2>4 DEF TypeOK, WriteSeq, thread, addresses, pair, listener
<1>11. ASSUME NEW d \in Devices, NEW c \in Pairs, ReadSeq(d, c), UNCHANGED aborted PROVE TypeOK'
  <2>1. conn' \in [Pairs -> [stage : Stages, device : Devices, seq : Nat]]
    BY <1>0, <1>11, StageTypes DEF ReadSeq, Stages
  <2>2. conn[c].seq \in Nat
    BY <1>0 DEF TypeOK
  <2>3. /\ seqToCallback' \in [Devices -> SUBSET (Nat \X Pairs)]
        /\ seqToSocket' \in [Devices -> SUBSET (Nat \X Pairs)]
        /\ deferred' \in [Devices -> Seq(Callback)]
        /\ loop' \in [Devices -> Callback \cup {Idle}]
    <3>1. CASE UNCHANGED <<listener, loop>>
      BY <1>0, <3>1 DEF TypeOK, listener
    <3>2. CASE HaveConnection(c, d, conn[c].seq)
      <4>1. \A x \in seqToCallback[d] : [pair |-> x[2], socket |-> c, error |-> FALSE] \in Callback
        BY <1>0, CallbackTypes, ParkedTypes
      <4>2. CASE /\ seqToSocket' = [seqToSocket EXCEPT ![d] = @ \cup {<<conn[c].seq, c>>}]
                 /\ UNCHANGED <<seqToCallback, deferred, loop>>
        BY <1>0, <2>2, <4>2, SMTT(30) DEF TypeOK
      <4>3. ASSUME NEW x \in seqToCallback[d],
                   seqToCallback' = [seqToCallback EXCEPT ![d] = @ \ {x}],
                   loop' = [loop EXCEPT ![d] = [pair |-> x[2], socket |-> c, error |-> FALSE]],
                   UNCHANGED <<seqToSocket, deferred>>
            PROVE  /\ seqToCallback' \in [Devices -> SUBSET (Nat \X Pairs)]
                   /\ seqToSocket' \in [Devices -> SUBSET (Nat \X Pairs)]
                   /\ deferred' \in [Devices -> Seq(Callback)]
                   /\ loop' \in [Devices -> Callback \cup {Idle}]
        BY <1>0, <4>1, <4>3 DEF TypeOK
      <4> QED
        BY <3>2, <4>2, <4>3 DEF HaveConnection
    <3> QED
      BY <1>11, <3>1, <3>2 DEF ReadSeq
  <2> QED
    BY <1>0, <1>11, <2>1, <2>3 DEF TypeOK, ReadSeq, thread, addresses, pair
<1>12. ASSUME NEW d \in Devices, NEW p \in Pairs, HandleEof(d, p), UNCHANGED aborted PROVE TypeOK'
  BY <1>0, <1>12, SignalExceptionTypes DEF TypeOK, HandleEof, thread, addresses, listener
<1>13. ASSUME NEW d \in Devices, RunDeferred(d), UNCHANGED aborted PROVE TypeOK'
  <2>1. Head(deferred[d]) \in Callback /\ Tail(deferred[d]) \in Seq(Callback)
    BY <1>0, <1>13 DEF TypeOK, RunDeferred
  <2> QED
    BY <1>0, <1>13, <2>1 DEF TypeOK, RunDeferred, thread, addresses, pair
<1>14. ASSUME NEW d \in Devices, ConnectCallback(d), UNCHANGED aborted PROVE TypeOK'
  <2>1. loop[d] \in Callback
    BY <1>0, <1>14 DEF TypeOK, ConnectCallback
  <2>2. loop[d].pair \in Pairs /\ loop[d].socket \in Pairs
    BY <2>1, CallbackTypes
  <2>3. loop' \in [Devices -> Callback \cup {Idle}]
    BY <1>0, <1>14 DEF TypeOK, ConnectCallback
  <2>4. /\ state' \in [Pairs -> {States[k] : k \in 1 .. 4}]
        /\ ex' \in [Pairs -> BOOLEAN]
        /\ fd' \in [Pairs -> Pairs \cup {NoFd}]
        /\ shut' \subseteq Pairs /\ dangling' \subseteq Pairs
    <3>1. CASE SignalException(loop[d].pair)
      BY <1>0, <2>2, <3>1, SignalExceptionTypes
    <3>2. CASE /\ fd' = [fd EXCEPT ![loop[d].pair] = loop[d].socket]
               /\ state' = [state EXCEPT ![loop[d].pair] = "CONNECTED"]
               /\ UNCHANGED <<ex, shut, dangling>>
      <4>1. "CONNECTED" \in {States[k] : k \in 1 .. 4}
        BY DEF States
      <4> QED
        BY <1>0, <2>2, <3>2, <4>1 DEF TypeOK
    <3> QED
      BY <1>14, <3>1, <3>2 DEF ConnectCallback
  <2> QED
    BY <1>0, <1>14, <2>3, <2>4 DEF TypeOK, ConnectCallback, thread, addresses, listener
<1>15. ASSUME NEW d \in Devices, DanglingCallback(d), UNCHANGED aborted PROVE TypeOK'
  <2>1. loop[d].pair \in Pairs
    BY <1>0, <1>15, CallbackTypes DEF TypeOK, DanglingCallback
  <2> QED
    BY <1>0, <1>15, <2>1 DEF TypeOK, DanglingCallback, thread, addresses, listener
<1>16. ASSUME NEW d \in Devices, EnforceFails(d) PROVE TypeOK'
  BY <1>0, <1>16 DEF TypeOK, EnforceFails, thread, addresses, pair, listener
<1> QED
  BY <1>1, <1>2, <1>3, <1>4, <1>5, <1>6, <1>7, <1>8, <1>9, <1>10, <1>11, <1>12, <1>13, <1>14,
     <1>15, <1>16, Actions

(* Only CreatePair and Publish change addresses.                           *)
LEMMA Frozen ==
  ASSUME TypeOK, [Next]_vars
  PROVE  \/ \E i \in Ranks : CreatePair(i) \/ Publish(i)
         \/ /\ UNCHANGED addresses
            /\ \A i \in Ranks : /\ pc'[i] = "create" <=> pc[i] = "create"
                                /\ pc[i] = "create" => cur'[i] = cur[i]
<1> DEFINE Same == /\ UNCHANGED addresses
                   /\ \A i \in Ranks : /\ pc'[i] = "create" <=> pc[i] = "create"
                                       /\ pc[i] = "create" => cur'[i] = cur[i]
<1>1. CASE UNCHANGED vars
  BY <1>1 DEF vars, thread, addresses
<1>2. ASSUME NEW i \in Ranks,
             PairConnect(i) \/ StoreTimeout(i) \/ DeviceConnect(i) \/ ConnectTimeout(i) \/ Unwind(i)
      PROVE  Same
  <2>1. UNCHANGED <<cur, addresses>> /\ pc[i] # "create"
    BY <1>2 DEF PairConnect, StoreTimeout, DeviceConnect, ConnectTimeout, Unwind
  <2>2. \E s \in {"device", "threw", "waiting", "gone"} : pc' = [pc EXCEPT ![i] = s]
    BY <1>2 DEF PairConnect, StoreTimeout, DeviceConnect, ConnectTimeout, Unwind
  <2> QED
    BY <2>1, <2>2 DEF TypeOK, addresses
<1>3. ASSUME NEW i \in Ranks, Connected(i) PROVE Same
  <2>1. UNCHANGED addresses /\ pc[i] # "create"
    BY <1>3 DEF Connected
  <2>2. \E s \in {"threw", "done", "connect"} : pc' = [pc EXCEPT ![i] = s]
    BY <1>3 DEF Connected
  <2>3. cur' = cur \/ cur' = [cur EXCEPT ![i] = @ + 1]
    BY <1>3 DEF Connected
  <2> QED
    BY <2>1, <2>2, <2>3 DEF TypeOK, addresses
<1>4. ASSUME NEW d \in Devices,
             \/ \E p \in Pairs : WriteSeq(d, p) \/ ReadSeq(d, p) \/ HandleEof(d, p)
             \/ RunDeferred(d) \/ ConnectCallback(d) \/ DanglingCallback(d) \/ EnforceFails(d)
      PROVE  UNCHANGED <<thread, addresses>>
  BY <1>4 DEF WriteSeq, ReadSeq, HandleEof, RunDeferred, ConnectCallback, DanglingCallback,
              EnforceFails
<1>5. ASSUME UNCHANGED <<thread, addresses>> PROVE Same
  BY <1>5 DEF thread
<1> QED
  BY <1>1, <1>2, <1>3, <1>4, <1>5, Actions

LEMMA AddressStep ==
  ASSUME RouteInv, [Next]_vars
  PROVE  Addresses'
<1> USE SizeAssumption, DeviceAssumption
<1>0. TypeOK /\ Addresses
  BY DEF RouteInv
<1>1. ASSUME NEW i \in Ranks, CreatePair(i) PROVE Addresses'
  <2> DEFINE d == DeviceOf[i]
             n == Len(allAddrs[i])
  <2>1. allAddrs[i] \in Seq(Nat) /\ seq[d] \in Nat /\ d \in Devices /\ n = cur[i] - 1 /\ cur[i] \in Nat
    BY <1>0, <1>1 DEF TypeOK, Addresses, CreatePair
  <2>2. /\ allAddrs'[i] = Append(allAddrs[i], seq[d]) /\ cur'[i] = cur[i] + 1
        /\ \A j \in Ranks \ {i} : allAddrs'[j] = allAddrs[j] /\ cur'[j] = cur[j]
        /\ seq'[d] = seq[d] + 1 /\ \A e \in Devices \ {d} : seq'[e] = seq[e]
        /\ UNCHANGED <<pc, store>>
    BY <1>0, <1>1, <2>1 DEF TypeOK, CreatePair
  <2>3. /\ Len(allAddrs'[i]) = n + 1 /\ DOMAIN allAddrs'[i] = 1 .. n + 1 /\ allAddrs'[i][n + 1] = seq[d]
        /\ \A k \in 1 .. n : allAddrs'[i][k] = allAddrs[i][k]
        /\ n \in Nat /\ DOMAIN allAddrs[i] = 1 .. n
    BY <2>1, <2>2, SMTT(30)
  <2>4. \A j \in Ranks : \A k \in DOMAIN allAddrs[j] : allAddrs[j][k] < seq[DeviceOf[j]]
    BY <1>0 DEF Addresses
  <2>5. \A j \in Ranks : \A k \in DOMAIN allAddrs'[j] :
          \/ k \in DOMAIN allAddrs[j] /\ allAddrs'[j][k] = allAddrs[j][k]
          \/ j = i /\ k = n + 1 /\ allAddrs'[j][k] = seq[d]
    <3> HIDE DEF n, d
    <3>1. \A k \in DOMAIN allAddrs'[i] : k \in 1 .. n \/ k = n + 1
      BY <2>3
    <3> QED
      BY <2>2, <2>3, <3>1
  <2>6. \A j \in Ranks : DeviceOf[j] \in Devices /\ seq[DeviceOf[j]] \in Nat
    BY <1>0 DEF TypeOK
  <2>7. \A j \in Ranks : \A k \in DOMAIN allAddrs[j] : allAddrs[j][k] \in Nat
    BY <1>0, SMTT(30) DEF TypeOK
  <2>12. \A j, l \in Ranks : \A k \in DOMAIN allAddrs[j], m \in DOMAIN allAddrs[l] :
           DeviceOf[j] = DeviceOf[l] /\ allAddrs[j][k] = allAddrs[l][m] => j = l /\ k = m
    BY <1>0 DEF Addresses
  <2> HIDE DEF d, n
  <2>8. \A j \in Ranks : seq'[DeviceOf[j]] = IF DeviceOf[j] = d THEN seq[d] + 1 ELSE seq[DeviceOf[j]]
    BY <2>2, <2>6
  <2>9. \A j \in Ranks : \A k \in DOMAIN allAddrs'[j] : allAddrs'[j][k] < seq'[DeviceOf[j]]
    <3> SUFFICES ASSUME NEW j \in Ranks, NEW k \in DOMAIN allAddrs'[j]
                 PROVE  allAddrs'[j][k] < seq'[DeviceOf[j]]
      OBVIOUS
    <3>1. CASE k \in DOMAIN allAddrs[j] /\ allAddrs'[j][k] = allAddrs[j][k]
      <4>1. allAddrs[j][k] \in Nat /\ allAddrs[j][k] < seq[DeviceOf[j]]
        BY <2>4, <2>7, <3>1
      <4> QED
        BY <2>6, <2>8, <3>1, <4>1
    <3>2. CASE j = i /\ k = n + 1 /\ allAddrs'[j][k] = seq[d]
      BY <2>1, <2>2, <3>2 DEF d
    <3> QED
      BY <2>5, <3>1, <3>2
  <2>10. \A j, l \in Ranks : \A k \in DOMAIN allAddrs'[j], m \in DOMAIN allAddrs'[l] :
           DeviceOf[j] = DeviceOf[l] /\ allAddrs'[j][k] = allAddrs'[l][m] => j = l /\ k = m
    <3> SUFFICES ASSUME NEW j \in Ranks, NEW l \in Ranks,
                        NEW k \in DOMAIN allAddrs'[j], NEW m \in DOMAIN allAddrs'[l],
                        DeviceOf[j] = DeviceOf[l], allAddrs'[j][k] = allAddrs'[l][m]
                 PROVE  j = l /\ k = m
      OBVIOUS
    <3>1. CASE j = i /\ k = n + 1 /\ allAddrs'[j][k] = seq[d]
      <4>1. CASE m \in DOMAIN allAddrs[l] /\ allAddrs'[l][m] = allAddrs[l][m]
        <5>1. allAddrs[l][m] \in Nat /\ allAddrs[l][m] < seq[DeviceOf[l]] /\ DeviceOf[l] = d
          BY <2>4, <2>7, <3>1, <4>1 DEF d
        <5> QED
          BY <2>1, <3>1, <4>1, <5>1
      <4>2. CASE l = i /\ m = n + 1 /\ allAddrs'[l][m] = seq[d]
        BY <3>1, <4>2
      <4> QED
        BY <2>5, <4>1, <4>2
    <3>2. CASE k \in DOMAIN allAddrs[j] /\ allAddrs'[j][k] = allAddrs[j][k]
      <4>1. CASE l = i /\ m = n + 1 /\ allAddrs'[l][m] = seq[d]
        <5>1. allAddrs[j][k] \in Nat /\ allAddrs[j][k] < seq[DeviceOf[j]] /\ DeviceOf[j] = d
          BY <2>4, <2>7, <3>2, <4>1 DEF d
        <5>2. allAddrs[j][k] = seq[d]
          BY <3>2, <4>1, Zenon
        <5> QED
          BY <2>1, <5>1, <5>2
      <4>2. CASE m \in DOMAIN allAddrs[l] /\ allAddrs'[l][m] = allAddrs[l][m]
        <5>1. allAddrs[j][k] = allAddrs[l][m]
          BY <3>2, <4>2, Zenon
        <5> QED
          BY <2>12, <3>2, <4>2, <5>1
      <4> QED
        BY <2>5, <4>1, <4>2
    <3> QED
      BY <2>5, <3>1, <3>2
  <2>11. \A j \in Ranks :
           IF pc'[j] = "create" THEN store'[j] = <<>> /\ Len(allAddrs'[j]) = cur'[j] - 1
           ELSE store'[j] = allAddrs'[j] /\ Len(allAddrs'[j]) = Size - 1
    <3>1. pc[i] = "create"
      BY <1>1 DEF CreatePair
    <3>2. store[i] = <<>>
      BY <1>0, <3>1 DEF Addresses
    <3>3. Len(allAddrs'[i]) = cur'[i] - 1
      BY <2>1, <2>2, <2>3
    <3>4. \A j \in Ranks \ {i} :
            IF pc'[j] = "create" THEN store'[j] = <<>> /\ Len(allAddrs'[j]) = cur'[j] - 1
            ELSE store'[j] = allAddrs'[j] /\ Len(allAddrs'[j]) = Size - 1
      BY <1>0, <2>2 DEF Addresses
    <3> QED
      BY <2>2, <3>1, <3>2, <3>3, <3>4
  <2> QED
    BY <2>9, <2>10, <2>11 DEF Addresses
<1>2. ASSUME NEW i \in Ranks, Publish(i) PROVE Addresses'
  <2>1. /\ UNCHANGED <<allAddrs, seq>> /\ pc'[i] = "connect" /\ store'[i] = allAddrs[i]
        /\ pc[i] = "create" /\ cur[i] = Size
        /\ \A j \in Ranks \ {i} : pc'[j] = pc[j] /\ store'[j] = store[j] /\ cur'[j] = cur[j]
    BY <1>0, <1>2 DEF TypeOK, Publish
  <2> QED
    BY <1>0, <2>1 DEF Addresses
<1>3. CASE /\ UNCHANGED addresses
           /\ \A i \in Ranks : /\ pc'[i] = "create" <=> pc[i] = "create"
                               /\ pc[i] = "create" => cur'[i] = cur[i]
  BY <1>0, <1>3 DEF Addresses, addresses
<1> QED
  BY <1>0, <1>1, <1>2, <1>3, Frozen

LEMMA ThreadsStep ==
  ASSUME RouteInv, [Next]_vars
  PROVE  Threads'
<1> USE SizeAssumption, DeviceAssumption
<1>0. TypeOK /\ Addresses /\ Threads
  BY DEF RouteInv
<1>1. \A i \in Ranks : pc[i] # "create" => pc'[i] # "create"
  <2>1. ASSUME NEW i \in Ranks, CreatePair(i) \/ Publish(i)
        PROVE  UNCHANGED pc \/ pc' = [pc EXCEPT ![i] = "connect"]
    BY <2>1 DEF CreatePair, Publish
  <2> QED
    BY <1>0, <2>1, Frozen DEF TypeOK
<1>2. ASSUME NEW i \in Ranks, CreatePair(i) \/ Publish(i) PROVE Threads'
  <2>1. \A j \in Ranks \ {i} : pc'[j] = pc[j] /\ cur'[j] = cur[j]
    BY <1>0, <1>2 DEF TypeOK, CreatePair, Publish
  <2>2. pc'[i] = "create" \/ (pc'[i] = "connect" /\ cur'[i] = 1)
    BY <1>0, <1>2 DEF TypeOK, CreatePair, Publish
  <2>3. \A j \in Ranks : pc[j] \in {"connect", "device", "waiting"} => PeerAt(j, cur[j]) \in Ranks
    BY <1>0, CurrentPair, PairsArePairs
  <2> QED
    BY <1>0, <1>1, <2>1, <2>2, <2>3 DEF Threads
<1>3. ASSUME NEW i \in Ranks,
             PairConnect(i) \/ StoreTimeout(i) \/ DeviceConnect(i) \/ ConnectTimeout(i) \/ Unwind(i)
      PROVE  Threads'
  <2>1. cur' = cur /\ \A j \in Ranks \ {i} : pc'[j] = pc[j]
    BY <1>0, <1>3 DEF TypeOK, PairConnect, StoreTimeout, DeviceConnect, ConnectTimeout, Unwind
  <2>2. \/ PairConnect(i) /\ pc'[i] = "device"
        \/ pc[i] = "device" /\ pc'[i] = "waiting"
        \/ pc'[i] \in {"threw", "gone"}
    BY <1>0, <1>3 DEF TypeOK, PairConnect, StoreTimeout, DeviceConnect, ConnectTimeout, Unwind
  <2>3. \A j \in Ranks : pc[j] \in {"connect", "device", "waiting"} => PeerAt(j, cur[j]) \in Ranks
    BY <1>0, CurrentPair, PairsArePairs
  <2>4. ASSUME PairConnect(i) PROVE pc[PeerAt(i, cur[i])] # "create" /\ pc[i] = "connect"
    <3>1. pc[i] = "connect" /\ store[PeerAt(i, cur[i])] # <<>>
      BY <1>0, <2>4, CurrentPair DEF PairConnect
    <3> QED
      BY <1>0, <2>3, <3>1 DEF Addresses
  <2> QED
    BY <1>0, <1>1, <2>1, <2>2, <2>3, <2>4 DEF Threads
<1>4. ASSUME NEW i \in Ranks, Connected(i) PROVE Threads'
  <2>1. \A j \in Ranks \ {i} : pc'[j] = pc[j] /\ cur'[j] = cur[j]
    BY <1>0, <1>4 DEF TypeOK, Connected
  <2>2. \/ pc'[i] \in {"threw", "done"}
        \/ pc'[i] = "connect" /\ cur'[i] = cur[i] + 1 /\ cur[i] + 1 # Size
    BY <1>0, <1>4 DEF TypeOK, Connected
  <2>3. \A j \in Ranks : pc[j] \in {"connect", "device", "waiting"} => PeerAt(j, cur[j]) \in Ranks
    BY <1>0, CurrentPair, PairsArePairs
  <2>4. cur[i] \in 1 .. Size - 1
    BY <1>0, <1>4, CurrentPair DEF Connected
  <2> QED
    BY <1>0, <1>1, <2>1, <2>2, <2>3, <2>4 DEF Threads
<1>5. ASSUME UNCHANGED thread PROVE Threads'
  BY <1>0, <1>5 DEF Threads, thread
<1>6. ASSUME NEW d \in Devices,
             \/ \E p \in Pairs : WriteSeq(d, p) \/ ReadSeq(d, p) \/ HandleEof(d, p)
             \/ RunDeferred(d) \/ ConnectCallback(d) \/ DanglingCallback(d) \/ EnforceFails(d)
      PROVE  UNCHANGED thread
  BY <1>6 DEF WriteSeq, ReadSeq, HandleEof, RunDeferred, ConnectCallback, DanglingCallback,
              EnforceFails
<1>7. CASE UNCHANGED vars
  BY <1>5, <1>7 DEF vars
<1> QED
  BY <1>2, <1>3, <1>4, <1>5, <1>6, <1>7, Actions

(* Addresses that are published no longer change.                          *)
LEMMA Stable ==
  ASSUME RouteInv, [Next]_vars, NEW p \in Pairs, Ready(p)
  PROVE  /\ Ready(p)' /\ Local(p)' = Local(p) /\ Remote(p)' = Remote(p)
         /\ Initiates(p)' <=> Initiates(p)
         /\ OwnConnection(p)' = OwnConnection(p)
<1>0. TypeOK
  BY DEF RouteInv
<1>1. p[1] \in Ranks /\ p[2] \in Ranks
  BY PairsArePairs
<1>2. /\ pc'[p[1]] # "create" /\ pc'[p[2]] # "create"
      /\ allAddrs'[p[1]] = allAddrs[p[1]] /\ store'[p[2]] = store[p[2]]
  <2>1. ASSUME NEW i \in Ranks, CreatePair(i)
        PROVE  /\ pc[i] = "create" /\ pc' = pc /\ store' = store
               /\ \A j \in Ranks \ {i} : allAddrs'[j] = allAddrs[j]
    BY <1>0, <2>1 DEF TypeOK, CreatePair
  <2>2. ASSUME NEW i \in Ranks, Publish(i)
        PROVE  /\ pc[i] = "create" /\ allAddrs' = allAddrs
               /\ \A j \in Ranks \ {i} : pc'[j] = pc[j] /\ store'[j] = store[j]
    BY <1>0, <2>2 DEF TypeOK, Publish
  <2> QED
    BY <1>0, <1>1, <2>1, <2>2, Frozen DEF Ready, addresses
<1>3. Ready(p)'
  BY <1>2 DEF Ready
<1>4. Local(p)' = Local(p)
  BY <1>2 DEF Local
<1>5. Remote(p)' = Remote(p)
  BY <1>2 DEF Remote
<1>6. Initiates(p)' <=> Initiates(p)
  BY <1>4, <1>5 DEF Initiates, IsInitiator
<1> QED
  BY <1>3, <1>4, <1>5, <1>6 DEF OwnConnection

(* A connection and a pair that meet at a listener belong together.        *)
LEMMA Meeting ==
  ASSUME TypeOK, Addresses, NEW p \in Pairs, NEW c \in Pairs, Ready(p), Ready(c),
         Remote(c).device = Local(p).device, Remote(c).seq = Local(p).seq
  PROVE  p = Peer(c) /\ c = Peer(p)
<1>1. Peer(c) \in Pairs /\ Peer(Peer(c)) = c
  BY PairsArePairs
<1>2. Ready(Peer(c)) /\ Remote(c) = Local(Peer(c))
  BY AddressOfReady
<1>3. p = Peer(c)
  BY <1>1, <1>2, AddressesDiffer
<1> QED
  BY <1>1, <1>3

(* What Device::connect does: dial, park the callback, or take the         *)
(* connection that the listener holds, which is the one from the peer.     *)
LEMMA DeviceConnectEffect ==
  ASSUME RouteInv, NEW i \in Ranks, DeviceConnect(i), NEW p, p = Current(i),
         NEW d, d = Local(p).device, NEW s, s = Local(p).seq
  PROVE  /\ p \in Pairs /\ Ready(p) /\ pc[i] = "device" /\ p[1] = i
         /\ d \in Devices /\ s \in Nat
         /\ \/ /\ Initiates(p)
               /\ conn' = [conn EXCEPT ![p] = [stage |-> "connecting",
                             device |-> Remote(p).device, seq |-> Remote(p).seq]]
               /\ UNCHANGED listener
            \/ /\ ~Initiates(p)
               /\ \A x \in seqToSocket[d] : x[1] # s
               /\ seqToCallback' = [seqToCallback EXCEPT ![d] = @ \cup {<<s, p>>}]
               /\ UNCHANGED <<conn, seqToSocket, deferred>>
            \/ /\ ~Initiates(p)
               /\ <<s, Peer(p)>> \in seqToSocket[d]
               /\ seqToSocket' = [seqToSocket EXCEPT ![d] = @ \ {<<s, Peer(p)>>}]
               /\ deferred' = [deferred EXCEPT ![d] =
                    Append(@, [pair |-> p, socket |-> Peer(p), error |-> FALSE])]
               /\ UNCHANGED <<conn, seqToCallback>>
<1>0. TypeOK /\ Addresses /\ Threads /\ SocketsRight
  BY DEF RouteInv, Routing
<1>1. p \in Pairs /\ Ready(p) /\ pc[i] = "device" /\ p[1] = i
  BY <1>0, CurrentPair DEF DeviceConnect, Ready, Threads
<1>2. d \in Devices /\ s \in Nat
  BY <1>0, <1>1, AddressOfReady
<1>3. CASE /\ Initiates(p)
           /\ conn' = [conn EXCEPT ![p] = [stage |-> "connecting",
                         device |-> Remote(p).device, seq |-> Remote(p).seq]]
           /\ UNCHANGED listener
  BY <1>1, <1>2, <1>3
<1>4. CASE ~Initiates(p) /\ WaitForConnection(p, d, s) /\ UNCHANGED conn
  <2>1. ASSUME NEW x \in seqToSocket[d], x[1] = s
        PROVE  x = <<s, Peer(p)>>
    <3>1. x[2] \in Pairs /\ x = <<x[1], x[2]>>
      BY <1>0, <1>2, ParkedTypes
    <3>2. Ready(x[2]) /\ Remote(x[2]).device = d /\ Remote(x[2]).seq = x[1]
      BY <1>0, <1>2 DEF SocketsRight
    <3>3. x[2] = Peer(p)
      BY <1>0, <1>1, <2>1, <3>1, <3>2, Meeting
    <3> QED
      BY <2>1, <3>1, <3>3
  <2>2. CASE /\ \A x \in seqToSocket[d] : x[1] # s
             /\ seqToCallback' = [seqToCallback EXCEPT ![d] = @ \cup {<<s, p>>}]
             /\ UNCHANGED <<seqToSocket, deferred>>
    BY <1>1, <1>2, <1>4, <2>2
  <2>3. ASSUME NEW x \in seqToSocket[d], x[1] = s,
               seqToSocket' = [seqToSocket EXCEPT ![d] = @ \ {x}],
               deferred' = [deferred EXCEPT ![d] =
                 Append(@, [pair |-> p, socket |-> x[2], error |-> FALSE])],
               UNCHANGED seqToCallback
        PROVE  /\ <<s, Peer(p)>> \in seqToSocket[d]
               /\ seqToSocket' = [seqToSocket EXCEPT ![d] = @ \ {<<s, Peer(p)>>}]
               /\ deferred' = [deferred EXCEPT ![d] =
                    Append(@, [pair |-> p, socket |-> Peer(p), error |-> FALSE])]
               /\ UNCHANGED <<conn, seqToCallback>>
    <3>1. x = <<s, Peer(p)>>
      BY <2>1, <2>3
    <3>2. x[2] = Peer(p)
      BY <3>1
    <3> QED
      BY <1>4, <2>3, <3>1, <3>2
  <2> QED
    BY <1>1, <1>2, <1>4, <2>2, <2>3 DEF WaitForConnection
<1> QED
  BY <1>3, <1>4 DEF DeviceConnect, Initiates

(* What ReadValueOperation does with the connection c for the pair p: lose *)
(* it, park it, or hand it to the pair that waits, which is p.             *)
LEMMA ReadSeqEffect ==
  ASSUME RouteInv, NEW d \in Devices, NEW c \in Pairs, ReadSeq(d, c), NEW p, p = Peer(c),
         NEW s, s = Local(p).seq
  PROVE  /\ p \in Pairs /\ Ready(p) /\ ~Initiates(p) /\ c = Peer(p) /\ s \in Nat
         /\ conn[c].stage = "written" /\ d = Local(p).device /\ loop[d] = Idle
         /\ \/ conn' = [conn EXCEPT ![c].stage = "lost"] /\ UNCHANGED <<listener, loop>>
            \/ /\ conn' = [conn EXCEPT ![c].stage = "routed"]
               /\ \A x \in seqToCallback[d] : x[1] # s
               /\ seqToSocket' = [seqToSocket EXCEPT ![d] = @ \cup {<<s, c>>}]
               /\ UNCHANGED <<seqToCallback, deferred, loop>>
            \/ /\ conn' = [conn EXCEPT ![c].stage = "routed"]
               /\ <<s, p>> \in seqToCallback[d]
               /\ seqToCallback' = [seqToCallback EXCEPT ![d] = @ \ {<<s, p>>}]
               /\ loop' = [loop EXCEPT ![d] = [pair |-> p, socket |-> c, error |-> FALSE]]
               /\ UNCHANGED <<seqToSocket, deferred>>
<1>0. TypeOK /\ Addresses /\ ConnRight /\ CallbacksRight
  BY DEF RouteInv, Routing
<1>1. conn[c].stage = "written" /\ conn[c].device = d /\ loop[d] = Idle
  BY DEF ReadSeq
<1>2. Ready(c) /\ Initiates(c) /\ Remote(c).device = d /\ Remote(c).seq = conn[c].seq
  BY <1>0, <1>1 DEF ConnRight
<1>3. p \in Pairs /\ c = Peer(p)
  BY PairsArePairs
<1>4. Ready(p) /\ Remote(c) = Local(p)
  BY <1>0, <1>2, AddressOfReady
<1>5. ~Initiates(p)
  BY <1>0, <1>2, OneInitiates
<1>6. s \in Nat /\ s = conn[c].seq /\ d = Local(p).device
  BY <1>0, <1>2, <1>3, <1>4, AddressOfReady
<1>7. CASE conn' = [conn EXCEPT ![c].stage = "lost"] /\ UNCHANGED <<listener, loop>>
  BY <1>1, <1>3, <1>4, <1>5, <1>6, <1>7
<1>8. CASE conn' = [conn EXCEPT ![c].stage = "routed"] /\ HaveConnection(c, d, s)
  <2>1. ASSUME NEW x \in seqToCallback[d], x[1] = s
        PROVE  x = <<s, p>>
    <3>1. x[2] \in Pairs /\ x = <<x[1], x[2]>>
      BY <1>0, ParkedTypes
    <3>2. Ready(x[2]) /\ Local(x[2]).device = d /\ Local(x[2]).seq = x[1]
      BY <1>0 DEF CallbacksRight
    <3>3. x[2] = p
      BY <1>0, <1>2, <1>6, <2>1, <3>1, <3>2, Meeting
    <3> QED
      BY <2>1, <3>1, <3>3
  <2>2. CASE /\ \A x \in seqToCallback[d] : x[1] # s
             /\ seqToSocket' = [seqToSocket EXCEPT ![d] = @ \cup {<<s, c>>}]
             /\ UNCHANGED <<seqToCallback, deferred, loop>>
    BY <1>1, <1>3, <1>4, <1>5, <1>6, <1>8, <2>2
  <2>3. ASSUME NEW x \in seqToCallback[d], x[1] = s,
               seqToCallback' = [seqToCallback EXCEPT ![d] = @ \ {x}],
               loop' = [loop EXCEPT ![d] = [pair |-> x[2], socket |-> c, error |-> FALSE]],
               UNCHANGED <<seqToSocket, deferred>>
        PROVE  /\ <<s, p>> \in seqToCallback[d]
               /\ seqToCallback' = [seqToCallback EXCEPT ![d] = @ \ {<<s, p>>}]
               /\ loop' = [loop EXCEPT ![d] = [pair |-> p, socket |-> c, error |-> FALSE]]
               /\ UNCHANGED <<seqToSocket, deferred>>
    <3>1. x = <<s, p>>
      BY <2>1, <2>3
    <3>2. x[2] = p
      BY <3>1
    <3> QED
      BY <2>3, <3>1, <3>2
  <2> QED
    BY <1>1, <1>3, <1>4, <1>5, <1>6, <1>8, <2>2, <2>3 DEF HaveConnection
<1> QED
  BY <1>6, <1>7, <1>8 DEF ReadSeq

(* The steps that hand connections on; all others only close descriptors.  *)
LEMMA Handing ==
  ASSUME RouteInv, [Next]_vars
  PROVE  \/ \E i \in Ranks : DeviceConnect(i) /\ UNCHANGED <<fd, loop>>
         \/ \E d \in Devices, p \in Pairs : WriteSeq(d, p) /\ UNCHANGED <<fd, listener>>
         \/ \E d \in Devices, p \in Pairs : ReadSeq(d, p) /\ UNCHANGED fd
         \/ \E d \in Devices : RunDeferred(d) /\ UNCHANGED fd
         \/ \E d \in Devices :
              /\ loop[d] # Idle
              /\ \/ fd' = fd
                 \/ fd' = [fd EXCEPT ![loop[d].pair] = NoFd]
                 \/ fd' = [fd EXCEPT ![loop[d].pair] = loop[d].socket]
              /\ loop' = [loop EXCEPT ![d] = Idle]
              /\ UNCHANGED <<conn, listener>>
         \/ /\ UNCHANGED <<conn, listener, loop>>
            /\ \A p \in Pairs : fd'[p] \in {fd[p], NoFd}
<1>0. TypeOK /\ Threads
  BY DEF RouteInv
<1>1. CASE UNCHANGED vars
  BY <1>1 DEF vars, pair
<1>2. ASSUME NEW i \in Ranks, DeviceConnect(i) PROVE UNCHANGED <<fd, loop>>
  BY <1>2 DEF DeviceConnect, pair
<1>3. ASSUME NEW i \in Ranks,
             CreatePair(i) \/ Publish(i) \/ PairConnect(i) \/ StoreTimeout(i) \/ Connected(i)
      PROVE  UNCHANGED <<conn, listener, loop, fd>>
  BY <1>3 DEF CreatePair, Publish, PairConnect, StoreTimeout, Connected, pair
<1>4. ASSUME NEW i \in Ranks, ConnectTimeout(i) \/ Unwind(i)
      PROVE  UNCHANGED <<conn, listener, loop>> /\ \A p \in Pairs : fd'[p] \in {fd[p], NoFd}
  BY <1>0, <1>4 DEF TypeOK, ConnectTimeout, Unwind, SignalException
<1>5. ASSUME NEW d \in Devices, NEW p \in Pairs, WriteSeq(d, p)
      PROVE  UNCHANGED <<fd, listener>>
  BY <1>5 DEF WriteSeq, pair
<1>6. ASSUME NEW d \in Devices, NEW p \in Pairs, ReadSeq(d, p) PROVE UNCHANGED fd
  BY <1>6 DEF ReadSeq, pair
<1>7. ASSUME NEW d \in Devices, NEW p \in Pairs, HandleEof(d, p)
      PROVE  UNCHANGED <<conn, listener, loop>> /\ \A q \in Pairs : fd'[q] \in {fd[q], NoFd}
  BY <1>0, <1>7 DEF TypeOK, HandleEof, SignalException
<1>8. ASSUME NEW d \in Devices, RunDeferred(d) PROVE UNCHANGED fd
  BY <1>8 DEF RunDeferred, pair
<1>9. ASSUME NEW d \in Devices, ConnectCallback(d) \/ DanglingCallback(d)
      PROVE  /\ loop[d] # Idle
             /\ \/ fd' = fd
                \/ fd' = [fd EXCEPT ![loop[d].pair] = NoFd]
                \/ fd' = [fd EXCEPT ![loop[d].pair] = loop[d].socket]
             /\ loop' = [loop EXCEPT ![d] = Idle]
             /\ UNCHANGED <<conn, listener>>
  BY <1>9 DEF ConnectCallback, DanglingCallback, SignalException
<1>10. ASSUME NEW d \in Devices, EnforceFails(d) PROVE UNCHANGED <<conn, listener, loop, fd>>
  BY <1>10 DEF EnforceFails, pair
<1> QED
  BY <1>1, <1>2, <1>3, <1>4, <1>5, <1>6, <1>7, <1>8, <1>9, <1>10, Actions

LEMMA RoutingStep ==
  ASSUME RouteInv, [Next]_vars
  PROVE  Routing'
<1>0. /\ TypeOK /\ Addresses /\ Threads
      /\ ConnRight /\ CallbacksRight /\ SocketsRight /\ CallsRight /\ DescriptorsRight
  BY DEF RouteInv, Routing
<1>1. ASSUME UNCHANGED conn PROVE ConnRight'
  BY <1>0, <1>1, Stable DEF ConnRight
<1>2. ASSUME UNCHANGED seqToCallback PROVE CallbacksRight'
  BY <1>0, <1>2, Stable, ParkedTypes DEF CallbacksRight
<1>3. ASSUME UNCHANGED seqToSocket PROVE SocketsRight'
  BY <1>0, <1>3, Stable, ParkedTypes DEF SocketsRight
<1>4. ASSUME NEW cb \in Callback, CallRight(cb) PROVE CallRight(cb)'
  BY <1>4, Stable, CallbackTypes DEF CallRight
<1>5. \A d \in Devices :
        /\ \A k \in DOMAIN deferred[d] : deferred[d][k] \in Callback /\ CallRight(deferred[d][k])
        /\ loop[d] # Idle => loop[d] \in Callback /\ CallRight(loop[d])
  BY <1>0 DEF TypeOK, CallsRight
<1>6. ASSUME UNCHANGED <<deferred, loop>> PROVE CallsRight'
  BY <1>4, <1>5, <1>6 DEF CallsRight
<1>7. ASSUME \A p \in Pairs : fd'[p] \in {fd[p], NoFd} PROVE DescriptorsRight'
  BY <1>0, <1>7, Stable DEF DescriptorsRight
<1>8. ASSUME UNCHANGED fd PROVE DescriptorsRight'
  BY <1>7, <1>8
<1>9. ASSUME NEW i \in Ranks, DeviceConnect(i), UNCHANGED <<fd, loop>> PROVE Routing'
  <2>0. PICK p, d, s : p = Current(i) /\ d = Local(p).device /\ s = Local(p).seq
    OBVIOUS
  <2>1. p \in Pairs /\ Ready(p) /\ d \in Devices /\ s \in Nat
    BY <1>9, <2>0, DeviceConnectEffect
  <2>2. /\ Ready(p)' /\ Local(p)' = Local(p) /\ Remote(p)' = Remote(p)
        /\ Initiates(p)' <=> Initiates(p)
        /\ OwnConnection(p)' = OwnConnection(p)
    BY <2>1, Stable
  <2>3. \/ /\ Initiates(p)
           /\ conn' = [conn EXCEPT ![p] = [stage |-> "connecting",
                         device |-> Remote(p).device, seq |-> Remote(p).seq]]
           /\ UNCHANGED listener
        \/ /\ ~Initiates(p)
           /\ \A x \in seqToSocket[d] : x[1] # s
           /\ seqToCallback' = [seqToCallback EXCEPT ![d] = @ \cup {<<s, p>>}]
           /\ UNCHANGED <<conn, seqToSocket, deferred>>
        \/ /\ ~Initiates(p)
           /\ <<s, Peer(p)>> \in seqToSocket[d]
           /\ seqToSocket' = [seqToSocket EXCEPT ![d] = @ \ {<<s, Peer(p)>>}]
           /\ deferred' = [deferred EXCEPT ![d] =
                Append(@, [pair |-> p, socket |-> Peer(p), error |-> FALSE])]
           /\ UNCHANGED <<conn, seqToCallback>>
    BY <1>9, <2>0, DeviceConnectEffect, SMTT(30)
  <2>4. CASE /\ Initiates(p)
             /\ conn' = [conn EXCEPT ![p] = [stage |-> "connecting",
                         device |-> Remote(p).device, seq |-> Remote(p).seq]]
             /\ UNCHANGED listener
    <3>1. /\ conn'[p].device = Remote(p).device /\ conn'[p].seq = Remote(p).seq
          /\ \A q \in Pairs \ {p} : conn'[q] = conn[q]
      BY <1>0, <2>1, <2>4 DEF TypeOK
    <3>2. ConnRight'
      BY <1>0, <2>1, <2>2, <2>4, <3>1, Stable DEF ConnRight
    <3> QED
      BY <1>2, <1>3, <1>6, <1>8, <1>9, <2>4, <3>2 DEF Routing, listener
  <2>5. CASE /\ ~Initiates(p)
             /\ seqToCallback' = [seqToCallback EXCEPT ![d] = @ \cup {<<s, p>>}]
             /\ UNCHANGED <<conn, seqToSocket, deferred>>
    <3>1. \A e \in Devices : \A x \in seqToCallback'[e] :
            x \in seqToCallback[e] \/ (e = d /\ x = <<s, p>>)
      BY <1>0, <2>5 DEF TypeOK
    <3>2. CallbacksRight'
      <4> SUFFICES ASSUME NEW e \in Devices, NEW x \in seqToCallback'[e]
                   PROVE  /\ Ready(x[2])' /\ ~Initiates(x[2])'
                          /\ Local(x[2])'.device = e /\ Local(x[2])'.seq = x[1]
        BY DEF CallbacksRight
      <4>1. CASE x \in seqToCallback[e]
        <5>1. x[2] \in Pairs
          BY <1>0, <4>1, ParkedTypes
        <5>2. /\ Ready(x[2]) /\ ~Initiates(x[2])
              /\ Local(x[2]).device = e /\ Local(x[2]).seq = x[1]
          BY <1>0, <4>1 DEF CallbacksRight
        <5> QED
          BY <5>1, <5>2, Stable
      <4>2. CASE e = d /\ x = <<s, p>>
        <5>1. x[2] = p /\ x[1] = s
          BY <4>2
        <5>2. ~Initiates(p)' /\ Local(p)'.device = d /\ Local(p)'.seq = s
          BY <2>0, <2>2, <2>5
        <5> QED
          BY <2>2, <4>2, <5>1, <5>2
      <4> QED
        BY <3>1, <4>1, <4>2
    <3> QED
      BY <1>1, <1>3, <1>6, <1>8, <1>9, <2>5, <3>2 DEF Routing
  <2>6. CASE /\ ~Initiates(p)
             /\ seqToSocket' = [seqToSocket EXCEPT ![d] = @ \ {<<s, Peer(p)>>}]
             /\ deferred' = [deferred EXCEPT ![d] =
                  Append(@, [pair |-> p, socket |-> Peer(p), error |-> FALSE])]
             /\ UNCHANGED <<conn, seqToCallback>>
    <3> DEFINE cb == [pair |-> p, socket |-> Peer(p), error |-> FALSE]
    <3>1. \A e \in Devices : seqToSocket'[e] \subseteq seqToSocket[e]
      BY <1>0, <2>6 DEF TypeOK
    <3>2. SocketsRight'
      BY <1>0, <3>1, Stable, ParkedTypes DEF SocketsRight
    <3>3. cb \in Callback /\ CallRight(cb)
      BY <2>1, <2>6, PairsArePairs, CallbackTypes DEF CallRight, OwnConnection
    <3>4. deferred[d] \in Seq(Callback) /\ deferred'[d] = Append(deferred[d], cb)
      BY <1>0, <2>1, <2>6 DEF TypeOK
    <3> HIDE DEF cb
    <3>5. \A k \in DOMAIN deferred'[d] :
            \/ deferred'[d][k] = cb
            \/ k \in DOMAIN deferred[d] /\ deferred'[d][k] = deferred[d][k]
      BY <3>4
    <3>6. \A e \in Devices \ {d} : deferred'[e] = deferred[e]
      BY <1>0, <2>6 DEF TypeOK
    <3>7. CallsRight'
      BY <1>4, <1>5, <1>9, <3>3, <3>5, <3>6 DEF CallsRight
    <3> QED
      BY <1>1, <1>2, <1>8, <1>9, <2>6, <3>2, <3>7 DEF Routing
  <2> QED
    BY <2>3, <2>4, <2>5, <2>6
<1>10. ASSUME NEW d \in Devices, NEW p \in Pairs, WriteSeq(d, p), UNCHANGED <<fd, listener>>
       PROVE  Routing'
  <2>1. PICK failed \in {FALSE} \cup {"io" \in Faults} :
          /\ conn' = [conn EXCEPT ![p].stage = IF failed THEN "lost" ELSE "written"]
          /\ loop' = [loop EXCEPT ![d] = [pair |-> p, socket |-> p, error |-> failed]]
    BY <1>10 DEF WriteSeq
  <2>2. conn[p].stage = "connecting"
    BY <1>10 DEF WriteSeq
  <2>3. \A q \in Pairs : /\ conn'[q].device = conn[q].device /\ conn'[q].seq = conn[q].seq
                         /\ conn'[q].stage # "none" => conn[q].stage # "none"
    BY <1>0, <2>1, <2>2, StageTypes DEF Stages
  <2>4. ConnRight'
    BY <1>0, <2>3, Stable DEF ConnRight
  <2>5. Ready(p) /\ OwnConnection(p) = p
    BY <1>0, <2>2 DEF ConnRight, OwnConnection
  <2>6. CallRight(loop[d])' /\ \A e \in Devices \ {d} : loop'[e] = loop[e]
    <3>1. /\ loop'[d].pair = p /\ loop'[d].socket = p
          /\ \A e \in Devices \ {d} : loop'[e] = loop[e]
      BY <1>0, <2>1 DEF TypeOK
    <3> QED
      BY <2>5, <3>1, Stable DEF CallRight
  <2>7. CallsRight'
    BY <1>4, <1>5, <1>10, <2>6 DEF CallsRight, listener
  <2> QED
    BY <1>2, <1>3, <1>8, <1>10, <2>4, <2>7 DEF Routing, listener
<1>11. ASSUME NEW d \in Devices, NEW c \in Pairs, ReadSeq(d, c), UNCHANGED fd PROVE Routing'
  <2>0. PICK p, s : p = Peer(c) /\ s = Local(p).seq
    OBVIOUS
  <2>1. /\ p \in Pairs /\ Ready(p) /\ ~Initiates(p) /\ c = Peer(p) /\ s \in Nat
        /\ conn[c].stage = "written" /\ d = Local(p).device /\ loop[d] = Idle
        /\ \/ conn' = [conn EXCEPT ![c].stage = "lost"] /\ UNCHANGED <<listener, loop>>
           \/ /\ conn' = [conn EXCEPT ![c].stage = "routed"]
              /\ \A x \in seqToCallback[d] : x[1] # s
              /\ seqToSocket' = [seqToSocket EXCEPT ![d] = @ \cup {<<s, c>>}]
              /\ UNCHANGED <<seqToCallback, deferred, loop>>
           \/ /\ conn' = [conn EXCEPT ![c].stage = "routed"]
              /\ <<s, p>> \in seqToCallback[d]
              /\ seqToCallback' = [seqToCallback EXCEPT ![d] = @ \ {<<s, p>>}]
              /\ loop' = [loop EXCEPT ![d] = [pair |-> p, socket |-> c, error |-> FALSE]]
              /\ UNCHANGED <<seqToSocket, deferred>>
    BY <1>11, <2>0, ReadSeqEffect
  <2>2. \A q \in Pairs : /\ conn'[q].device = conn[q].device /\ conn'[q].seq = conn[q].seq
                         /\ conn'[q].stage # "none" => conn[q].stage # "none"
    BY <1>0, <2>1, StageTypes DEF Stages
  <2>3. ConnRight'
    BY <1>0, <2>2, Stable DEF ConnRight
  <2>4. CASE UNCHANGED <<listener, loop>>
    BY <1>2, <1>3, <1>6, <1>8, <1>11, <2>3, <2>4 DEF Routing, listener
  <2>5. CASE /\ seqToSocket' = [seqToSocket EXCEPT ![d] = @ \cup {<<s, c>>}]
             /\ UNCHANGED <<seqToCallback, deferred, loop>>
    <3>1. \A e \in Devices : \A x \in seqToSocket'[e] :
            x \in seqToSocket[e] \/ (e = d /\ x = <<s, c>>)
      BY <1>0, <2>5 DEF TypeOK
    <3>2. SocketsRight'
      <4> SUFFICES ASSUME NEW e \in Devices, NEW x \in seqToSocket'[e]
                   PROVE  /\ Ready(x[2])' /\ Initiates(x[2])'
                          /\ Remote(x[2])'.device = e /\ Remote(x[2])'.seq = x[1]
        BY DEF SocketsRight
      <4>1. CASE x \in seqToSocket[e]
        <5>1. x[2] \in Pairs
          BY <1>0, <4>1, ParkedTypes
        <5>2. /\ Ready(x[2]) /\ Initiates(x[2])
              /\ Remote(x[2]).device = e /\ Remote(x[2]).seq = x[1]
          BY <1>0, <4>1 DEF SocketsRight
        <5> QED
          BY <5>1, <5>2, Stable
      <4>2. CASE e = d /\ x = <<s, c>>
        <5>1. x[2] = c /\ x[1] = s
          BY <4>2
        <5>2. Ready(c) /\ Initiates(c)
          BY <1>0, <2>1 DEF ConnRight
        <5>3. Remote(c).device = d /\ Remote(c).seq = s
          BY <1>0, <2>0, <2>1, <5>2, AddressOfReady
        <5> QED
          BY <4>2, <5>1, <5>2, <5>3, Stable
      <4> QED
        BY <3>1, <4>1, <4>2
    <3> QED
      BY <1>2, <1>6, <1>8, <1>11, <2>3, <2>5, <3>2 DEF Routing
  <2>6. CASE /\ seqToCallback' = [seqToCallback EXCEPT ![d] = @ \ {<<s, p>>}]
             /\ loop' = [loop EXCEPT ![d] = [pair |-> p, socket |-> c, error |-> FALSE]]
             /\ UNCHANGED <<seqToSocket, deferred>>
    <3>1. \A e \in Devices : seqToCallback'[e] \subseteq seqToCallback[e]
      BY <1>0, <2>6 DEF TypeOK
    <3>2. CallbacksRight'
      BY <1>0, <3>1, Stable, ParkedTypes DEF CallbacksRight
    <3>3. /\ loop'[d].pair = p /\ loop'[d].socket = c
          /\ \A e \in Devices \ {d} : loop'[e] = loop[e]
      BY <1>0, <2>6 DEF TypeOK
    <3>4. OwnConnection(p) = c
      BY <2>1 DEF OwnConnection
    <3>5. CallRight(loop[d])'
      BY <2>1, <3>3, <3>4, Stable DEF CallRight
    <3>6. CallsRight'
      BY <1>4, <1>5, <2>6, <3>3, <3>5 DEF CallsRight
    <3> QED
      BY <1>3, <1>8, <1>11, <2>3, <2>6, <3>2, <3>6 DEF Routing
  <2> QED
    BY <2>1, <2>4, <2>5, <2>6
<1>12. ASSUME NEW d \in Devices, RunDeferred(d), UNCHANGED fd PROVE Routing'
  <2>1. /\ deferred[d] # <<>> /\ deferred[d] \in Seq(Callback)
        /\ loop'[d] = Head(deferred[d]) /\ deferred'[d] = Tail(deferred[d])
        /\ \A e \in Devices \ {d} : loop'[e] = loop[e] /\ deferred'[e] = deferred[e]
        /\ UNCHANGED <<conn, seqToCallback, seqToSocket>>
    BY <1>0, <1>12 DEF TypeOK, RunDeferred
  <2>2. 1 \in DOMAIN deferred[d] /\ loop'[d] = deferred[d][1]
    BY <2>1
  <2>3. \A k \in DOMAIN deferred'[d] :
          k + 1 \in DOMAIN deferred[d] /\ deferred'[d][k] = deferred[d][k + 1]
    BY <2>1
  <2>4. CallsRight'
    <3>1. CallRight(loop[d])'
      BY <1>4, <1>5, <2>2
    <3>2. \A k \in DOMAIN deferred'[d] : CallRight(deferred[d][k])'
      BY <1>4, <1>5, <2>3
    <3>3. \A e \in Devices \ {d} :
            /\ \A k \in DOMAIN deferred'[e] : CallRight(deferred[e][k])'
            /\ loop'[e] # Idle => CallRight(loop[e])'
      BY <1>4, <1>5, <2>1
    <3> QED
      BY <3>1, <3>2, <3>3 DEF CallsRight
  <2> QED
    BY <1>1, <1>2, <1>3, <1>8, <1>12, <2>1, <2>4 DEF Routing
<1>13. ASSUME NEW d \in Devices, loop[d] # Idle,
              \/ fd' = fd
              \/ fd' = [fd EXCEPT ![loop[d].pair] = NoFd]
              \/ fd' = [fd EXCEPT ![loop[d].pair] = loop[d].socket],
              loop' = [loop EXCEPT ![d] = Idle], UNCHANGED <<conn, listener>>
       PROVE  Routing'
  <2>1. loop'[d] = Idle /\ \A e \in Devices \ {d} : loop'[e] = loop[e]
    BY <1>0, <1>13 DEF TypeOK
  <2>2. CallsRight'
    BY <1>4, <1>5, <1>13, <2>1 DEF CallsRight, listener
  <2>3. loop[d].pair \in Pairs /\ Ready(loop[d].pair) /\ loop[d].socket = OwnConnection(loop[d].pair)
    BY <1>5, <1>13, CallbackTypes DEF CallRight
  <2>4. \A q \in Pairs : \/ fd'[q] \in {fd[q], NoFd}
                         \/ q = loop[d].pair /\ fd'[q] = loop[d].socket
    BY <1>0, <1>13 DEF TypeOK
  <2>5. DescriptorsRight'
    BY <1>0, <2>3, <2>4, Stable DEF DescriptorsRight
  <2> QED
    BY <1>1, <1>2, <1>3, <1>13, <2>2, <2>5 DEF Routing, listener
<1>14. ASSUME UNCHANGED <<conn, listener, loop>>, \A p \in Pairs : fd'[p] \in {fd[p], NoFd}
       PROVE  Routing'
  BY <1>1, <1>2, <1>3, <1>6, <1>7, <1>14 DEF Routing, listener
<1> QED
  BY <1>9, <1>10, <1>11, <1>12, <1>13, <1>14, Handing

(* RouteInv is inductive.                                                  *)
LEMMA RouteStep ==
  ASSUME RouteInv, [Next]_vars
  PROVE  RouteInv'
BY TypeStep, AddressStep, ThreadsStep, RoutingStep DEF RouteInv

(* Whatever the placement of the ranks, the order in which their threads   *)
(* and the loop threads run, and whatever fails: a descriptor that         *)
(* Pair::connectCallback hands to a pair is an end of the connection       *)
(* between that pair and its peer.                                         *)
THEOREM ConnectRoutesToPeer == Spec => []RoutedToPeer
<1>1. RouteInv => RoutedToPeer
  BY DEF RouteInv, Routing, DescriptorsRight, RoutedToPeer, OwnConnection, Initiates
<1> QED
  BY <1>1, InitRoute, RouteStep, PTL DEF Spec

-----------------------------------------------------------------------------
(* The effect of a step on one thread.                                     *)
LEMMA ThreadMoves ==
  ASSUME RouteInv, [Next]_vars, NEW i \in Ranks
  PROVE  \/ pc'[i] = pc[i] /\ cur'[i] = cur[i]
         \/ pc[i] = "create" /\ pc'[i] = "create"
         \/ pc[i] = "create" /\ pc'[i] = "connect" /\ cur'[i] = 1
         \/ pc[i] = "connect" /\ pc'[i] \in {"device", "threw"} /\ cur'[i] = cur[i]
         \/ pc[i] = "device" /\ pc'[i] = "waiting" /\ cur'[i] = cur[i] /\ DeviceConnect(i)
         \/ pc[i] = "waiting" /\ pc'[i] = "threw" /\ cur'[i] = cur[i]
         \/ /\ pc[i] = "waiting" /\ pc'[i] = IF cur[i] + 1 = Size THEN "done" ELSE "connect"
            /\ cur'[i] = cur[i] + 1 /\ Settled(Current(i))
         \/ pc[i] = "threw" /\ pc'[i] = "gone" /\ cur'[i] = cur[i]
<1>0. TypeOK
  BY DEF RouteInv
<1>1. CASE UNCHANGED thread
  BY <1>1 DEF thread
<1>2. ASSUME NEW d \in Devices,
             \/ \E p \in Pairs : WriteSeq(d, p) \/ ReadSeq(d, p) \/ HandleEof(d, p)
             \/ RunDeferred(d) \/ ConnectCallback(d) \/ DanglingCallback(d) \/ EnforceFails(d)
      PROVE  UNCHANGED thread
  BY <1>2 DEF WriteSeq, ReadSeq, HandleEof, RunDeferred, ConnectCallback, DanglingCallback,
              EnforceFails
<1>3. CASE UNCHANGED vars
  BY <1>1, <1>3 DEF vars
<1>4. ASSUME NEW j \in Ranks, CreatePair(j) \/ Publish(j)
      PROVE  \/ pc'[i] = pc[i] /\ cur'[i] = cur[i]
             \/ pc[i] = "create" /\ pc'[i] = "create"
             \/ pc[i] = "create" /\ pc'[i] = "connect" /\ cur'[i] = 1
  BY <1>0, <1>4 DEF TypeOK, CreatePair, Publish
<1>5. ASSUME NEW j \in Ranks, PairConnect(j) \/ StoreTimeout(j)
      PROVE  \/ pc'[i] = pc[i] /\ cur'[i] = cur[i]
             \/ pc[i] = "connect" /\ pc'[i] \in {"device", "threw"} /\ cur'[i] = cur[i]
  BY <1>0, <1>5 DEF TypeOK, PairConnect, StoreTimeout
<1>6. ASSUME NEW j \in Ranks, DeviceConnect(j)
      PROVE  \/ pc'[i] = pc[i] /\ cur'[i] = cur[i]
             \/ pc[i] = "device" /\ pc'[i] = "waiting" /\ cur'[i] = cur[i] /\ DeviceConnect(i)
  <2>1. pc[j] = "device" /\ pc' = [pc EXCEPT ![j] = "waiting"] /\ cur' = cur
    BY <1>6 DEF DeviceConnect
  <2> QED
    BY <1>0, <1>6, <2>1 DEF TypeOK
<1>7. ASSUME NEW j \in Ranks, ConnectTimeout(j) \/ Unwind(j)
      PROVE  \/ pc'[i] = pc[i] /\ cur'[i] = cur[i]
             \/ pc[i] = "waiting" /\ pc'[i] = "threw" /\ cur'[i] = cur[i]
             \/ pc[i] = "threw" /\ pc'[i] = "gone" /\ cur'[i] = cur[i]
  BY <1>0, <1>7 DEF TypeOK, ConnectTimeout, Unwind
<1>8. ASSUME NEW j \in Ranks, Connected(j)
      PROVE  \/ pc'[i] = pc[i] /\ cur'[i] = cur[i]
             \/ pc[i] = "waiting" /\ pc'[i] = "threw" /\ cur'[i] = cur[i]
             \/ /\ pc[i] = "waiting" /\ pc'[i] = IF cur[i] + 1 = Size THEN "done" ELSE "connect"
                /\ cur'[i] = cur[i] + 1 /\ Settled(Current(i))
  BY <1>0, <1>8 DEF TypeOK, Connected, Settled
<1> QED
  BY <1>1, <1>2, <1>3, <1>4, <1>5, <1>6, <1>7, <1>8, Actions

(* The effect of a step on one pair.                                       *)
LEMMA PairMoves ==
  ASSUME RouteInv, [Next]_vars, NEW p \in Pairs
  PROVE  \/ UNCHANGED <<state[p], ex[p], fd[p]>> /\ (p \in shut' => p \in shut)
         \/ /\ pc[p[1]] = "connect" /\ p = Current(p[1])
            /\ state'[p] = "CONNECTING" /\ ex'[p] = ex[p] /\ (p \in shut' => p \in shut)
         \/ /\ state'[p] = "CLOSED"
            /\ \/ pc[p[1]] = "waiting" /\ pc'[p[1]] = "threw" /\ p = Current(p[1])
               \/ pc'[p[1]] = "gone"
               \/ \E d \in Devices : /\ loop[d] # Idle /\ loop[d].pair = p /\ loop[d].error
                                     /\ pc[p[1]] # "gone"
               \/ state[p] = "CONNECTED" /\ Peer(p) \in shut
         \/ /\ pc[p[1]] # "gone"
            /\ \E d \in Devices : loop[d] # Idle /\ loop[d].pair = p /\ fd'[p] = loop[d].socket
            /\ state'[p] = "CONNECTED" /\ ex'[p] = ex[p] /\ (p \in shut' => p \in shut)
<1>0. TypeOK /\ Threads
  BY DEF RouteInv
<1> DEFINE Same == UNCHANGED <<state[p], ex[p], fd[p]>> /\ (p \in shut' => p \in shut)
<1>1. ASSUME UNCHANGED pair PROVE Same
  BY <1>1 DEF pair
<1>2. ASSUME NEW q \in Pairs, SignalException(q), p # q PROVE Same
  BY <1>0, <1>2 DEF TypeOK, SignalException
<1>3. ASSUME SignalException(p) PROVE state'[p] = "CLOSED"
  BY <1>0, <1>3 DEF TypeOK, SignalException
<1>4. CASE UNCHANGED vars
  BY <1>1, <1>4 DEF vars
<1>5. ASSUME NEW i \in Ranks,
             CreatePair(i) \/ Publish(i) \/ StoreTimeout(i) \/ DeviceConnect(i) \/ Connected(i)
      PROVE  UNCHANGED pair
  BY <1>5 DEF CreatePair, Publish, StoreTimeout, DeviceConnect, Connected
<1>6. ASSUME NEW i \in Ranks, PairConnect(i)
      PROVE  \/ Same
             \/ /\ pc[p[1]] = "connect" /\ p = Current(p[1])
                /\ state'[p] = "CONNECTING" /\ ex'[p] = ex[p] /\ (p \in shut' => p \in shut)
  <2>1. /\ Current(i)[1] = i /\ pc[i] = "connect" /\ state' = [state EXCEPT ![Current(i)] = "CONNECTING"]
        /\ UNCHANGED <<ex, fd, shut>>
    BY <1>0, <1>6, CurrentPair DEF PairConnect
  <2> QED
    BY <1>0, <2>1 DEF TypeOK
<1>7. ASSUME NEW i \in Ranks, ConnectTimeout(i)
      PROVE  \/ Same
             \/ /\ state'[p] = "CLOSED"
                /\ pc[p[1]] = "waiting" /\ pc'[p[1]] = "threw" /\ p = Current(p[1])
  <2>1. /\ Current(i) \in Pairs /\ Current(i)[1] = i /\ pc[i] = "waiting"
        /\ pc'[i] = "threw" /\ SignalException(Current(i))
    BY <1>0, <1>7, CurrentPair DEF ConnectTimeout, TypeOK
  <2> QED
    BY <1>2, <1>3, <2>1
<1>8. ASSUME NEW i \in Ranks, Unwind(i)
      PROVE  Same \/ (state'[p] = "CLOSED" /\ pc'[p[1]] = "gone")
  <2>1. p[1] \in Ranks
    BY PairsArePairs
  <2> QED
    BY <1>0, <1>8, <2>1 DEF TypeOK, Unwind
<1>9. ASSUME NEW d \in Devices, NEW q \in Pairs, WriteSeq(d, q) \/ ReadSeq(d, q) PROVE UNCHANGED pair
  BY <1>9 DEF WriteSeq, ReadSeq
<1>10. ASSUME NEW d \in Devices, NEW q \in Pairs, HandleEof(d, q)
       PROVE  \/ Same
              \/ state'[p] = "CLOSED" /\ state[p] = "CONNECTED" /\ Peer(p) \in shut
  BY <1>2, <1>3, <1>10 DEF HandleEof
<1>11. ASSUME NEW d \in Devices, RunDeferred(d) \/ EnforceFails(d) PROVE UNCHANGED pair
  BY <1>11 DEF RunDeferred, EnforceFails
<1>12. ASSUME NEW d \in Devices, ConnectCallback(d)
       PROVE  \/ Same
              \/ /\ state'[p] = "CLOSED"
                 /\ \E e \in Devices : /\ loop[e] # Idle /\ loop[e].pair = p /\ loop[e].error
                                       /\ pc[p[1]] # "gone"
              \/ /\ pc[p[1]] # "gone"
                 /\ \E e \in Devices : loop[e] # Idle /\ loop[e].pair = p /\ fd'[p] = loop[e].socket
                 /\ state'[p] = "CONNECTED" /\ ex'[p] = ex[p] /\ (p \in shut' => p \in shut)
  <2>1. loop[d] # Idle /\ pc[loop[d].pair[1]] # "gone"
    BY <1>12 DEF ConnectCallback
  <2>2. loop[d].pair \in Pairs
    BY <1>0, <2>1, CallbackTypes DEF TypeOK
  <2>3. CASE loop[d].error /\ SignalException(loop[d].pair)
    BY <1>2, <1>3, <2>1, <2>2, <2>3
  <2>4. CASE /\ fd' = [fd EXCEPT ![loop[d].pair] = loop[d].socket]
             /\ state' = [state EXCEPT ![loop[d].pair] = "CONNECTED"]
             /\ UNCHANGED <<ex, shut, dangling>>
    BY <1>0, <2>1, <2>2, <2>4 DEF TypeOK
  <2> QED
    BY <1>12, <2>3, <2>4 DEF ConnectCallback
<1>13. ASSUME NEW d \in Devices, DanglingCallback(d) PROVE Same
  BY <1>13 DEF DanglingCallback
<1> QED
  BY <1>1, <1>4, <1>5, <1>6, <1>7, <1>8, <1>9, <1>10, <1>11, <1>12, <1>13, Actions

(* A pair whose connect was called stays so; one is called, or its thread  *)
(* gets to wait for it, by DeviceConnect or because the thread gives up.   *)
LEMMA CalledStays ==
  ASSUME RouteInv, [Next]_vars, NEW p \in Pairs
  PROVE  /\ Called(p) => Called(p)'
         /\ Started(p)' => Started(p) \/ (DeviceConnect(p[1]) /\ p = Current(p[1]))
         /\ pc[p[1]] # "create" /\ cur'[p[1]] > PlaceOf(p[1], p[2]) =>
              \/ cur[p[1]] > PlaceOf(p[1], p[2])
              \/ p = Current(p[1]) /\ Settled(p)
<1> DEFINE i == p[1]
           k == PlaceOf(p[1], p[2])
<1>0. TypeOK /\ Threads
  BY DEF RouteInv
<1>1. i \in Ranks /\ p[2] \in Ranks \ {i} /\ p = <<i, p[2]>>
  BY PairsArePairs
<1>2. k \in 1 .. Size - 1 /\ PeerAt(i, k) = p[2]
  BY <1>1, Places
<1>3. cur[i] \in 1 .. Size
  BY <1>0, <1>1 DEF TypeOK
<1>4. cur[i] = k => p = Current(i)
  BY <1>1, <1>2 DEF Current
<1>5. \/ pc'[i] = pc[i] /\ cur'[i] = cur[i]
      \/ pc[i] = "create" /\ pc'[i] = "create"
      \/ pc[i] = "create" /\ pc'[i] = "connect" /\ cur'[i] = 1
      \/ pc[i] = "connect" /\ pc'[i] \in {"device", "threw"} /\ cur'[i] = cur[i]
      \/ pc[i] = "device" /\ pc'[i] = "waiting" /\ cur'[i] = cur[i] /\ DeviceConnect(i)
      \/ pc[i] = "waiting" /\ pc'[i] = "threw" /\ cur'[i] = cur[i]
      \/ /\ pc[i] = "waiting" /\ pc'[i] = IF cur[i] + 1 = Size THEN "done" ELSE "connect"
         /\ cur'[i] = cur[i] + 1 /\ Settled(Current(i))
      \/ pc[i] = "threw" /\ pc'[i] = "gone" /\ cur'[i] = cur[i]
  BY <1>1, ThreadMoves
<1>6. Called(p) <=> pc[i] # "create" /\ (cur[i] > k \/ (cur[i] = k /\ pc[i] \notin {"connect", "device"}))
  BY DEF Called
<1>7. Called(p)' <=> pc'[i] # "create" /\ (cur'[i] > k \/ (cur'[i] = k /\ pc'[i] \notin {"connect", "device"}))
  BY DEF Called
<1>8. Started(p) <=> pc[i] # "create" /\ (cur[i] > k \/ (cur[i] = k /\ pc[i] = "waiting"))
  BY DEF Started
<1>9. Started(p)' <=> pc'[i] # "create" /\ (cur'[i] > k \/ (cur'[i] = k /\ pc'[i] = "waiting"))
  BY DEF Started
<1> HIDE DEF i, k
<1>10. Called(p) => Called(p)'
  BY <1>2, <1>3, <1>5, <1>6, <1>7, SizeAssumption
<1>11. Started(p)' => Started(p) \/ (DeviceConnect(i) /\ p = Current(i))
  BY <1>2, <1>3, <1>4, <1>5, <1>8, <1>9, SizeAssumption
<1>12. pc[i] # "create" /\ cur'[i] > k => cur[i] > k \/ (p = Current(i) /\ Settled(p))
  BY <1>2, <1>3, <1>4, <1>5, SizeAssumption
<1> QED
  BY <1>10, <1>11, <1>12 DEF i, k

LEMMA StartedReadyStep ==
  ASSUME RouteInv, StartedReady, [Next]_vars
  PROVE  StartedReady'
<1> SUFFICES ASSUME NEW p \in Pairs, Started(p)' PROVE Ready(p)'
  BY DEF StartedReady
<1>1. p[1] \in Ranks
  BY PairsArePairs
<1>2. ASSUME DeviceConnect(p[1]), p = Current(p[1]) PROVE Ready(p)
  BY <1>1, <1>2, DeviceConnectEffect
<1>3. Ready(p)
  BY <1>2, CalledStays DEF StartedReady
<1> QED
  BY <1>3, Stable

(* The current pair of a thread that has not called connect for it.        *)
LEMMA CurrentNotCalled ==
  ASSUME RouteInv, OnlyCalled, NEW i \in Ranks, pc[i] \in {"connect", "device"}
  PROVE  ~Called(Current(i)) /\ conn[Current(i)].stage = "none"
<1>0. TypeOK /\ Threads
  BY DEF RouteInv
<1>1. /\ Current(i) \in Pairs /\ Current(i)[1] = i
      /\ PlaceOf(i, Current(i)[2]) = cur[i] /\ cur[i] \in 1 .. Size - 1
  BY <1>0, CurrentPair
<1>2. ~Called(Current(i))
  BY <1>1, SizeAssumption DEF Called
<1> QED
  BY <1>1, <1>2 DEF OnlyCalled

(* How a connection moves from stage to stage.                             *)
LEMMA StageMoves ==
  ASSUME RouteInv, OnlyCalled, [Next]_vars, NEW p \in Pairs
  PROVE  \/ conn'[p].stage = conn[p].stage
         \/ /\ \E i \in Ranks : DeviceConnect(i) /\ p = Current(i)
            /\ conn[p].stage = "none" /\ conn'[p].stage = "connecting"
         \/ conn[p].stage = "connecting" /\ conn'[p].stage = "lost"
         \/ /\ conn[p].stage = "connecting" /\ conn'[p].stage = "written"
            /\ loop'[PairDevice(p)] = [pair |-> p, socket |-> p, error |-> FALSE]
         \/ conn[p].stage = "written" /\ conn'[p].stage = "lost"
         \/ /\ conn[p].stage = "written" /\ conn'[p].stage = "routed"
            /\ \E d \in Devices : ReadSeq(d, p)
<1>0. TypeOK
  BY DEF RouteInv
<1>1. ASSUME UNCHANGED conn PROVE conn'[p].stage = conn[p].stage
  BY <1>1
<1>2. ASSUME NEW i \in Ranks, DeviceConnect(i)
      PROVE  \/ conn'[p].stage = conn[p].stage
             \/ p = Current(i) /\ conn[p].stage = "none" /\ conn'[p].stage = "connecting"
  <2>0. PICK q : q = Current(i)
    OBVIOUS
  <2>1. q \in Pairs /\ conn[q].stage = "none"
    BY <1>0, <1>2, <2>0, CurrentPair, CurrentNotCalled DEF RouteInv, DeviceConnect
  <2>2. \/ conn' = conn
        \/ conn' = [conn EXCEPT ![q] = [stage |-> "connecting",
                      device |-> Remote(q).device, seq |-> Remote(q).seq]]
    BY <1>2, <2>0 DEF DeviceConnect
  <2> QED
    BY <1>0, <2>0, <2>1, <2>2 DEF TypeOK
<1>3. ASSUME NEW d \in Devices, NEW q \in Pairs, WriteSeq(d, q)
      PROVE  \/ conn'[p].stage = conn[p].stage
             \/ conn[p].stage = "connecting" /\ conn'[p].stage = "lost"
             \/ /\ conn[p].stage = "connecting" /\ conn'[p].stage = "written"
                /\ loop'[PairDevice(p)] = [pair |-> p, socket |-> p, error |-> FALSE]
  <2>1. PICK failed \in {FALSE} \cup {"io" \in Faults} :
          /\ conn' = [conn EXCEPT ![q].stage = IF failed THEN "lost" ELSE "written"]
          /\ loop' = [loop EXCEPT ![d] = [pair |-> q, socket |-> q, error |-> failed]]
    BY <1>3 DEF WriteSeq
  <2>2. conn[q].stage = "connecting" /\ PairDevice(q) = d
    BY <1>3 DEF WriteSeq
  <2>3. failed = TRUE \/ failed = FALSE
    <3>1. ("io" \in Faults) = TRUE \/ ("io" \in Faults) = FALSE
      OBVIOUS
    <3> QED
      BY <3>1, Zenon
  <2>4. CASE failed = TRUE
    <3>1. conn' = [conn EXCEPT ![q].stage = "lost"]
      BY <2>1, <2>4
    <3> QED
      BY <1>0, <2>2, <3>1, StageTypes DEF Stages
  <2>5. CASE failed = FALSE
    <3>1. conn' = [conn EXCEPT ![q].stage = "written"]
      BY <2>1, <2>5
    <3>2. loop'[d] = [pair |-> q, socket |-> q, error |-> FALSE]
      BY <1>0, <2>1, <2>5 DEF TypeOK
    <3>3. "written" \in Stages
      BY DEF Stages
    <3>4. \A r \in Pairs : conn'[r].stage = IF r = q THEN "written" ELSE conn[r].stage
      BY <1>0, <3>1, <3>3, StageTypes
    <3> QED
      BY <2>2, <3>2, <3>4
  <2> QED
    BY <2>3, <2>4, <2>5
<1>4. ASSUME NEW d \in Devices, NEW q \in Pairs, ReadSeq(d, q)
      PROVE  \/ conn'[p].stage = conn[p].stage
             \/ conn[p].stage = "written" /\ conn'[p].stage = "lost"
             \/ p = q /\ conn[p].stage = "written" /\ conn'[p].stage = "routed"
  <2>1. conn[q].stage = "written"
    BY <1>4 DEF ReadSeq
  <2>2. CASE conn' = [conn EXCEPT ![q].stage = "routed"]
    BY <1>0, <2>1, <2>2, StageTypes DEF Stages
  <2>3. CASE conn' = [conn EXCEPT ![q].stage = "lost"]
    BY <1>0, <2>1, <2>3, StageTypes DEF Stages
  <2> QED
    BY <1>4, <2>2, <2>3 DEF ReadSeq
<1>5. ASSUME NEW d \in Devices, RunDeferred(d) PROVE UNCHANGED conn
  BY <1>5 DEF RunDeferred
<1> QED
  BY <1>1, <1>2, <1>3, <1>4, <1>5, Handing

(* Nothing undoes what went wrong.                                         *)
LEMMA GaveUpStays ==
  ASSUME RouteInv, OnlyCalled, [Next]_vars, GaveUp
  PROVE  GaveUp'
<1>1. ASSUME NEW i \in Ranks, pc[i] \in {"threw", "gone"} PROVE pc'[i] \in {"threw", "gone"}
  BY <1>1, ThreadMoves
<1>2. ASSUME NEW p \in Pairs, conn[p].stage = "lost" PROVE conn'[p].stage = "lost"
  BY <1>2, StageMoves
<1> QED
  BY <1>1, <1>2 DEF GaveUp

LEMMA OnlyCalledStep ==
  ASSUME RouteInv, OnlyCalled, [Next]_vars
  PROVE  OnlyCalled'
<1>0. TypeOK /\ Threads /\ Routing
  BY DEF RouteInv
<1>1. ASSUME NEW i \in Ranks, DeviceConnect(i), NEW p, p = Current(i) PROVE p \in Pairs /\ Called(p)'
  <2>1. p \in Pairs /\ p[1] = i /\ pc[i] = "device" /\ PlaceOf(i, p[2]) = cur[i]
    BY <1>0, <1>1, CurrentPair DEF DeviceConnect
  <2>2. pc'[i] = "waiting" /\ cur'[i] = cur[i]
    BY <1>0, <1>1 DEF DeviceConnect, TypeOK
  <2> QED
    BY <2>1, <2>2 DEF Called
<1>2. \A p \in Pairs : conn'[p].stage # "none" => Called(p)'
  BY <1>1, CalledStays, StageMoves DEF OnlyCalled
<1>3. ASSUME NEW d \in Devices, NEW x \in seqToCallback'[d] PROVE Called(x[2])'
  <2>1. CASE x \in seqToCallback[d]
    BY <1>0, <2>1, ParkedTypes, CalledStays DEF OnlyCalled
  <2>2. CASE x \notin seqToCallback[d]
    <3>1. ASSUME NEW e \in Devices, NEW c \in Pairs, ReadSeq(e, c) PROVE FALSE
      BY <1>0, <1>3, <2>2, <3>1 DEF ReadSeq, HaveConnection, listener, TypeOK
    <3>2. ASSUME NEW i \in Ranks, DeviceConnect(i) PROVE Called(x[2])'
      <4>0. PICK p, e, s : p = Current(i) /\ e = Local(p).device /\ s = Local(p).seq
        OBVIOUS
      <4>1. seqToCallback' = seqToCallback \/ seqToCallback' = [seqToCallback EXCEPT ![e] = @ \cup {<<s, p>>}]
        BY <3>2, <4>0 DEF DeviceConnect, WaitForConnection, listener
      <4>2. seqToCallback'[d] = seqToCallback[d] \/ seqToCallback'[d] = seqToCallback[d] \cup {<<s, p>>}
        BY <1>0, <4>1 DEF TypeOK
      <4>3. x = <<s, p>>
        BY <1>3, <2>2, <4>2
      <4>4. x[2] = p
        BY <4>3
      <4> QED
        BY <1>1, <3>2, <4>0, <4>4
    <3>3. ASSUME NEW e \in Devices, RunDeferred(e) PROVE UNCHANGED seqToCallback
      BY <3>3 DEF RunDeferred
    <3>4. ASSUME UNCHANGED seqToCallback PROVE FALSE
      BY <1>3, <2>2, <3>4
    <3> QED
      BY <3>1, <3>2, <3>3, <3>4, Handing DEF listener
  <2> QED
    BY <2>1, <2>2
<1>4. ASSUME NEW d \in Devices, NEW k \in DOMAIN deferred'[d]
      PROVE  Called(deferred[d][k].pair)' /\ ~deferred'[d][k].error
  <2>0. \A l \in DOMAIN deferred[d] : deferred[d][l].pair \in Pairs
    BY <1>0, CallbackTypes DEF TypeOK
  <2>1. ASSUME NEW l \in DOMAIN deferred[d], deferred'[d][k] = deferred[d][l]
        PROVE  Called(deferred[d][k].pair)' /\ ~deferred'[d][k].error
    <3>1. PICK q \in Pairs : q = deferred[d][l].pair
      BY <2>0
    <3>2. Called(q)' /\ ~deferred[d][l].error
      BY <3>1, CalledStays DEF OnlyCalled
    <3> QED
      BY <2>1, <3>1, <3>2
  <2>2. ASSUME NEW i \in Ranks, DeviceConnect(i)
        PROVE  Called(deferred[d][k].pair)' /\ ~deferred'[d][k].error
    <3>0. PICK p, e, s : p = Current(i) /\ e = Local(p).device /\ s = Local(p).seq
      OBVIOUS
    <3>1. /\ e \in Devices
          /\ \/ deferred' = deferred
             \/ deferred' = [deferred EXCEPT ![e] = Append(@, [pair |-> p, socket |-> Peer(p), error |-> FALSE])]
      BY <2>2, <3>0, DeviceConnectEffect DEF listener
    <3> DEFINE cb == [pair |-> p, socket |-> Peer(p), error |-> FALSE]
    <3>2. deferred[d] \in Seq(Callback)
      BY <1>0 DEF TypeOK
    <3>3. deferred'[d] = deferred[d] \/ deferred'[d] = Append(deferred[d], cb)
      BY <1>0, <3>1 DEF TypeOK
    <3>4. cb.pair = p /\ cb.error = FALSE
      OBVIOUS
    <3> HIDE DEF cb
    <3>5. (k \in DOMAIN deferred[d] /\ deferred'[d][k] = deferred[d][k]) \/ deferred'[d][k] = cb
      BY <1>4, <3>2, <3>3, SMTT(30)
    <3>6. CASE deferred'[d][k] = cb
      BY <1>1, <2>2, <3>0, <3>4, <3>6
    <3> QED
      BY <2>1, <3>5, <3>6
  <2>3. ASSUME NEW e \in Devices, RunDeferred(e)
        PROVE  \E l \in DOMAIN deferred[d] : deferred'[d][k] = deferred[d][l]
    <3>1. deferred[d] \in Seq(Callback)
      BY <1>0 DEF TypeOK
    <3>2. deferred'[d] = deferred[d] \/ (deferred[d] # <<>> /\ deferred'[d] = Tail(deferred[d]))
      BY <1>0, <2>3 DEF RunDeferred, TypeOK
    <3>3. CASE deferred[d] # <<>> /\ deferred'[d] = Tail(deferred[d])
      <4>1. k + 1 \in DOMAIN deferred[d] /\ deferred'[d][k] = deferred[d][k + 1]
        BY <1>4, <3>1, <3>3
      <4> QED
        BY <4>1
    <3> QED
      BY <1>4, <3>2, <3>3
  <2>4. ASSUME NEW e \in Devices, NEW c \in Pairs, ReadSeq(e, c) PROVE UNCHANGED deferred
    BY <2>4 DEF ReadSeq, HaveConnection, listener
  <2>5. ASSUME UNCHANGED deferred PROVE \E l \in DOMAIN deferred[d] : deferred'[d][k] = deferred[d][l]
    BY <1>4, <2>5
  <2> QED
    BY <2>1, <2>2, <2>3, <2>4, <2>5, Handing DEF listener
<1>5. ASSUME NEW d \in Devices, loop'[d] # Idle
      PROVE  Called(loop[d].pair)' /\ (loop'[d].error => conn'[loop'[d].pair].stage = "lost")
  <2>1. ASSUME loop'[d] = loop[d]
        PROVE  Called(loop[d].pair)' /\ (loop'[d].error => conn'[loop'[d].pair].stage = "lost")
    <3>1. loop[d] # Idle /\ loop[d].pair \in Pairs
      BY <1>0, <1>5, <2>1, CallbackTypes DEF TypeOK
    <3>2. PICK q \in Pairs : q = loop[d].pair
      BY <3>1
    <3>3. Called(q)' /\ (loop[d].error => conn'[q].stage = "lost")
      BY <3>1, <3>2, CalledStays, StageMoves DEF OnlyCalled
    <3> QED
      BY <2>1, <3>2, <3>3
  <2>2. ASSUME NEW e \in Devices, NEW p \in Pairs, WriteSeq(e, p)
        PROVE  Called(loop[d].pair)' /\ (loop'[d].error => conn'[loop'[d].pair].stage = "lost")
    <3>1. PICK failed \in {FALSE} \cup {"io" \in Faults} :
            /\ conn' = [conn EXCEPT ![p].stage = IF failed THEN "lost" ELSE "written"]
            /\ loop' = [loop EXCEPT ![e] = [pair |-> p, socket |-> p, error |-> failed]]
      BY <2>2 DEF WriteSeq
    <3>2. conn[p].stage = "connecting"
      BY <2>2 DEF WriteSeq
    <3>3. Called(p)'
      BY <3>2, CalledStays DEF OnlyCalled
    <3>4. ASSUME failed PROVE conn'[p].stage = "lost"
      <4>1. conn' = [conn EXCEPT ![p].stage = "lost"]
        BY <3>1, <3>4
      <4>2. "lost" \in Stages
        BY DEF Stages
      <4> QED
        BY <1>0, <4>1, <4>2, StageTypes, ZenonT(30)
    <3>5. loop'[d] = loop[d] \/ loop'[d] = [pair |-> p, socket |-> p, error |-> failed]
      BY <1>0, <3>1 DEF TypeOK
    <3>6. CASE loop'[d] = [pair |-> p, socket |-> p, error |-> failed]
      <4>1. loop'[d].pair = p /\ (loop'[d].error => failed)
        BY <3>6
      <4> QED
        BY <3>3, <3>4, <4>1
    <3> QED
      BY <2>1, <3>5, <3>6
  <2>3. ASSUME NEW e \in Devices, NEW c \in Pairs, ReadSeq(e, c)
        PROVE  Called(loop[d].pair)' /\ (loop'[d].error => conn'[loop'[d].pair].stage = "lost")
    <3>0. PICK p, s : p = Peer(c) /\ s = Local(p).seq
      OBVIOUS
    <3>1. \/ UNCHANGED loop
          \/ /\ <<s, p>> \in seqToCallback[e]
             /\ loop' = [loop EXCEPT ![e] = [pair |-> p, socket |-> c, error |-> FALSE]]
      BY <2>3, <3>0, ReadSeqEffect
    <3>2. CASE /\ <<s, p>> \in seqToCallback[e]
               /\ loop' = [loop EXCEPT ![e] = [pair |-> p, socket |-> c, error |-> FALSE]]
      <4>1. p \in Pairs /\ Called(p)
        BY <1>0, <3>2, ParkedTypes DEF OnlyCalled
      <4>2. loop'[d] = loop[d] \/ (loop'[d].pair = p /\ ~loop'[d].error)
        BY <1>0, <3>2 DEF TypeOK
      <4> QED
        BY <2>1, <4>1, <4>2, CalledStays
    <3> QED
      BY <2>1, <3>1, <3>2
  <2>4. ASSUME NEW e \in Devices, RunDeferred(e)
        PROVE  Called(loop[d].pair)' /\ (loop'[d].error => conn'[loop'[d].pair].stage = "lost")
    <3>1. /\ deferred[e] # <<>> /\ deferred[e] \in Seq(Callback)
          /\ loop'[d] = loop[d] \/ (d = e /\ loop'[d] = Head(deferred[e]))
      BY <1>0, <2>4 DEF TypeOK, RunDeferred
    <3>2. 1 \in DOMAIN deferred[e] /\ Head(deferred[e]) = deferred[e][1] /\ deferred[e][1] \in Callback
      BY <3>1
    <3>3. PICK q \in Pairs : q = deferred[e][1].pair
      BY <3>2, CallbackTypes
    <3>4. Called(q)' /\ ~deferred[e][1].error
      BY <3>2, <3>3, CalledStays DEF OnlyCalled
    <3> QED
      BY <2>1, <3>1, <3>2, <3>3, <3>4
  <2>5. ASSUME NEW e \in Devices, loop' = [loop EXCEPT ![e] = Idle] PROVE loop'[d] = loop[d]
    BY <1>0, <1>5, <2>5 DEF TypeOK
  <2> QED
    BY <2>1, <2>2, <2>3, <2>4, <2>5, Handing
<1> QED
  BY <1>2, <1>3, <1>4, <1>5 DEF OnlyCalled

(* The callback in the loop of a device is for a pair.                     *)
LEMMA LoopPair ==
  ASSUME TypeOK, NEW d \in Devices, loop[d] # Idle
  PROVE  loop[d].pair \in Pairs /\ loop[d].socket \in Pairs
BY CallbackTypes DEF TypeOK

LEMMA SettledStays ==
  ASSUME RouteInv, OnlyCalled, StatesRight, [Next]_vars, NEW p \in Pairs, Settled(p)
  PROVE  Settled(p)'
<1>1. ASSUME pc[p[1]] = "connect", p = Current(p[1]) PROVE FALSE
  <2>1. ~Called(p)
    BY <1>1, CurrentNotCalled, PairsArePairs
  <2> QED
    BY <1>1, <2>1 DEF StatesRight
<1> QED
  BY <1>1, PairMoves DEF Settled

LEMMA StatesStep ==
  ASSUME RouteInv, OnlyCalled, StatesRight, [Next]_vars
  PROVE  StatesRight'
<1>0. TypeOK /\ Threads
  BY DEF RouteInv
<1> SUFFICES ASSUME NEW p \in Pairs
             PROVE  /\ pc'[p[1]] # "gone" /\ ~Called(p)' => ~Settled(p)'
                    /\ pc'[p[1]] # "create" /\ cur'[p[1]] > PlaceOf(p[1], p[2]) => Settled(p)'
                    /\ pc'[p[1]] = "gone" => state'[p] = "CLOSED"
                    /\ pc'[p[1]] = "done" => cur'[p[1]] = Size
                    /\ state'[p] = "CONNECTED" => fd'[p] # NoFd
  BY DEF StatesRight
<1>1. p[1] \in Ranks /\ p[2] \in Ranks \ {p[1]}
  BY PairsArePairs
<1>2. PlaceOf(p[1], p[2]) \in 1 .. Size - 1
  BY <1>1, Places
<1>3. pc[p[1]] = "gone" => pc'[p[1]] = "gone"
  BY <1>1, ThreadMoves
<1>4. ASSUME pc'[p[1]] # "gone", ~Called(p)' PROVE ~Settled(p)'
  <2>1. pc[p[1]] # "gone" /\ ~Called(p) /\ ~Settled(p)
    BY <1>3, <1>4, CalledStays DEF StatesRight
  <2>2. CASE state'[p] = state[p]
    BY <2>1, <2>2 DEF Settled
  <2>3. CASE state'[p] = "CONNECTING"
    BY <2>3 DEF Settled
  <2>4. ASSUME pc[p[1]] = "waiting", p = Current(p[1]) PROVE FALSE
    <3>1. PlaceOf(p[1], p[2]) = cur[p[1]]
      BY <1>0, <1>1, <2>4, CurrentPair
    <3>2. Called(p)
      BY <2>4, <3>1 DEF Called
    <3> QED
      BY <2>1, <3>2
  <2>5. ASSUME NEW d \in Devices, loop[d] # Idle, loop[d].pair = p PROVE FALSE
    BY <2>1, <2>5 DEF OnlyCalled
  <2>6. state[p] # "CONNECTED"
    BY <2>1 DEF Settled
  <2> QED
    BY <1>4, <2>2, <2>3, <2>4, <2>5, <2>6, PairMoves
<1>5. ASSUME pc'[p[1]] # "create", cur'[p[1]] > PlaceOf(p[1], p[2]) PROVE Settled(p)'
  <2>1. pc[p[1]] # "create"
    BY <1>1, <1>2, <1>5, ThreadMoves
  <2>2. Settled(p)
    BY <1>5, <2>1, CalledStays DEF StatesRight
  <2> QED
    BY <2>2, SettledStays
<1>6. ASSUME pc'[p[1]] = "gone" PROVE state'[p] = "CLOSED"
  <2>1. CASE pc[p[1]] = "gone"
    BY <1>1, <1>6, <2>1, PairMoves DEF StatesRight
  <2>2. CASE pc[p[1]] # "gone"
    <3>1. PICK i \in Ranks : Unwind(i)
      <4>1. ASSUME NEW i \in Ranks,
                   CreatePair(i) \/ Publish(i) \/ PairConnect(i) \/ StoreTimeout(i)
                     \/ DeviceConnect(i) \/ Connected(i) \/ ConnectTimeout(i)
            PROVE  FALSE
        BY <1>0, <1>1, <1>6, <2>2, <4>1
           DEF TypeOK, CreatePair, Publish, PairConnect, StoreTimeout, DeviceConnect, Connected,
               ConnectTimeout
      <4>2. ASSUME NEW d \in Devices,
                   \/ \E q \in Pairs : WriteSeq(d, q) \/ ReadSeq(d, q) \/ HandleEof(d, q)
                   \/ RunDeferred(d) \/ ConnectCallback(d) \/ DanglingCallback(d) \/ EnforceFails(d)
            PROVE  UNCHANGED thread
        BY <4>2 DEF WriteSeq, ReadSeq, HandleEof, RunDeferred, ConnectCallback, DanglingCallback,
                    EnforceFails
      <4>3. ASSUME UNCHANGED thread PROVE FALSE
        BY <1>6, <2>2, <4>3 DEF thread
      <4> QED
        BY <4>1, <4>2, <4>3, Actions DEF vars
    <3>2. p[1] = i
      BY <1>0, <1>1, <1>6, <2>2, <3>1 DEF Unwind, TypeOK
    <3> QED
      BY <3>1, <3>2 DEF Unwind
  <2> QED
    BY <2>1, <2>2
<1>7. ASSUME pc'[p[1]] = "done" PROVE cur'[p[1]] = Size
  BY <1>1, <1>7, ThreadMoves DEF StatesRight
<1>8. ASSUME state'[p] = "CONNECTED" PROVE fd'[p] # NoFd
  BY <1>0, <1>8, PairMoves, LoopPair, PairsArePairs DEF StatesRight
<1> QED
  BY <1>4, <1>5, <1>6, <1>7, <1>8

LEMMA NotBothParkedStep ==
  ASSUME RouteInv, NotBothParked, [Next]_vars
  PROVE  NotBothParked'
<1>0. TypeOK
  BY DEF RouteInv
<1>1. ASSUME \A d \in Devices : seqToCallback'[d] \subseteq seqToCallback[d]
                             /\ seqToSocket'[d] \subseteq seqToSocket[d]
      PROVE  NotBothParked'
  BY <1>1 DEF NotBothParked
<1>2. ASSUME NEW i \in Ranks, DeviceConnect(i) PROVE NotBothParked'
  <2>1. PICK p, d, s : p = Current(i) /\ d = Local(p).device /\ s = Local(p).seq
    OBVIOUS
  <2>2. \/ UNCHANGED listener
        \/ /\ \A x \in seqToSocket[d] : x[1] # s
           /\ seqToCallback' = [seqToCallback EXCEPT ![d] = @ \cup {<<s, p>>}]
           /\ UNCHANGED <<seqToSocket, deferred>>
        \/ \E x : seqToSocket' = [seqToSocket EXCEPT ![d] = @ \ {x}] /\ UNCHANGED seqToCallback
    BY <1>2, <2>1 DEF DeviceConnect, WaitForConnection
  <2>3. CASE UNCHANGED listener
    BY <1>1, <2>3 DEF listener
  <2>4. CASE /\ \A x \in seqToSocket[d] : x[1] # s
             /\ seqToCallback' = [seqToCallback EXCEPT ![d] = @ \cup {<<s, p>>}]
             /\ UNCHANGED <<seqToSocket, deferred>>
    <3>1. \A e \in Devices : \A x \in seqToCallback'[e] :
            x \in seqToCallback[e] \/ (e = d /\ x = <<s, p>>)
      BY <1>0, <2>4 DEF TypeOK
    <3>2. <<s, p>>[1] = s
      OBVIOUS
    <3> QED
      BY <2>4, <3>1, <3>2 DEF NotBothParked
  <2>5. ASSUME NEW x, seqToSocket' = [seqToSocket EXCEPT ![d] = @ \ {x}], UNCHANGED seqToCallback
        PROVE  NotBothParked'
    BY <1>0, <1>1, <2>5 DEF TypeOK
  <2> QED
    BY <2>2, <2>3, <2>4, <2>5
<1>3. ASSUME NEW d \in Devices, NEW c \in Pairs, ReadSeq(d, c) PROVE NotBothParked'
  <2>1. PICK s : s = conn[c].seq
    OBVIOUS
  <2>2. \/ UNCHANGED listener
        \/ /\ \A x \in seqToCallback[d] : x[1] # s
           /\ seqToSocket' = [seqToSocket EXCEPT ![d] = @ \cup {<<s, c>>}]
           /\ UNCHANGED <<seqToCallback, deferred>>
        \/ \E x : seqToCallback' = [seqToCallback EXCEPT ![d] = @ \ {x}] /\ UNCHANGED seqToSocket
    BY <1>3, <2>1 DEF ReadSeq, HaveConnection
  <2>3. CASE UNCHANGED listener
    BY <1>1, <2>3 DEF listener
  <2>4. CASE /\ \A x \in seqToCallback[d] : x[1] # s
             /\ seqToSocket' = [seqToSocket EXCEPT ![d] = @ \cup {<<s, c>>}]
             /\ UNCHANGED <<seqToCallback, deferred>>
    <3>1. \A e \in Devices : \A x \in seqToSocket'[e] :
            x \in seqToSocket[e] \/ (e = d /\ x = <<s, c>>)
      BY <1>0, <2>4 DEF TypeOK
    <3>2. <<s, c>>[1] = s
      OBVIOUS
    <3> QED
      BY <2>4, <3>1, <3>2 DEF NotBothParked
  <2>5. ASSUME NEW x, seqToCallback' = [seqToCallback EXCEPT ![d] = @ \ {x}], UNCHANGED seqToSocket
        PROVE  NotBothParked'
    BY <1>0, <1>1, <2>5 DEF TypeOK
  <2> QED
    BY <2>2, <2>3, <2>4, <2>5
<1>4. ASSUME NEW d \in Devices, RunDeferred(d) PROVE NotBothParked'
  BY <1>1, <1>4 DEF RunDeferred
<1>5. ASSUME UNCHANGED listener PROVE NotBothParked'
  BY <1>1, <1>5 DEF listener
<1> QED
  BY <1>2, <1>3, <1>4, <1>5, Handing

(* A callback that is to be made is made.                                  *)
LEMMA ArrivalStays ==
  ASSUME RouteInv, OnlyCalled, StatesRight, [Next]_vars, NEW d \in Devices, NEW p \in Pairs,
         NEW c \in Pairs, ToBeCalled(d, p, c) \/ Settled(p)
  PROVE  ToBeCalled(d, p, c)' \/ Settled(p)'
<1>0. TypeOK
  BY DEF RouteInv
<1> SUFFICES ASSUME ToBeCalled(d, p, c), ~Settled(p)' PROVE ToBeCalled(d, p, c)'
  BY SettledStays
<1>1. deferred[d] \in Seq(Callback)
  BY <1>0 DEF TypeOK
<1>2. CASE loop[d] # Idle /\ IsCall(loop[d], p, c)
  <2>1. loop'[d] = loop[d]
    <3>1. ASSUME NEW e \in Devices, NEW q \in Pairs, WriteSeq(e, q) \/ ReadSeq(e, q)
          PROVE  loop'[d] = loop[d]
      <4>1. loop[e] = Idle
        BY <3>1 DEF WriteSeq, ReadSeq
      <4>2. UNCHANGED loop \/ \E x : loop' = [loop EXCEPT ![e] = x]
        BY <3>1 DEF WriteSeq, ReadSeq, HaveConnection
      <4> QED
        BY <1>0, <1>2, <4>1, <4>2 DEF TypeOK
    <3>2. ASSUME NEW e \in Devices, RunDeferred(e) PROVE loop'[d] = loop[d]
      BY <1>0, <1>2, <3>2 DEF RunDeferred, TypeOK
    <3>3. ASSUME NEW e \in Devices, ConnectCallback(e) \/ DanglingCallback(e)
          PROVE  loop'[d] = loop[d]
      <4>1. loop' = [loop EXCEPT ![e] = Idle]
        BY <3>3 DEF ConnectCallback, DanglingCallback
      <4>2. CASE e # d
        BY <1>0, <4>1, <4>2 DEF TypeOK
      <4>3. CASE e = d
        <5>1. ASSUME ConnectCallback(d) PROVE state' = [state EXCEPT ![p] = "CONNECTED"]
          BY <1>2, <5>1 DEF ConnectCallback, IsCall
        <5>2. ASSUME DanglingCallback(d) PROVE pc[p[1]] = "gone" /\ state' = state
          BY <1>2, <5>2 DEF DanglingCallback, IsCall
        <5>3. state'[p] \in {"CONNECTED", "CLOSED"}
          BY <1>0, <3>3, <4>3, <5>1, <5>2 DEF StatesRight, TypeOK
        <5> QED
          BY <5>3 DEF Settled
      <4> QED
        BY <4>2, <4>3
    <3>4. ASSUME NEW i \in Ranks,
                 \/ CreatePair(i) \/ Publish(i) \/ PairConnect(i) \/ StoreTimeout(i)
                 \/ DeviceConnect(i) \/ Connected(i) \/ ConnectTimeout(i) \/ Unwind(i)
          PROVE  UNCHANGED loop
      BY <3>4 DEF CreatePair, Publish, PairConnect, StoreTimeout, DeviceConnect, Connected,
                  ConnectTimeout, Unwind
    <3>5. ASSUME NEW e \in Devices, EnforceFails(e) \/ \E q \in Pairs : HandleEof(e, q)
          PROVE  UNCHANGED loop
      BY <3>5 DEF EnforceFails, HandleEof
    <3>6. ASSUME UNCHANGED vars PROVE UNCHANGED loop
      BY <3>6 DEF vars
    <3> QED
      BY <3>1, <3>2, <3>3, <3>4, <3>5, <3>6, Actions
  <2> QED
    BY <1>2, <2>1 DEF ToBeCalled, IsCall
<1>3. ASSUME NEW k \in DOMAIN deferred[d], IsCall(deferred[d][k], p, c)
      PROVE  ToBeCalled(d, p, c)'
  <2>1. ASSUME NEW l \in DOMAIN deferred'[d], deferred'[d][l] = deferred[d][k]
        PROVE  ToBeCalled(d, p, c)'
    BY <1>3, <2>1 DEF ToBeCalled, IsCall
  <2>2. ASSUME NEW e \in Devices, RunDeferred(e) PROVE ToBeCalled(d, p, c)'
    <3>1. CASE e # d
      <4>1. deferred'[d] = deferred[d]
        BY <1>0, <2>2, <3>1 DEF TypeOK, RunDeferred
      <4> QED
        BY <2>1, <4>1
    <3>2. CASE e = d /\ k = 1
      <4>1. loop'[d] = deferred[d][1] /\ loop'[d] \in Callback
        BY <1>0, <1>1, <1>3, <2>2, <3>2 DEF TypeOK, RunDeferred
      <4> QED
        BY <1>3, <3>2, <4>1, CallbackTypes DEF ToBeCalled, IsCall
    <3>3. CASE e = d /\ k # 1
      <4>1. deferred'[d] = Tail(deferred[d]) /\ deferred[d] # <<>>
        BY <1>0, <2>2, <3>3 DEF TypeOK, RunDeferred
      <4>2. k - 1 \in DOMAIN deferred'[d] /\ deferred'[d][k - 1] = deferred[d][k]
        BY <1>1, <1>3, <3>3, <4>1
      <4> QED
        BY <2>1, <4>2
    <3> QED
      BY <3>1, <3>2, <3>3
  <2>3. ASSUME NEW i \in Ranks, DeviceConnect(i) PROVE ToBeCalled(d, p, c)'
    <3>0. PICK q, e, s : q = Current(i) /\ e = Local(q).device /\ s = Local(q).seq
      OBVIOUS
    <3>1. \/ deferred' = deferred
          \/ \E x \in seqToSocket[e] : deferred' = [deferred EXCEPT ![e] =
               Append(@, [pair |-> q, socket |-> x[2], error |-> FALSE])]
      BY <2>3, <3>0 DEF DeviceConnect, WaitForConnection, listener
    <3>2. deferred'[d] = deferred[d] \/ \E cb : deferred'[d] = Append(deferred[d], cb)
      <4>1. ASSUME NEW cb, deferred' = [deferred EXCEPT ![e] = Append(@, cb)]
            PROVE  deferred'[d] = deferred[d] \/ deferred'[d] = Append(deferred[d], cb)
        BY <1>0, <4>1 DEF TypeOK
      <4> QED
        BY <3>1, <4>1
    <3>3. k \in DOMAIN deferred'[d] /\ deferred'[d][k] = deferred[d][k]
      BY <1>1, <1>3, <3>2
    <3> QED
      BY <2>1, <3>3
  <2>4. ASSUME NEW e \in Devices, NEW q \in Pairs, ReadSeq(e, q) PROVE UNCHANGED deferred
    BY <2>4 DEF ReadSeq, HaveConnection, listener
  <2>5. ASSUME UNCHANGED deferred PROVE ToBeCalled(d, p, c)'
    BY <1>3, <2>1, <2>5
  <2> QED
    BY <2>2, <2>3, <2>4, <2>5, Handing DEF listener
<1> QED
  BY <1>2, <1>3 DEF ToBeCalled

LEMMA DialledStep ==
  ASSUME RouteInv, StartedReady, OnlyCalled, StatesRight, DialledArrives, [Next]_vars
  PROVE  DialledArrives'
<1>0. TypeOK
  BY DEF RouteInv
<1>1. ASSUME NEW p \in Pairs, Started(p)', Initiates(p)' PROVE conn'[p].stage # "none"
  <2>0. p[1] \in Ranks /\ PairDevice(p) \in Devices
    BY PairsArePairs
  <2>1. CASE Started(p)
    <3>1. Initiates(p)
      BY <1>1, <2>1, Stable DEF StartedReady
    <3> QED
      BY <2>1, <3>1, StageMoves DEF DialledArrives
  <2>2. CASE DeviceConnect(p[1]) /\ p = Current(p[1])
    <3>1. Ready(p)
      BY <2>0, <2>2, DeviceConnectEffect
    <3>2. Initiates(p)
      BY <1>1, <3>1, Stable
    <3>3. conn'[p].stage = "connecting"
      BY <1>0, <2>2, <3>2 DEF DeviceConnect, Initiates, TypeOK
    <3> QED
      BY <3>3
  <2> QED
    BY <1>1, <2>1, <2>2, CalledStays
<1>2. ASSUME NEW p \in Pairs, conn'[p].stage \in {"written", "routed"}
      PROVE  ToBeCalled(PairDevice(p), p, p)' \/ Settled(p)'
  <2>0. PairDevice(p) \in Devices /\ PairDevice(p)' = PairDevice(p)
    BY PairsArePairs DEF PairDevice
  <2>1. CASE conn[p].stage \in {"written", "routed"}
    BY <2>0, <2>1, ArrivalStays DEF DialledArrives
  <2>2. CASE loop'[PairDevice(p)] = [pair |-> p, socket |-> p, error |-> FALSE]
    <3>1. PICK d \in Devices : d = PairDevice(p)
      BY <2>0
    <3>2. [pair |-> p, socket |-> p, error |-> FALSE] # Idle
      BY CallbackTypes
    <3>3. loop'[d] # Idle /\ loop'[d].pair = p /\ loop'[d].socket = p /\ ~loop'[d].error
      BY <2>2, <3>1, <3>2
    <3>4. ToBeCalled(d, p, p)'
      BY <3>3 DEF ToBeCalled, IsCall
    <3> QED
      BY <2>0, <3>1, <3>4
  <2> QED
    BY <1>2, <2>1, <2>2, StageMoves
<1> QED
  BY <1>1, <1>2 DEF DialledArrives

LEMMA ClosedStep ==
  ASSUME RouteInv, OnlyCalled, ClosedForAReason, [Next]_vars
  PROVE  ClosedForAReason'
<1>0. TypeOK
  BY DEF RouteInv
<1> SUFFICES ASSUME NEW p \in Pairs, (state[p] = "CLOSED" \/ ex[p] \/ p \in shut)' PROVE GaveUp'
  BY DEF ClosedForAReason
<1>1. p[1] \in Ranks /\ Peer(p) \in Pairs
  BY PairsArePairs
<1>2. CASE state[p] = "CLOSED" \/ ex[p] \/ p \in shut
  BY <1>2, GaveUpStays DEF ClosedForAReason
<1>3. CASE pc'[p[1]] \in {"threw", "gone"}
  BY <1>1, <1>3 DEF GaveUp
<1>4. ASSUME NEW d \in Devices, loop[d] # Idle, loop[d].pair = p, loop[d].error PROVE GaveUp'
  <2>1. conn[p].stage = "lost"
    BY <1>4 DEF OnlyCalled
  <2> QED
    BY <2>1, GaveUpStays DEF GaveUp
<1>5. CASE Peer(p) \in shut
  BY <1>1, <1>5, GaveUpStays DEF ClosedForAReason
<1> QED
  BY <1>2, <1>3, <1>4, <1>5, PairMoves

(* Parked sockets leave by a callback deferred, and parked callbacks by    *)
(* one made.                                                               *)
LEMMA ParkedLeave ==
  ASSUME RouteInv, [Next]_vars, NEW p \in Pairs, NEW d \in Devices, NEW s \in Nat
  PROVE  /\ <<s, Peer(p)>> \in seqToSocket[d] /\ <<s, Peer(p)>> \notin seqToSocket'[d] =>
              ToBeCalled(d, p, Peer(p))'
         /\ <<s, p>> \in seqToCallback[d] /\ <<s, p>> \notin seqToCallback'[d] =>
              ToBeCalled(d, p, Peer(p))'
<1>0. TypeOK
  BY DEF RouteInv
<1>1. ASSUME <<s, Peer(p)>> \in seqToSocket[d], <<s, Peer(p)>> \notin seqToSocket'[d]
      PROVE  ToBeCalled(d, p, Peer(p))'
  <2>1. ASSUME UNCHANGED seqToSocket PROVE FALSE
    BY <1>1, <2>1
  <2>2. ASSUME NEW e \in Devices, NEW c \in Pairs, ReadSeq(e, c) PROVE FALSE
    <3>1. UNCHANGED seqToSocket \/ \E x : seqToSocket' = [seqToSocket EXCEPT ![e] = @ \cup {x}]
      BY <2>2 DEF ReadSeq, HaveConnection, listener
    <3>2. seqToSocket[d] \subseteq seqToSocket'[d]
      BY <1>0, <3>1 DEF TypeOK
    <3> QED
      BY <1>1, <3>2
  <2>3. ASSUME NEW e \in Devices, RunDeferred(e) PROVE UNCHANGED seqToSocket
    BY <2>3 DEF RunDeferred
  <2>4. ASSUME NEW i \in Ranks, DeviceConnect(i) PROVE ToBeCalled(d, p, Peer(p))'
    <3>0. PICK q, e, t : q = Current(i) /\ e = Local(q).device /\ t = Local(q).seq
      OBVIOUS
    <3>1. q \in Pairs
      BY <2>4, <3>0, DeviceConnectEffect
    <3>2. \/ /\ Initiates(q)
             /\ conn' = [conn EXCEPT ![q] = [stage |-> "connecting",
                           device |-> Remote(q).device, seq |-> Remote(q).seq]]
             /\ UNCHANGED listener
          \/ /\ ~Initiates(q)
             /\ \A x \in seqToSocket[e] : x[1] # t
             /\ seqToCallback' = [seqToCallback EXCEPT ![e] = @ \cup {<<t, q>>}]
             /\ UNCHANGED <<conn, seqToSocket, deferred>>
          \/ /\ ~Initiates(q)
             /\ <<t, Peer(q)>> \in seqToSocket[e]
             /\ seqToSocket' = [seqToSocket EXCEPT ![e] = @ \ {<<t, Peer(q)>>}]
             /\ deferred' = [deferred EXCEPT ![e] =
                  Append(@, [pair |-> q, socket |-> Peer(q), error |-> FALSE])]
             /\ UNCHANGED <<conn, seqToCallback>>
      BY <2>4, <3>0, DeviceConnectEffect
    <3> DEFINE cb == [pair |-> q, socket |-> Peer(q), error |-> FALSE]
    <3>3. /\ seqToSocket' = [seqToSocket EXCEPT ![e] = @ \ {<<t, Peer(q)>>}]
          /\ deferred' = [deferred EXCEPT ![e] = Append(@, cb)]
      BY <2>1, <3>2 DEF listener
    <3>4. d = e /\ <<s, Peer(p)>> = <<t, Peer(q)>>
      BY <1>0, <1>1, <3>3 DEF TypeOK
    <3>5. Peer(p) = Peer(q)
      BY <3>4
    <3>6. p = q
      BY <3>1, <3>5, PairsArePairs
    <3>7. cb.pair = p /\ cb.socket = Peer(p) /\ ~cb.error
      BY <3>6
    <3> HIDE DEF cb
    <3>8. deferred[d] \in Seq(Callback) /\ deferred'[d] = Append(deferred[d], cb)
      BY <1>0, <3>3, <3>4 DEF TypeOK
    <3>9. Len(deferred[d]) + 1 \in DOMAIN deferred'[d] /\ deferred'[d][Len(deferred[d]) + 1] = cb
      BY <3>8
    <3> QED
      BY <3>7, <3>9 DEF ToBeCalled, IsCall
  <2> QED
    BY <2>1, <2>2, <2>3, <2>4, Handing DEF listener
<1>2. ASSUME <<s, p>> \in seqToCallback[d], <<s, p>> \notin seqToCallback'[d]
      PROVE  ToBeCalled(d, p, Peer(p))'
  <2>1. ASSUME UNCHANGED seqToCallback PROVE FALSE
    BY <1>2, <2>1
  <2>2. ASSUME NEW e \in Devices, NEW c \in Pairs, ReadSeq(e, c) PROVE ToBeCalled(d, p, Peer(p))'
    <3>0. PICK q, t : q = Peer(c) /\ t = Local(q).seq
      OBVIOUS
    <3>1. /\ q \in Pairs /\ Ready(q) /\ ~Initiates(q) /\ c = Peer(q) /\ t \in Nat
          /\ conn[c].stage = "written" /\ e = Local(q).device /\ loop[e] = Idle
          /\ \/ conn' = [conn EXCEPT ![c].stage = "lost"] /\ UNCHANGED <<listener, loop>>
             \/ /\ conn' = [conn EXCEPT ![c].stage = "routed"]
                /\ \A x \in seqToCallback[e] : x[1] # t
                /\ seqToSocket' = [seqToSocket EXCEPT ![e] = @ \cup {<<t, c>>}]
                /\ UNCHANGED <<seqToCallback, deferred, loop>>
             \/ /\ conn' = [conn EXCEPT ![c].stage = "routed"]
                /\ <<t, q>> \in seqToCallback[e]
                /\ seqToCallback' = [seqToCallback EXCEPT ![e] = @ \ {<<t, q>>}]
                /\ loop' = [loop EXCEPT ![e] = [pair |-> q, socket |-> c, error |-> FALSE]]
                /\ UNCHANGED <<seqToSocket, deferred>>
      BY <2>2, <3>0, ReadSeqEffect
    <3>2. /\ seqToCallback' = [seqToCallback EXCEPT ![e] = @ \ {<<t, q>>}]
          /\ loop' = [loop EXCEPT ![e] = [pair |-> q, socket |-> c, error |-> FALSE]]
      BY <2>1, <3>1 DEF listener
    <3>3. d = e /\ <<s, p>> = <<t, q>>
      BY <1>0, <1>2, <3>2 DEF TypeOK
    <3>4. p = q
      BY <3>3
    <3>5. loop'[d] = [pair |-> p, socket |-> Peer(p), error |-> FALSE]
      BY <1>0, <3>1, <3>2, <3>3, <3>4 DEF TypeOK
    <3>6. [pair |-> p, socket |-> Peer(p), error |-> FALSE] # Idle
      BY CallbackTypes, PairsArePairs
    <3>7. loop'[d] # Idle /\ loop'[d].pair = p /\ loop'[d].socket = Peer(p) /\ ~loop'[d].error
      BY <3>5, <3>6
    <3> QED
      BY <3>7 DEF ToBeCalled, IsCall
  <2>3. ASSUME NEW e \in Devices, RunDeferred(e) PROVE UNCHANGED seqToCallback
    BY <2>3 DEF RunDeferred
  <2>4. ASSUME NEW i \in Ranks, DeviceConnect(i) PROVE FALSE
    <3>1. UNCHANGED seqToCallback \/ \E e, x : seqToCallback' = [seqToCallback EXCEPT ![e] = @ \cup {x}]
      BY <2>4 DEF DeviceConnect, WaitForConnection, listener
    <3>2. seqToCallback[d] \subseteq seqToCallback'[d]
      BY <1>0, <3>1 DEF TypeOK
    <3> QED
      BY <1>2, <3>2
  <2> QED
    BY <2>1, <2>2, <2>3, <2>4, Handing DEF listener
<1> QED
  BY <1>1, <1>2

LEMMA AwaitedStep ==
  ASSUME RouteInv, StartedReady, OnlyCalled, StatesRight, AwaitedArrives, [Next]_vars
  PROVE  AwaitedArrives'
<1>0. TypeOK /\ Addresses /\ Routing
  BY DEF RouteInv
<1> SUFFICES ASSUME NEW p \in Pairs
             PROVE  /\ (conn[Peer(p)].stage = "routed" =>
                          \/ <<Local(p).seq, Peer(p)>> \in seqToSocket[Local(p).device]
                          \/ ToBeCalled(Local(p).device, p, Peer(p)) \/ Settled(p))'
                    /\ (Started(p) /\ ~Initiates(p) =>
                          \/ <<Local(p).seq, p>> \in seqToCallback[Local(p).device]
                          \/ ToBeCalled(Local(p).device, p, Peer(p)) \/ Settled(p))'
  BY DEF AwaitedArrives
<1>1. PICK d, s, c : d = Local(p).device /\ s = Local(p).seq /\ c = Peer(p)
  OBVIOUS
<1>2. c \in Pairs /\ Peer(c) = p /\ p[1] \in Ranks
  BY <1>1, PairsArePairs
<1>3. Ready(p) => d \in Devices /\ s \in Nat
  BY <1>0, <1>1, AddressOfReady
<1>4. Ready(p) => Local(p)'.device = d /\ Local(p)'.seq = s
  BY <1>1, Stable
<1>5. Peer(p)' = Peer(p)
  BY DEF Peer
<1>6. ASSUME conn'[c].stage = "routed"
      PROVE  /\ Ready(p)
             /\ <<s, c>> \in seqToSocket'[d] \/ ToBeCalled(d, p, c)' \/ Settled(p)'
  <2>1. conn[c].stage \in {"written", "routed"}
    BY <1>2, <1>6, StageMoves
  <2>2. Ready(c)
    BY <1>0, <1>2, <2>1 DEF Routing, ConnRight
  <2>3. Ready(p)
    BY <1>0, <1>2, <2>2, AddressOfReady
  <2>4. d \in Devices /\ s \in Nat
    BY <1>3, <2>3
  <2>5. CASE conn[c].stage = "routed"
    <3>1. <<s, c>> \in seqToSocket[d] \/ ToBeCalled(d, p, c) \/ Settled(p)
      BY <1>1, <2>5 DEF AwaitedArrives
    <3> QED
      BY <1>1, <1>2, <2>3, <2>4, <3>1, ParkedLeave, ArrivalStays
  <2>6. ASSUME NEW e \in Devices, ReadSeq(e, c)
        PROVE  <<s, c>> \in seqToSocket'[d] \/ ToBeCalled(d, p, c)'
    <3>1. e = d
      <4>1. conn[c].device = e
        BY <2>6 DEF ReadSeq
      <4>2. conn[c].device = Remote(c).device
        BY <1>0, <1>2, <2>1 DEF Routing, ConnRight
      <4>3. Remote(c) = Local(p)
        BY <1>0, <1>2, <2>2, AddressOfReady
      <4> QED
        BY <1>1, <4>1, <4>2, <4>3
    <3>2. \/ conn' = [conn EXCEPT ![c].stage = "lost"] /\ UNCHANGED <<listener, loop>>
          \/ /\ conn' = [conn EXCEPT ![c].stage = "routed"]
             /\ \A x \in seqToCallback[e] : x[1] # s
             /\ seqToSocket' = [seqToSocket EXCEPT ![e] = @ \cup {<<s, c>>}]
             /\ UNCHANGED <<seqToCallback, deferred, loop>>
          \/ /\ conn' = [conn EXCEPT ![c].stage = "routed"]
             /\ <<s, p>> \in seqToCallback[e]
             /\ seqToCallback' = [seqToCallback EXCEPT ![e] = @ \ {<<s, p>>}]
             /\ loop' = [loop EXCEPT ![e] = [pair |-> p, socket |-> c, error |-> FALSE]]
             /\ UNCHANGED <<seqToSocket, deferred>>
      BY <1>1, <1>2, <2>6, ReadSeqEffect
    <3>3. CASE conn' = [conn EXCEPT ![c].stage = "lost"]
      <4>1. "lost" \in Stages
        BY DEF Stages
      <4>2. c \in Pairs
        BY <1>2
      <4>3. conn'[c].stage = "lost"
        BY <1>0, <3>3, <4>1, <4>2, StageTypes, ZenonT(30)
      <4> QED
        BY <1>6, <4>3
    <3>4. CASE seqToSocket' = [seqToSocket EXCEPT ![e] = @ \cup {<<s, c>>}]
      BY <1>0, <2>4, <3>1, <3>4 DEF TypeOK
    <3>5. CASE /\ <<s, p>> \in seqToCallback[e]
               /\ seqToCallback' = [seqToCallback EXCEPT ![e] = @ \ {<<s, p>>}]
      <4>1. <<s, p>> \notin seqToCallback'[e]
        BY <1>0, <3>5 DEF TypeOK
      <4> QED
        BY <1>1, <2>4, <3>1, <3>5, <4>1, ParkedLeave
    <3> QED
      BY <3>2, <3>3, <3>4, <3>5
  <2> QED
    BY <1>2, <1>6, <2>1, <2>3, <2>5, <2>6, StageMoves
<1>7. ASSUME Started(p)', ~Initiates(p)'
      PROVE  /\ Ready(p)
             /\ <<s, p>> \in seqToCallback'[d] \/ ToBeCalled(d, p, c)' \/ Settled(p)'
  <2>1. CASE Started(p)
    <3>1. Ready(p) /\ ~Initiates(p)
      BY <1>7, <2>1, Stable DEF StartedReady
    <3>2. <<s, p>> \in seqToCallback[d] \/ ToBeCalled(d, p, c) \/ Settled(p)
      BY <1>1, <2>1, <3>1 DEF AwaitedArrives
    <3> QED
      BY <1>1, <1>2, <1>3, <3>1, <3>2, ParkedLeave, ArrivalStays
  <2>2. CASE DeviceConnect(p[1]) /\ p = Current(p[1])
    <3>1. PICK i \in Ranks : DeviceConnect(i) /\ p = Current(i)
      BY <1>2, <2>2
    <3>2. PICK q, e, t : q = Current(i) /\ e = Local(q).device /\ t = Local(q).seq
      OBVIOUS
    <3>3. q = p /\ e = d /\ t = s
      BY <1>1, <3>1, <3>2
    <3>4. Ready(p)
      BY <1>2, <2>2, DeviceConnectEffect
    <3>5. ~Initiates(p) /\ d \in Devices /\ s \in Nat
      BY <1>3, <1>7, <3>4, Stable
    <3>6. \/ /\ Initiates(q)
             /\ conn' = [conn EXCEPT ![q] = [stage |-> "connecting",
                           device |-> Remote(q).device, seq |-> Remote(q).seq]]
             /\ UNCHANGED listener
          \/ /\ ~Initiates(q)
             /\ \A x \in seqToSocket[e] : x[1] # t
             /\ seqToCallback' = [seqToCallback EXCEPT ![e] = @ \cup {<<t, q>>}]
             /\ UNCHANGED <<conn, seqToSocket, deferred>>
          \/ /\ ~Initiates(q)
             /\ <<t, Peer(q)>> \in seqToSocket[e]
             /\ seqToSocket' = [seqToSocket EXCEPT ![e] = @ \ {<<t, Peer(q)>>}]
             /\ deferred' = [deferred EXCEPT ![e] =
                  Append(@, [pair |-> q, socket |-> Peer(q), error |-> FALSE])]
             /\ UNCHANGED <<conn, seqToCallback>>
      BY <3>1, <3>2, DeviceConnectEffect
    <3>7. CASE seqToCallback' = [seqToCallback EXCEPT ![d] = @ \cup {<<s, p>>}]
      BY <1>0, <3>4, <3>5, <3>7 DEF TypeOK
    <3>8. CASE /\ <<s, Peer(p)>> \in seqToSocket[d]
               /\ seqToSocket' = [seqToSocket EXCEPT ![d] = @ \ {<<s, Peer(p)>>}]
      <4>1. <<s, Peer(p)>> \notin seqToSocket'[d]
        BY <1>0, <3>5, <3>8 DEF TypeOK
      <4> QED
        BY <1>1, <3>4, <3>5, <3>8, <4>1, ParkedLeave
    <3> QED
      BY <3>3, <3>5, <3>6, <3>7, <3>8
  <2> QED
    BY <1>7, <2>1, <2>2, CalledStays
<1>8. (conn[Peer(p)].stage = "routed" =>
         \/ <<Local(p).seq, Peer(p)>> \in seqToSocket[Local(p).device]
         \/ ToBeCalled(Local(p).device, p, Peer(p)) \/ Settled(p))'
  <2> SUFFICES ASSUME conn'[Peer(p)].stage = "routed"
               PROVE  \/ <<Local(p)'.seq, Peer(p)>> \in seqToSocket'[Local(p)'.device]
                      \/ ToBeCalled(Local(p).device, p, Peer(p))' \/ Settled(p)'
    BY <1>5
  <2>1. /\ Ready(p)
        /\ <<s, c>> \in seqToSocket'[d] \/ ToBeCalled(d, p, c)' \/ Settled(p)'
    BY <1>1, <1>6
  <2>2. ToBeCalled(Local(p).device, p, Peer(p))' <=> ToBeCalled(d, p, c)'
    BY <1>1, <1>4, <1>5, <2>1 DEF ToBeCalled
  <2> QED
    BY <1>1, <1>4, <2>1, <2>2
<1>9. (Started(p) /\ ~Initiates(p) =>
         \/ <<Local(p).seq, p>> \in seqToCallback[Local(p).device]
         \/ ToBeCalled(Local(p).device, p, Peer(p)) \/ Settled(p))'
  <2> SUFFICES ASSUME Started(p)', ~Initiates(p)'
               PROVE  \/ <<Local(p)'.seq, p>> \in seqToCallback'[Local(p)'.device]
                      \/ ToBeCalled(Local(p).device, p, Peer(p))' \/ Settled(p)'
    OBVIOUS
  <2>1. /\ Ready(p)
        /\ <<s, p>> \in seqToCallback'[d] \/ ToBeCalled(d, p, c)' \/ Settled(p)'
    BY <1>7
  <2>2. ToBeCalled(Local(p).device, p, Peer(p))' <=> ToBeCalled(d, p, c)'
    BY <1>1, <1>4, <1>5, <2>1 DEF ToBeCalled
  <2> QED
    BY <1>4, <2>1, <2>2
<1> QED
  BY <1>8, <1>9

LEMMA InitMesh == Init => MeshInv
<1> SUFFICES ASSUME Init PROVE MeshInv
  OBVIOUS
<1>1. RouteInv
  BY InitRoute
<1>2. /\ \A i \in Ranks : pc[i] = "create"
      /\ \A p \in Pairs : conn[p].stage = "none" /\ state[p] = "INITIALIZING" /\ ~ex[p]
      /\ \A d \in Devices : loop[d] = Idle /\ deferred[d] = <<>> /\ seqToCallback[d] = {}
      /\ shut = {}
  BY DEF Init
<1>3. \A p \in Pairs : p[1] \in Ranks /\ Peer(p) \in Pairs
  BY PairsArePairs
<1>4. \A p \in Pairs : ~Started(p) /\ ~Called(p)
  BY <1>2, <1>3 DEF Started, Called
<1>5. StartedReady /\ OnlyCalled
  BY <1>2, <1>4 DEF StartedReady, OnlyCalled
<1>6. StatesRight
  BY <1>2, <1>3 DEF StatesRight, Settled
<1>7. NotBothParked
  BY <1>2 DEF NotBothParked
<1>8. DialledArrives /\ AwaitedArrives
  BY <1>2, <1>3, <1>4 DEF DialledArrives, AwaitedArrives
<1>9. ClosedForAReason
  BY <1>2 DEF ClosedForAReason
<1> QED
  BY <1>1, <1>5, <1>6, <1>7, <1>8, <1>9 DEF MeshInv

LEMMA MeshStep ==
  ASSUME MeshInv, [Next]_vars
  PROVE  MeshInv'
BY RouteStep, StartedReadyStep, OnlyCalledStep, StatesStep, NotBothParkedStep, DialledStep,
   AwaitedStep, ClosedStep DEF MeshInv

-----------------------------------------------------------------------------
(* When all is quiet.                                                      *)
LEMMA QuietNoCalls ==
  ASSUME Quiescent, NEW d \in Devices, NEW p, NEW c
  PROVE  ~ToBeCalled(d, p, c)
BY DEF Quiescent, ToBeCalled

LEMMA QuietNotClosed ==
  ASSUME MeshInv, Quiescent, \A p \in Pairs : conn[p].stage # "lost"
  PROVE  \A p \in Pairs : state[p] # "CLOSED" /\ (Settled(p) => state[p] = "CONNECTED")
BY DEF MeshInv, ClosedForAReason, GaveUp, Quiescent, Settled

LEMMA QuietThreads ==
  ASSUME MeshInv, Quiescent, NEW i \in Ranks
  PROVE  \/ pc[i] = "done" /\ cur[i] = Size
         \/ pc[i] = "waiting" /\ ~Settled(Current(i))
<1>0. TypeOK /\ Addresses /\ Threads /\ StatesRight
  BY DEF MeshInv, RouteInv
<1>1. ASSUME pc[i] = "connect", store[Current(i)[2]] = <<>> PROVE FALSE
  <2>1. PICK j \in Ranks : j = Current(i)[2]
    BY <1>0, <1>1, CurrentPair, PairsArePairs
  <2>2. pc[j] # "create"
    BY DEF Quiescent
  <2>3. store[j] = allAddrs[j] /\ Len(allAddrs[j]) = Size - 1
    BY <1>0, <2>2 DEF Addresses
  <2>4. store[j] = <<>>
    BY <1>1, <2>1
  <2> QED
    BY <2>3, <2>4, SizeAssumption
<1>2. ASSUME pc[i] = "done" PROVE cur[i] = Size
  <2>1. PICK j \in Ranks : j # i
    BY SizeAssumption DEF Ranks
  <2>2. <<i, j>> \in Pairs /\ <<i, j>>[1] = i
    BY <2>1, PairsArePairs
  <2> QED
    BY <1>0, <1>2, <2>2 DEF StatesRight
<1>3. ASSUME pc[i] = "waiting", state[Current(i)] = "CONNECTING" PROVE ~Settled(Current(i))
  BY <1>3 DEF Settled
<1> QED
  BY <1>1, <1>2, <1>3 DEF Quiescent

(* A pair that dialled is connected, and so is a pair whose peer dialled   *)
(* or waits as well.                                                       *)
LEMMA QuietSettled ==
  ASSUME MeshInv, Quiescent, \A q \in Pairs : conn[q].stage # "lost",
         NEW p \in Pairs, Started(p), Initiates(p) \/ Started(Peer(p))
  PROVE  Settled(p)
<1>0. /\ TypeOK /\ Addresses /\ Routing /\ StartedReady /\ DialledArrives /\ AwaitedArrives
      /\ NotBothParked
  BY DEF MeshInv, RouteInv
<1>1. Ready(p) /\ PairDevice(p) \in Devices
  BY <1>0, PairsArePairs DEF StartedReady
<1>2. ASSUME NEW q \in Pairs, Started(q), Initiates(q) PROVE conn[q].stage = "routed"
  <2>1. conn[q].stage # "none"
    BY <1>0, <1>2 DEF DialledArrives
  <2>2. conn[q].stage \in Stages
    BY <1>0 DEF TypeOK
  <2> QED
    BY <2>1, <2>2 DEF Quiescent, Stages
<1>3. CASE Initiates(p)
  BY <1>0, <1>1, <1>2, <1>3, QuietNoCalls DEF DialledArrives
<1>4. CASE ~Initiates(p)
  <2>1. PICK c, d, s : c = Peer(p) /\ d = Local(p).device /\ s = Local(p).seq
    OBVIOUS
  <2>2. c \in Pairs /\ Started(c) /\ Initiates(c) /\ d \in Devices
    BY <1>0, <1>1, <1>4, <2>1, PairsArePairs, OneInitiates, AddressOfReady
  <2>3. conn[c].stage = "routed"
    BY <1>2, <2>2
  <2>4. ~ToBeCalled(d, p, c)
    BY <2>2, QuietNoCalls
  <2>5. <<s, c>> \in seqToSocket[d] \/ Settled(p)
    BY <1>0, <2>1, <2>3, <2>4 DEF AwaitedArrives
  <2>6. <<s, p>> \in seqToCallback[d] \/ Settled(p)
    BY <1>0, <1>4, <2>1, <2>4 DEF AwaitedArrives
  <2>7. <<s, p>>[1] = <<s, c>>[1]
    OBVIOUS
  <2> QED
    BY <1>0, <2>2, <2>5, <2>6, <2>7 DEF NotBothParked
<1> QED
  BY <1>3, <1>4

(* A non-empty set of natural numbers has a least element.                 *)
LEMMA LeastNatural ==
  ASSUME NEW D, D \subseteq Nat, D # {}
  PROVE  \E m \in D : \A k \in D : m <= k
<1>1. PICK m \in D : \A k \in D : ~(<<k, m>> \in OpToRel(<, Nat))
  BY WFMin, NatLessThanWellFounded
<1>2. \A k \in D : ~(k < m)
  BY <1>1 DEF OpToRel
<1> QED
  BY <1>2

(* The least rank that waits would wait for a rank that waits for a lesser *)
(* one: every rank connects to its peers in the order of the ranks.        *)
LEMMA QuietDone ==
  ASSUME MeshInv, Quiescent, \A q \in Pairs : conn[q].stage # "lost"
  PROVE  \A i \in Ranks : pc[i] = "done" /\ cur[i] = Size
<1>0. TypeOK /\ Threads
  BY DEF MeshInv, RouteInv
<1> DEFINE Waiting == {i \in Ranks : pc[i] = "waiting"}
<1>1. ASSUME Waiting # {} PROVE FALSE
  <2>1. PICK i \in Waiting : \A k \in Waiting : i <= k
    <3>1. Waiting \subseteq Nat
      BY SizeAssumption DEF Ranks
    <3> HIDE DEF Waiting
    <3> QED
      BY <1>1, <3>1, LeastNatural
  <2>2. PICK p \in Pairs : p = Current(i)
    BY <1>0, CurrentPair
  <2>3. /\ p[1] = i /\ p[2] \in Ranks \ {i} /\ PlaceOf(i, p[2]) = cur[i] /\ ~Settled(p)
        /\ Peer(p) \in Pairs /\ Peer(p)[1] = p[2] /\ Peer(p)[2] = i
    BY <1>0, <2>2, CurrentPair, PairsArePairs, QuietThreads
  <2>4. Started(p)
    BY <2>3 DEF Started
  <2>5. ~Started(Peer(p))
    BY <2>3, <2>4, QuietSettled
  <2>6. PICK j \in Ranks : j = p[2]
    BY <2>3
  <2>7. PlaceOf(j, i) \in 1 .. Size - 1 /\ cur[j] \in 1 .. Size
    BY <1>0, <2>3, <2>6, Places DEF TypeOK
  <2>8. pc[j] = "waiting" /\ cur[j] < PlaceOf(j, i)
    BY <2>3, <2>5, <2>6, <2>7, QuietThreads, SizeAssumption DEF Started
  <2>9. PICK r \in Pairs : r = Current(j)
    BY <1>0, <2>8, CurrentPair
  <2>10. /\ r[1] = j /\ r[2] \in Ranks \ {j} /\ PlaceOf(j, r[2]) = cur[j] /\ ~Settled(r)
         /\ Peer(r) \in Pairs /\ Peer(r)[1] = r[2] /\ Peer(r)[2] = j
    BY <1>0, <2>8, <2>9, CurrentPair, PairsArePairs, QuietThreads
  <2>11. r[2] < i
    BY <2>3, <2>6, <2>8, <2>10, Places
  <2>12. Started(r)
    BY <2>8, <2>10 DEF Started
  <2>13. PICK k \in Ranks : k = r[2]
    BY <2>10
  <2>14. pc[k] # "waiting"
    BY <2>1, <2>11, <2>13, SizeAssumption DEF Ranks
  <2>15. cur[k] = Size /\ pc[k] = "done"
    BY <2>14, QuietThreads
  <2>16. PlaceOf(k, j) \in 1 .. Size - 1
    BY <2>10, <2>13, Places
  <2>17. Started(Peer(r))
    BY <2>10, <2>13, <2>15, <2>16, SizeAssumption DEF Started
  <2> QED
    BY <2>10, <2>12, <2>17, QuietSettled
<1> QED
  BY <1>1, QuietThreads

(* Whatever the number of ranks and their placement on devices, the        *)
(* threads that connect to each other in different orders, the listeners   *)
(* and the loop threads cannot end up waiting for each other: unless a     *)
(* connection is lost or a rank gives up, a quiet system is a full mesh.   *)
THEOREM ConnectMesh == Spec => []MeshConnects
<1>1. ASSUME MeshInv PROVE MeshConnects
  <2> SUFFICES ASSUME Quiescent, \A p \in Pairs : conn[p].stage # "lost"
               PROVE  /\ \A i \in Ranks : pc[i] = "done"
                      /\ \A p \in Pairs : state[p] = "CONNECTED" /\ fd[p] = fd[Peer(p)]
    BY DEF MeshConnects
  <2>0. /\ TypeOK /\ Addresses /\ Routing /\ StartedReady /\ StatesRight
    BY <1>1 DEF MeshInv, RouteInv
  <2>1. \A i \in Ranks : pc[i] = "done" /\ cur[i] = Size
    BY <1>1, QuietDone
  <2>2. ASSUME NEW p \in Pairs
        PROVE  Ready(p) /\ state[p] = "CONNECTED" /\ fd[p] = OwnConnection(p)
    <3>1. p[1] \in Ranks /\ PlaceOf(p[1], p[2]) \in 1 .. Size - 1
      BY PairsArePairs, Places
    <3>2. Started(p)
      BY <2>1, <3>1, SizeAssumption DEF Started
    <3>3. Settled(p)
      BY <2>0, <2>1, <3>1, SizeAssumption DEF StatesRight
    <3>4. state[p] = "CONNECTED"
      BY <1>1, <3>3, QuietNotClosed
    <3> QED
      BY <2>0, <3>2, <3>4 DEF StartedReady, StatesRight, Routing, DescriptorsRight
  <2>3. ASSUME NEW p \in Pairs PROVE fd[p] = fd[Peer(p)]
    <3>1. Peer(p) \in Pairs /\ Peer(Peer(p)) = p
      BY PairsArePairs
    <3>2. Ready(p) /\ fd[p] = OwnConnection(p) /\ fd[Peer(p)] = OwnConnection(Peer(p))
      BY <2>2, <3>1
    <3>3. Initiates(Peer(p)) <=> ~Initiates(p)
      BY <2>0, <3>2, OneInitiates
    <3> QED
      BY <3>1, <3>2, <3>3 DEF OwnConnection
  <2> QED
    BY <2>1, <2>2, <2>3
<1> QED
  BY <1>1, InitMesh, MeshStep, PTL DEF Spec

-----------------------------------------------------------------------------
(* The first part of connectFullMesh, the exchange of host names, with its *)
(* own variables: before a rank has its pairs it has a local rank.         *)

(* The ranks below n on the host of rank i.                                *)
Below(i, n) == {j \in 0 .. n - 1 : HostOf[j] = HostOf[i]}

(* The inductive invariant: a rank has counted the ranks on its host among *)
(* those it has read, and a key once set holds the host name of its rank.  *)
Counted(i) ==
  /\ nextRank[i] <= i
  /\ localRank[i] = Cardinality(Below(i, nextRank[i]))
  /\ hostNames[i] \in {NoHost, HostOf[i]}
  /\ phase[i] = "create" => nextRank[i] = i

HostInv == HostTypes /\ \A i \in World : Counted(i)

LEMMA BelowFinite ==
  ASSUME NEW i \in World, NEW n \in Nat
  PROVE  /\ IsFiniteSet(Below(i, n)) /\ Cardinality(Below(i, n)) \in Nat
         /\ Cardinality(Below(i, n)) <= n
<1>1. PICK I : I = 0 .. n - 1
  OBVIOUS
<1>2. IsFiniteSet(I) /\ Cardinality(I) = n
  <2>1. n - 1 \in Int /\ (0 > n - 1 => n = 0) /\ (n - 1) - 0 + 1 = n
    OBVIOUS
  <2>2. IsFiniteSet(0 .. n - 1)
        /\ Cardinality(0 .. n - 1) = IF 0 > n - 1 THEN 0 ELSE (n - 1) - 0 + 1
    BY <2>1, FS_Interval
  <2> QED
    BY <1>1, <2>1, <2>2
<1>3. Below(i, n) \in SUBSET I
  BY <1>1 DEF Below
<1> QED
  BY <1>2, <1>3, FS_Subset, FS_CardinalityType

(* Reading one more rank.                                                  *)
LEMMA BelowNext ==
  ASSUME NEW i \in World, NEW n \in Nat
  PROVE  Cardinality(Below(i, n + 1)) =
           IF HostOf[n] = HostOf[i] THEN Cardinality(Below(i, n)) + 1 ELSE Cardinality(Below(i, n))
<1>1. n \notin Below(i, n)
  BY DEF Below
<1>2. CASE HostOf[n] = HostOf[i]
  <2>1. Below(i, n + 1) = Below(i, n) \cup {n}
    BY <1>2 DEF Below
  <2> QED
    BY <1>1, <1>2, <2>1, BelowFinite, FS_AddElement
<1>3. CASE HostOf[n] # HostOf[i]
  <2>1. Below(i, n + 1) = Below(i, n)
    BY <1>3 DEF Below
  <2> QED
    BY <1>3, <2>1
<1> QED
  BY <1>2, <1>3

LEMMA HostInit ==
  ASSUME InitHosts
  PROVE  HostInv
<1>1. 0 \in World
  BY WorldAssumption DEF World
<1>2. HostTypes
  BY <1>1 DEF InitHosts, HostTypes
<1>3. ASSUME NEW i \in World PROVE Counted(i)
  <2>1. Below(i, 0) = {}
    BY DEF Below
  <2>2. i \in Nat /\ 0 <= i
    BY WorldAssumption DEF World
  <2> QED
    BY <2>1, <2>2, FS_EmptySet DEF InitHosts, Counted
<1> QED
  BY <1>2, <1>3 DEF HostInv

LEMMA HostNext ==
  ASSUME GetBlocks, HostInv, [NextHosts]_hostVars
  PROVE  HostInv'
<1>0. HostTypes /\ \A i \in World : Counted(i)
  BY DEF HostInv
<1>1. ASSUME NEW i \in World, SetHostname(i) PROVE HostInv'
  <2>1. HostTypes'
    BY <1>0, <1>1 DEF SetHostname, HostTypes
  <2>2. ASSUME NEW j \in World PROVE Counted(j)'
    <3>1. hostNames'[j] \in {NoHost, HostOf[j]}
      BY <1>0, <1>1 DEF SetHostname, HostTypes, Counted
    <3>2. phase'[j] = "create" => phase[j] = "create"
      BY <1>0, <1>1 DEF SetHostname, HostTypes
    <3>3. UNCHANGED <<nextRank, localRank>>
      BY <1>1 DEF SetHostname
    <3> QED
      BY <1>0, <3>1, <3>2, <3>3 DEF Counted
  <2> QED
    BY <2>1, <2>2 DEF HostInv
<1>2. ASSUME NEW i \in World, GetHostname(i) PROVE HostInv'
  <2>1. UNCHANGED <<hostNames, phase>> /\ phase[i] = "get" /\ nextRank[i] # i
    BY <1>2 DEF GetHostname, ReadsAll
  <2>2. PICK n \in Nat : /\ n = nextRank[i] /\ n \in World /\ i \in Nat
                         /\ n < i /\ n + 1 \in World
    <3>1. nextRank[i] \in World /\ nextRank[i] <= i
      BY <1>0 DEF HostTypes, Counted
    <3> QED
      BY <2>1, <3>1, WorldAssumption DEF World
  <2>3. hostNames[n] = HostOf[n]
    BY <1>0, <1>2, <2>2 DEF GetHostname, Counted
  <2>4. nextRank' = [nextRank EXCEPT ![i] = n + 1]
    BY <1>2, <2>2 DEF GetHostname
  <2>5. localRank' = [localRank EXCEPT ![i] = CountHost(i, HostOf[n])]
    BY <1>2, <2>2, <2>3 DEF GetHostname
  <2>6. CountHost(i, HostOf[n]) = Cardinality(Below(i, n + 1))
    <3>1. localRank[i] = Cardinality(Below(i, n))
      BY <1>0, <2>2 DEF Counted
    <3> QED
      BY <3>1, <2>2, BelowNext DEF CountHost
  <2>7. CountHost(i, HostOf[n]) \in World
    <3>1. n + 1 \in Nat
      OBVIOUS
    <3>2. Cardinality(Below(i, n + 1)) \in Nat /\ Cardinality(Below(i, n + 1)) <= n + 1
      BY <3>1, BelowFinite
    <3> QED
      BY <2>2, <2>6, <3>2, WorldAssumption DEF World
  <2>8. HostTypes'
    BY <1>0, <2>1, <2>2, <2>4, <2>5, <2>7 DEF HostTypes
  <2>9. ASSUME NEW j \in World PROVE Counted(j)'
    <3>1. CASE j = i
      <4>1. nextRank'[i] = n + 1 /\ localRank'[i] = CountHost(i, HostOf[n])
        BY <1>0, <2>4, <2>5 DEF HostTypes
      <4> QED
        BY <1>0, <2>1, <2>2, <2>6, <3>1, <4>1 DEF Counted
    <3>2. CASE j # i
      <4>1. nextRank'[j] = nextRank[j] /\ localRank'[j] = localRank[j]
        BY <1>0, <2>4, <2>5, <3>2 DEF HostTypes
      <4> QED
        BY <1>0, <2>1, <4>1 DEF Counted
    <3> QED
      BY <3>1, <3>2
  <2> QED
    BY <2>8, <2>9 DEF HostInv
<1>3. ASSUME NEW i \in World, GetTimesOut(i) \/ SetLocalRank(i) PROVE HostInv'
  <2>1. UNCHANGED <<hostNames, nextRank, localRank>>
    BY <1>3 DEF GetTimesOut, SetLocalRank
  <2>2. HostTypes'
    BY <1>0, <1>3 DEF GetTimesOut, SetLocalRank, HostTypes
  <2>3. ASSUME NEW j \in World PROVE phase'[j] = "create" => nextRank[j] = j
    BY <1>0, <1>3 DEF GetTimesOut, SetLocalRank, HostTypes, Counted, ReadsAll
  <2> QED
    BY <1>0, <2>1, <2>2, <2>3 DEF HostInv, Counted
<1>4. CASE UNCHANGED hostVars
  BY <1>0, <1>4 DEF hostVars, HostInv, HostTypes, Counted
<1> QED
  BY <1>1, <1>2, <1>3, <1>4 DEF NextHosts, HostRank

(* "Gloo uses the global rank <> hostname mapping to compute local ranks"  *)
(* (connectFullMesh): in whatever order the ranks publish their host names *)
(* and read those of others, a rank that gets past the exchange has        *)
(* counted exactly the lower ranks on its host, if Store::get waits for    *)
(* the key as FileStore and RedisStore do.                                 *)
THEOREM LocalRanksAreRight ==
  ASSUME GetBlocks
  PROVE  HostSpec => []LocalRanksAgree
<1>1. InitHosts => HostInv
  BY HostInit
<1>2. HostInv /\ [NextHosts]_hostVars => HostInv'
  BY HostNext
<1>3. HostInv => LocalRanksAgree
  BY DEF HostInv, Counted, LocalRanksAgree, Below
<1> QED
  BY <1>1, <1>2, <1>3, PTL DEF HostSpec

(* connectFullMesh does nothing but the exchange of host names and the     *)
(* connecting of pairs: what either guarantees by itself holds of both     *)
(* together.                                                               *)
LEMMA MeshParts == FullMeshSpec => Spec /\ HostSpec
<1>1. FullMeshInit => Init /\ InitHosts
  BY DEF FullMeshInit
<1>2. ASSUME [FullMeshNext]_<<vars, hostVars>> PROVE [Next]_vars /\ [NextHosts]_hostVars
  <2>1. ASSUME NEW i \in Ranks, ExchangeHosts(i) PROVE [Next]_vars /\ [NextHosts]_hostVars
    <3>1. i \in World
      BY SameRanks DEF Ranks, World
    <3> QED
      BY <2>1, <3>1 DEF ExchangeHosts, NextHosts
  <2>2. ASSUME NEW i \in Ranks, ConnectPairs(i) PROVE [Next]_vars /\ [NextHosts]_hostVars
    BY <2>2 DEF ConnectPairs, Next
  <2>3. ASSUME (\E d \in Devices : LoopThread(d)) /\ UNCHANGED hostVars
        PROVE  [Next]_vars /\ [NextHosts]_hostVars
    BY <2>3 DEF Next
  <2>4. CASE UNCHANGED <<vars, hostVars>>
    BY <2>4
  <2> QED
    BY <1>2, <2>1, <2>2, <2>3, <2>4 DEF FullMeshNext
<1> QED
  BY <1>1, <1>2, PTL DEF FullMeshSpec, Spec, HostSpec

(* connectFullMesh as a whole, for any number of ranks and any placement   *)
(* on devices and hosts, with ranks that connect while others still read   *)
(* host names: pairs get the connections to their peers, a quiet system is *)
(* a full mesh unless something failed, and, with a store whose get waits, *)
(* the ranks of a host number themselves.                                  *)
THEOREM FullMeshIsRight ==
  ASSUME GetBlocks
  PROVE  FullMeshSpec => [](RoutedToPeer /\ MeshConnects /\ LocalRanksAgree)
<1>1. HostSpec => []LocalRanksAgree
  BY LocalRanksAreRight
<1> QED
  BY <1>1, MeshParts, ConnectRoutesToPeer, ConnectMesh, PTL
=============================================================================
