------------------------------ MODULE MCConnect ------------------------------
EXTENDS FullMesh, TLC

CONSTANTS d1, d2

(* Ranks 0 and 2 share a device, as in the tests, and so a host; rank 1,   *)
(* in between, has a device of its own on another host.                    *)
MCDevices == {d1, d2}
MCDeviceOf == 0 :> d1 @@ 1 :> d2 @@ 2 :> d1
MCAddressOf == d1 :> 1 @@ d2 :> 2
MCHostOf == 0 :> "a" @@ 1 :> "b" @@ 2 :> "a"
=============================================================================
