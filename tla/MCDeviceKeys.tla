---------------------------- MODULE MCDeviceKeys ----------------------------
(* Small instances of DeviceKeys for TLC: two keys of one actor, and one of *)
(* another on the same handsets.                                           *)
EXTENDS DeviceKeys, TLC

CONSTANTS a, b, k1, k2, k3

MCActorOf == (k1 :> a) @@ (k2 :> a) @@ (k3 :> b)

Symmetric == Permutations(Devices) \cup Permutations(Calls)
=============================================================================
