---------------------------- MODULE MCDeviceHub -----------------------------
(* Small instances of DeviceHub: one connection, or two of one device, so   *)
(* that one may replace the other.                                          *)
EXTENDS DeviceHub, TLC

CONSTANTS c1, c2, u1

OneOfOne == c1 :> u1
TwoOfOne == (c1 :> u1) @@ (c2 :> u1)
=============================================================================
