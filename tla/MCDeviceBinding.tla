-------------------------- MODULE MCDeviceBinding ---------------------------
(* Small instances of DeviceBinding: users and requests are interchangeable. *)
EXTENDS DeviceBinding, TLC

Symmetry == Permutations(Users) \cup Permutations(Requests)
=============================================================================
