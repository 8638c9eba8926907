------------------------------- MODULE MCHubs -------------------------------
(* A small instance of Hubs: one connection of one device, one of one user. *)
EXTENDS Hubs, TLC

CONSTANTS c1, d1

OneOfOne == c1 :> d1
=============================================================================
