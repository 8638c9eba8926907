----------------------------- MODULE MCSessions -----------------------------
(* A small instance of Sessions: clients are interchangeable. *)
EXTENDS Sessions, TLC

Symmetry == Permutations(Clients)
=============================================================================
