----------------------------- MODULE MCUserHub ------------------------------
(* Small instances of UserHub: connections and users are interchangeable. *)
EXTENDS UserHub, TLC

Symmetry == Permutations(Clients) \cup Permutations(Users)
=============================================================================
