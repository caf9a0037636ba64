------------------------------ MODULE MCPresence ------------------------------
(* Presence for TLC: connections, client ids and assets are interchangeable. *)
EXTENDS Presence, TLC

Symmetry == Permutations(Conns) \cup Permutations(ClientIDs) \cup Permutations(Assets)
===============================================================================
