--------------------------- MODULE MCPluginRuntime ---------------------------
(* The plugin runtime for TLC: connections, client ids and secrets are
   interchangeable. *)
EXTENDS PluginRuntime, TLC

Symmetry == Permutations(Conns) \cup Permutations(ClientIDs) \cup Permutations(Secrets)
===============================================================================
