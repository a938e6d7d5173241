-------------------------- MODULE MCStartupQueries --------------------------
(* StartupQueries for TLC: modems and processes are interchangeable. *)
EXTENDS StartupQueries, TLC

Symmetry == Permutations(Modem) \cup Permutations(Proc)
=============================================================================
