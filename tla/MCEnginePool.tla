---------------------------- MODULE MCEnginePool -----------------------------
(* Small instances of EnginePool: interchangeable threads and engines. *)
EXTENDS EnginePool, TLC

Symmetry == Permutations(Threads) \cup Permutations(Engines)
==============================================================================
