--------------------------- MODULE MCTrainingPlan ----------------------------
(* Small instances of TrainingPlan: interchangeable threads and locks. *)
EXTENDS TrainingPlan, TLC

NoneOrAll == {{}, {"switch", "destroy", "stray"}}
SwitchWhileBusy == {{"switch"}}
Symmetry == Permutations(Threads) \cup Permutations(Locks)
==============================================================================
