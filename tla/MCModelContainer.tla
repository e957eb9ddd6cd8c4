-------------------------- MODULE MCModelContainer ---------------------------
(* Small instances of ModelContainer. *)
EXTENDS ModelContainer

Program(top, body) == [top |-> top, body |-> body]

\* Closures that register nothing, closures that do, and closures that remove.
Building == {"register", "get", "configure", "configureEach", "all", "freeze", "disallow"}
Shrinking == {"register", "configureEach", "all", "remove", "whenRemoved"}
AllPrograms ==
    {Program(Building, {"get", "configure"}),
     Program(Building, {"register", "get", "configure", "configureEach"}),
     Program(Shrinking, {"remove", "whenRemoved", "disallow"})}

RegisteringWhileFrozen == {Program({"register", "freeze"}, {"register"})}
==============================================================================
