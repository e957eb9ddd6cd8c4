--------------------------- MODULE MCPlanLifecycle ---------------------------
(* Small instances of PlanLifecycle: the plans of the five providers. *)
EXTENDS PlanLifecycle

Kinds == {<<"readWrite", TRUE>>, <<"monitor", TRUE>>, <<"monitor", FALSE>>, <<"none", TRUE>>}

\* Closed by any thread, or by one of them.
CompiledPlans ==
    {[lock |-> k[1], registry |-> k[2], closers |-> c] :
        k \in Kinds, c \in {Threads, {CHOOSE t \in Threads : TRUE}}}
==============================================================================
