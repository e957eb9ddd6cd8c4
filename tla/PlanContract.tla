---------------------------- MODULE PlanContract -----------------------------
(***************************************************************************)
(* What a compiled plan promises: executions run side by side while the    *)
(* plan is open, and close() is exclusive - it happens once, while nothing *)
(* is executing.  PlanLifecycle implements it.                             *)
(***************************************************************************)
CONSTANT Threads

VARIABLES
    open,
    inFlight    \* the threads whose execution is under way

Init == open = TRUE /\ inFlight = {}

Begin(t) == open /\ t \notin inFlight /\ inFlight' = inFlight \cup {t} /\ UNCHANGED open

End(t) == t \in inFlight /\ inFlight' = inFlight \ {t} /\ UNCHANGED open

Close == open /\ inFlight = {} /\ open' = FALSE /\ UNCHANGED inFlight

Next == Close \/ \E t \in Threads : Begin(t) \/ End(t)

Spec == Init /\ [][Next]_<<open, inFlight>>
==============================================================================
