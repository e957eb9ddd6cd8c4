----------------------------- MODULE EngineLease -----------------------------
(***************************************************************************)
(* What a pool of native engines promises its clients, with no pool in it: *)
(* a client holds at most one engine, no engine is held by two clients,    *)
(* and no more than Capacity engines are out at any time.                  *)
(* EnginePool implements it.                                               *)
(***************************************************************************)
EXTENDS Naturals, FiniteSets

CONSTANTS Clients, Engines, Capacity, None

VARIABLE lease      \* the engine each client holds, or None

Leased == {c \in Clients : lease[c] # None}

Init == lease = [c \in Clients |-> None]

Grant(c, e) ==
    /\ lease[c] = None
    /\ \A d \in Clients : lease[d] # e
    /\ Cardinality(Leased) < Capacity
    /\ lease' = [lease EXCEPT ![c] = e]

GiveBack(c) ==
    /\ lease[c] # None
    /\ lease' = [lease EXCEPT ![c] = None]

Next == \E c \in Clients : GiveBack(c) \/ \E e \in Engines : Grant(c, e)

Spec == Init /\ [][Next]_lease
==============================================================================
