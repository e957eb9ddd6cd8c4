------------------------- MODULE TrainingPlanProofs --------------------------
(***************************************************************************)
(* Why the lock looked up once is enough, for every number of threads: as  *)
(* long as the mode is switched and the plan destroyed between calls only, *)
(* and updates are called on stateful handles only.                        *)
(***************************************************************************)
EXTENDS TrainingPlan, TLAPS

Switching == {"switchedOn", "switchedOff", "widthGone", "lockGone"}
InCall == {"guarded", "locking", "calling", "running", "stateful", "leaving"}

\* The lock a call found stays the plan's lock until the call is over, a thread
\* past the lock owns it, and only calls that found one work on the plan.
QuietInv ==
    /\ \A t \in Threads : pc[t] \in Switching => \A u \in Threads \ {t} : pc[u] = "out"
    /\ \A t \in Threads : pc[t] = "switchedOn" => training
    /\ \A t \in Threads : pc[t] = "switchedOff" => ~training
    /\ registered /\ (\A t \in Threads : pc[t] \notin Switching)
         => (training <=> lockMap # None)
    /\ \A t \in Threads : pc[t] \in InCall \ {"guarded"} => call[t].lock = lockMap
    /\ \A t \in Threads : pc[t] = "locking" => call[t].lock # None
    /\ \A t \in Threads : pc[t] \in {"calling", "running", "stateful", "leaving"}
          => call[t].lock = None \/ owner[call[t].lock] = t
    /\ \A t \in Threads : pc[t] \in InCall /\ call[t].op \in Updates => lockMap # None
    /\ \A t \in Threads : pc[t] \in {"running", "stateful"} => registered
    /\ \A t \in Threads : pc[t] = "stateful" => call[t].lock # None

Calls == [op : Operations \cup {"none"}, lock : Locks \cup {None},
          fits : BOOLEAN, inference : BOOLEAN]

LEMMA InitQuiet == Init => TypeOK /\ QuietInv
<1> SUFFICES ASSUME Init PROVE TypeOK /\ QuietInv
  OBVIOUS
<1>1. Idle \in Calls
  BY DEF Idle, Calls
<1>2. call \in [Threads -> Calls] /\ owner \in [Locks -> Threads \cup {None}]
  BY <1>1 DEF Init
<1>3. TypeOK
  BY <1>2 DEF Init, TypeOK, Calls, Operations, Executions, Updates
<1>4. \A t \in Threads : pc[t] = "out"
  BY DEF Init
<1>5. QuietInv
  BY <1>4 DEF Init, QuietInv, Switching, InCall
<1> QED BY <1>3, <1>5

LEMMA NextType == TypeOK /\ [Next]_vars => TypeOK'
<1> SUFFICES ASSUME TypeOK, [Next]_vars PROVE TypeOK'
  OBVIOUS
<1> USE DEF TypeOK, Goto, Operations, Executions, Updates, Idle
<1>1. ASSUME NEW t \in Threads, NEW op \in Operations, NEW fits \in BOOLEAN, Call(t, op, fits)
      PROVE  TypeOK'
  BY <1>1 DEF Call
<1>2. ASSUME NEW t \in Threads, ReadLock(t) PROVE TypeOK'
  <2>1. [call[t] EXCEPT !.lock = lockMap] \in Calls
    BY DEF Calls
  <2>2. call' \in [Threads -> Calls]
    BY <2>1, <1>2 DEF ReadLock, Calls
  <2> QED BY <2>2, <1>2 DEF ReadLock, Calls
<1>3. ASSUME NEW t \in Threads, TakeLock(t) PROVE TypeOK'
  BY <1>3 DEF TakeLock
<1>4. ASSUME NEW t \in Threads, EnterFails(t) \/ EnterExecute(t) \/ EnterUpdate(t) PROVE TypeOK'
  <2>1. [call[t] EXCEPT !.inference = ~training] \in Calls
    BY DEF Calls
  <2>2. ASSUME EnterExecute(t) PROVE TypeOK'
    <3>1. call' \in [Threads -> Calls]
      BY <2>1, <2>2 DEF EnterExecute, Calls
    <3> QED BY <3>1, <2>2 DEF EnterExecute, Calls
  <2>3. ASSUME EnterFails(t) \/ EnterUpdate(t) PROVE TypeOK'
    BY <2>3 DEF EnterFails, EnterUpdate
  <2> QED BY <1>4, <2>2, <2>3
<1>5. ASSUME NEW t \in Threads, RunEnds(t) \/ StatefulEnds(t) PROVE TypeOK'
  BY <1>5 DEF RunEnds, StatefulEnds, Unref
<1>6. ASSUME NEW t \in Threads, Leave(t) PROVE TypeOK'
  BY <1>6 DEF Leave
<1>7. ASSUME NEW t \in Threads, NEW on \in BOOLEAN, SwitchNative(t, on) PROVE TypeOK'
  BY <1>7 DEF SwitchNative
<1>8. ASSUME NEW t \in Threads, SwitchLockOn(t) \/ SwitchLockOff(t) PROVE TypeOK'
  BY <1>8 DEF SwitchLockOn, SwitchLockOff
<1>9. ASSUME NEW t \in Threads, DestroyWidth(t) \/ DestroyLock(t) \/ DestroyNative(t) PROVE TypeOK'
  BY <1>9 DEF DestroyWidth, DestroyLock, DestroyNative
<1>10. CASE UNCHANGED vars
  BY <1>10 DEF vars
<1> QED BY <1>1, <1>2, <1>3, <1>4, <1>5, <1>6, <1>7, <1>8, <1>9, <1>10 DEF Next

LEMMA NextQuiet == TypeOK /\ misuse = {} /\ QuietInv /\ [Next]_vars => QuietInv'
<1> SUFFICES ASSUME misuse = {}, TypeOK, QuietInv, [Next]_vars PROVE QuietInv'
  OBVIOUS
<1> USE NoneAssumption DEF TypeOK, QuietInv, Goto, Switching, InCall, Operations, Executions, Updates, Idle,
    OthersOut, NoSwitch, NoDestroy
<1>1. ASSUME NEW t \in Threads, NEW op \in Operations, NEW fits \in BOOLEAN, Call(t, op, fits)
      PROVE  QuietInv'
  <2>1. /\ pc' = [pc EXCEPT ![t] = "guarded"] /\ pc[t] = "out"
        /\ UNCHANGED <<registered, training, lockMap, owner>>
        /\ op \in Updates => lockMap # None
        /\ \A u \in Threads : pc[u] \notin Switching
    BY <1>1 DEF Call
  <2>2. /\ \A u \in Threads \ {t} : pc'[u] = pc[u] /\ call'[u] = call[u]
        /\ pc'[t] = "guarded" /\ call'[t].op = op
    BY <1>1 DEF Call
  <2> QED BY <2>1, <2>2
<1>2. ASSUME NEW t \in Threads, ReadLock(t) PROVE QuietInv'
  BY <1>2 DEF ReadLock
<1>3. ASSUME NEW t \in Threads, TakeLock(t) PROVE QuietInv'
  <2>1. /\ UNCHANGED <<registered, training, lockMap, call>>
        /\ pc[t] = "locking" /\ pc'[t] = "calling"
        /\ call[t].lock \in Locks /\ owner[call[t].lock] = None
        /\ owner' = [owner EXCEPT ![call[t].lock] = t]
    BY <1>3 DEF TakeLock
  <2>2. \A u \in Threads \ {t} : pc'[u] = pc[u]
    BY <1>3 DEF TakeLock
  <2>3. ASSUME NEW u \in Threads \ {t}, pc[u] \in {"calling", "running", "stateful", "leaving"},
               call[u].lock # None
        PROVE  owner'[call[u].lock] = u
    <3>1. owner[call[u].lock] = u /\ call[u].lock \in Locks
      BY <2>3
    <3> QED BY <2>1, <3>1
  <2>4. owner'[call[t].lock] = t
    BY <2>1
  <2> QED BY <2>1, <2>2, <2>3, <2>4
<1>4. ASSUME NEW t \in Threads, EnterFails(t) PROVE QuietInv'
  BY <1>4 DEF EnterFails
<1>5. ASSUME NEW t \in Threads, EnterExecute(t) PROVE QuietInv'
  BY <1>5 DEF EnterExecute
<1>6. ASSUME NEW t \in Threads, EnterUpdate(t) PROVE QuietInv'
  BY <1>6 DEF EnterUpdate
<1>7. ASSUME NEW t \in Threads, RunEnds(t) PROVE QuietInv'
  BY <1>7 DEF RunEnds
<1>8. ASSUME NEW t \in Threads, StatefulEnds(t) PROVE QuietInv'
  BY <1>8 DEF StatefulEnds
<1>9. ASSUME NEW t \in Threads, Leave(t) PROVE QuietInv'
  <2>1. /\ UNCHANGED <<registered, training, lockMap>>
        /\ pc[t] = "leaving" /\ pc'[t] = "out"
    BY <1>9 DEF Leave
  <2>2. \A u \in Threads \ {t} : pc'[u] = pc[u] /\ call'[u] = call[u]
    BY <1>9 DEF Leave
  <2>3. ASSUME NEW u \in Threads \ {t}, pc[u] \in {"calling", "running", "stateful", "leaving"},
               call[u].lock # None
        PROVE  owner'[call[u].lock] = u
    <3>1. owner[call[u].lock] = u /\ call[u].lock \in Locks
      BY <2>3
    <3>2. call[t].lock = None \/ owner[call[t].lock] = t
      BY <2>1
    <3>3. call[u].lock # call[t].lock
      BY <3>1, <3>2
    <3> QED BY <1>9, <3>1, <3>3 DEF Leave
  <2> QED BY <2>1, <2>2, <2>3
<1>10. ASSUME NEW t \in Threads, NEW on \in BOOLEAN, SwitchNative(t, on) PROVE QuietInv'
  <2>1. /\ UNCHANGED <<registered, lockMap, owner, call>>
        /\ pc[t] = "out" /\ training' = on
        /\ pc'[t] = IF on THEN "switchedOn" ELSE "switchedOff"
    BY <1>10 DEF SwitchNative
  <2>2. \A u \in Threads \ {t} : pc[u] = "out"
    BY <1>10 DEF SwitchNative
  <2>3. \A u \in Threads \ {t} : pc'[u] = "out"
    BY <2>2, <1>10 DEF SwitchNative
  <2>4. pc'[t] \notin InCall /\ \A u \in Threads : pc'[u] \notin InCall
    BY <2>1, <2>3
  <2>5. \A u \in Threads : pc'[u] \in Switching => u = t
    BY <2>3
  <2>6. \A u \in Threads : pc'[u] = "switchedOn" => training'
    BY <2>1, <2>3
  <2>7. \A u \in Threads : pc'[u] = "switchedOff" => ~training'
    BY <2>1, <2>3
  <2>8. pc'[t] \in Switching
    BY <2>1
  <2> QED BY <2>3, <2>4, <2>5, <2>6, <2>7, <2>8
<1>11. ASSUME NEW t \in Threads, SwitchLockOn(t) PROVE QuietInv'
  BY <1>11 DEF SwitchLockOn
<1>12. ASSUME NEW t \in Threads, SwitchLockOff(t) PROVE QuietInv'
  BY <1>12 DEF SwitchLockOff
<1>13. ASSUME NEW t \in Threads, DestroyWidth(t) \/ DestroyLock(t) \/ DestroyNative(t)
       PROVE  QuietInv'
  BY <1>13 DEF DestroyWidth, DestroyLock, DestroyNative
<1>14. CASE UNCHANGED vars
  BY <1>14 DEF vars
<1> QED
  BY <1>1, <1>2, <1>3, <1>4, <1>5, <1>6, <1>7, <1>8, <1>9, <1>10, <1>11, <1>12, <1>13, <1>14
  DEF Next

LEMMA MisuseStays == [Next]_vars => misuse' = misuse
BY DEF Next, vars, Call, ReadLock, TakeLock, EnterFails, EnterExecute, EnterUpdate, RunEnds,
   StatefulEnds, Leave, SwitchNative, SwitchLockOn, SwitchLockOff, DestroyWidth, DestroyLock,
   DestroyNative

------------------------------------------------------------------------------
(* What holds whatever the callers do *)

\* The plan's memory lives as long as its registration or a call that has it.
MemoryInv == allocated <=> registered \/ Holders # {}

LEMMA NextMemory == TypeOK /\ MemoryInv /\ [Next]_vars => MemoryInv'
<1> SUFFICES ASSUME TypeOK, MemoryInv, [Next]_vars PROVE MemoryInv'
  OBVIOUS
<1>1. ASSUME NEW t \in Threads,
             \/ \E op \in Operations, fits \in BOOLEAN : Call(t, op, fits)
             \/ ReadLock(t) \/ TakeLock(t) \/ EnterFails(t) \/ Leave(t)
             \/ \E on \in BOOLEAN : SwitchNative(t, on)
             \/ SwitchLockOn(t) \/ SwitchLockOff(t) \/ DestroyWidth(t) \/ DestroyLock(t)
      PROVE  MemoryInv'
  <2>1. Holders' = Holders /\ UNCHANGED <<registered, allocated>>
    BY <1>1 DEF Holders, TypeOK, Goto, Call, ReadLock, TakeLock, EnterFails, Leave,
                SwitchNative, SwitchLockOn, SwitchLockOff, DestroyWidth, DestroyLock
  <2> QED BY <2>1 DEF MemoryInv
<1>2. ASSUME NEW t \in Threads, EnterExecute(t) \/ EnterUpdate(t) PROVE MemoryInv'
  BY <1>2 DEF EnterExecute, EnterUpdate, MemoryInv
<1>3. ASSUME NEW t \in Threads, RunEnds(t) PROVE MemoryInv'
  <2>1. CASE Goto(t, "running", "leaving") /\ Unref(t)
    <3>1. Holders' = Holders \ {t}
      BY <2>1 DEF Holders, TypeOK, Goto
    <3> QED BY <3>1, <2>1, <1>3 DEF RunEnds, Unref, MemoryInv
  <2>2. CASE Goto(t, "running", "stateful") /\ UNCHANGED allocated
    <3>1. Holders' = Holders
      BY <2>2 DEF Holders, TypeOK, Goto
    <3> QED BY <3>1, <2>2, <1>3 DEF RunEnds, MemoryInv
  <2> QED BY <2>1, <2>2, <1>3 DEF RunEnds
<1>4. ASSUME NEW t \in Threads, StatefulEnds(t) PROVE MemoryInv'
  <2>1. Holders' = Holders \ {t}
    BY <1>4 DEF StatefulEnds, Holders, TypeOK, Goto
  <2> QED BY <2>1, <1>4 DEF StatefulEnds, Unref, MemoryInv
<1>5. ASSUME NEW t \in Threads, DestroyNative(t) PROVE MemoryInv'
  <2>1. Holders' = Holders
    BY <1>5 DEF DestroyNative, Holders, TypeOK, Goto
  <2> QED BY <2>1, <1>5 DEF DestroyNative, MemoryInv
<1>6. CASE UNCHANGED vars
  BY <1>6 DEF vars, MemoryInv, Holders
<1> QED BY <1>1, <1>2, <1>3, <1>4, <1>5, <1>6 DEF Next

\* A call that waits for a lock knows which.
LockKnown == \A t \in Threads : pc[t] = "locking" => call[t].lock \in Locks

LEMMA NextReleased ==
    TypeOK /\ LockKnown /\ LocksReleased /\ [Next]_vars => (LockKnown /\ LocksReleased)'
<1> SUFFICES ASSUME TypeOK, LockKnown, LocksReleased, [Next]_vars
             PROVE  (LockKnown /\ LocksReleased)'
  OBVIOUS
<1> USE NoneAssumption DEF TypeOK, Goto, LockKnown, LocksReleased
<1>1. ASSUME NEW t \in Threads, NEW op \in Operations, NEW fits \in BOOLEAN, Call(t, op, fits)
      PROVE  (LockKnown /\ LocksReleased)'
  BY <1>1 DEF Call
<1>2. ASSUME NEW t \in Threads, ReadLock(t) PROVE (LockKnown /\ LocksReleased)'
  BY <1>2 DEF ReadLock
<1>3. ASSUME NEW t \in Threads, TakeLock(t) PROVE (LockKnown /\ LocksReleased)'
  BY <1>3 DEF TakeLock
<1>4. ASSUME NEW t \in Threads, EnterFails(t) PROVE (LockKnown /\ LocksReleased)'
  BY <1>4 DEF EnterFails
<1>5. ASSUME NEW t \in Threads, EnterExecute(t) PROVE (LockKnown /\ LocksReleased)'
  BY <1>5 DEF EnterExecute
<1>6. ASSUME NEW t \in Threads, EnterUpdate(t) PROVE (LockKnown /\ LocksReleased)'
  BY <1>6 DEF EnterUpdate
<1>7. ASSUME NEW t \in Threads, RunEnds(t) \/ StatefulEnds(t) PROVE (LockKnown /\ LocksReleased)'
  BY <1>7 DEF RunEnds, StatefulEnds
<1>8. ASSUME NEW t \in Threads, Leave(t) PROVE (LockKnown /\ LocksReleased)'
  BY <1>8 DEF Leave
<1>9. ASSUME NEW t \in Threads, \/ \E on \in BOOLEAN : SwitchNative(t, on)
                                \/ SwitchLockOn(t) \/ SwitchLockOff(t)
      PROVE  (LockKnown /\ LocksReleased)'
  BY <1>9 DEF SwitchNative, SwitchLockOn, SwitchLockOff
<1>10. ASSUME NEW t \in Threads, DestroyWidth(t) \/ DestroyLock(t) \/ DestroyNative(t)
       PROVE  (LockKnown /\ LocksReleased)'
  BY <1>10 DEF DestroyWidth, DestroyLock, DestroyNative
<1>11. CASE UNCHANGED vars
  BY <1>11 DEF vars
<1> QED
  BY <1>1, <1>2, <1>3, <1>4, <1>5, <1>6, <1>7, <1>8, <1>9, <1>10, <1>11 DEF Next

------------------------------------------------------------------------------
(* What holds for callers that switch and destroy between calls *)

\* An execution runs with autograd exactly if the plan trains, so what it keeps
\* has a graph.
GraphInv ==
    /\ lastSlots # "inference"
    /\ \A t \in Threads : pc[t] = "running" => (call[t].inference <=> ~training)
    /\ \A t \in Threads : pc[t] = "stateful" /\ call[t].op \notin Updates => ~call[t].inference

LEMMA NextGraph == TypeOK /\ misuse = {} /\ GraphInv /\ [Next]_vars => GraphInv'
<1> SUFFICES ASSUME TypeOK, misuse = {}, GraphInv, [Next]_vars PROVE GraphInv'
  OBVIOUS
<1> USE DEF TypeOK, Goto, GraphInv, Executions, Updates, Operations
<1>1. ASSUME NEW t \in Threads, NEW op \in Operations, NEW fits \in BOOLEAN, Call(t, op, fits)
      PROVE  GraphInv'
  BY <1>1 DEF Call
<1>2. ASSUME NEW t \in Threads, ReadLock(t) \/ TakeLock(t) \/ EnterFails(t) PROVE GraphInv'
  BY <1>2 DEF ReadLock, TakeLock, EnterFails
<1>3. ASSUME NEW t \in Threads, Leave(t) PROVE GraphInv'
  BY <1>3 DEF Leave
<1>4. ASSUME NEW t \in Threads, EnterExecute(t) PROVE GraphInv'
  BY <1>4 DEF EnterExecute
<1>5. ASSUME NEW t \in Threads, EnterUpdate(t) PROVE GraphInv'
  BY <1>5 DEF EnterUpdate
<1>6. ASSUME NEW t \in Threads, RunEnds(t) PROVE GraphInv'
  BY <1>6 DEF RunEnds
<1>7. ASSUME NEW t \in Threads, StatefulEnds(t) PROVE GraphInv'
  BY <1>7 DEF StatefulEnds
<1>8. ASSUME NEW t \in Threads, NEW on \in BOOLEAN, SwitchNative(t, on) PROVE GraphInv'
  <2>1. \A u \in Threads : pc'[u] # "running" /\ pc'[u] # "stateful"
    BY <1>8 DEF SwitchNative, OthersOut
  <2> QED BY <2>1, <1>8 DEF SwitchNative
<1>9. ASSUME NEW t \in Threads, \/ SwitchLockOn(t) \/ SwitchLockOff(t)
                                \/ DestroyWidth(t) \/ DestroyLock(t) \/ DestroyNative(t)
      PROVE  GraphInv'
  BY <1>9 DEF SwitchLockOn, SwitchLockOff, DestroyWidth, DestroyLock, DestroyNative
<1>10. CASE UNCHANGED vars
  BY <1>10 DEF vars
<1> QED
  BY <1>1, <1>2, <1>3, <1>4, <1>5, <1>6, <1>7, <1>8, <1>9, <1>10 DEF Next

\* The width of a live plan is known while nobody destroys it, so the guard
\* looked at every input that is under way.
WidthInv ==
    /\ registered /\ NoDestroy => widthKnown
    /\ \A t \in Threads :
          /\ registered \/ t \in Holders
          /\ pc[t] \in InCall /\ call[t].op = "executeDirect"
          => call[t].fits

LEMMA NextWidth == TypeOK /\ misuse = {} /\ WidthInv /\ [Next]_vars => WidthInv'
<1> SUFFICES ASSUME TypeOK, misuse = {}, WidthInv, [Next]_vars PROVE WidthInv'
  OBVIOUS
<1> USE DEF TypeOK, Goto, WidthInv, NoDestroy, InCall, Holders
<1>1. ASSUME NEW t \in Threads, NEW op \in Operations, NEW fits \in BOOLEAN, Call(t, op, fits)
      PROVE  WidthInv'
  BY <1>1 DEF Call, Idle
<1>2. ASSUME NEW t \in Threads, ReadLock(t) \/ TakeLock(t) PROVE WidthInv'
  BY <1>2 DEF ReadLock, TakeLock
<1>3. ASSUME NEW t \in Threads, EnterFails(t) \/ EnterExecute(t) \/ EnterUpdate(t) PROVE WidthInv'
  BY <1>3 DEF EnterFails, EnterExecute, EnterUpdate
<1>4. ASSUME NEW t \in Threads, RunEnds(t) \/ StatefulEnds(t) \/ Leave(t) PROVE WidthInv'
  BY <1>4 DEF RunEnds, StatefulEnds, Leave
<1>5. ASSUME NEW t \in Threads, \/ \E on \in BOOLEAN : SwitchNative(t, on)
                                \/ SwitchLockOn(t) \/ SwitchLockOff(t)
      PROVE  WidthInv'
  BY <1>5 DEF SwitchNative, SwitchLockOn, SwitchLockOff
<1>6. ASSUME NEW t \in Threads, DestroyWidth(t) \/ DestroyLock(t) \/ DestroyNative(t)
      PROVE  WidthInv'
  BY <1>6 DEF DestroyWidth, DestroyLock, DestroyNative
<1>7. CASE UNCHANGED vars
  BY <1>7 DEF vars
<1> QED BY <1>1, <1>2, <1>3, <1>4, <1>5, <1>6, <1>7 DEF Next

------------------------------------------------------------------------------
(* The theorems *)

Inv ==
    /\ TypeOK /\ MemoryInv /\ LockKnown /\ LocksReleased
    /\ misuse = {} => QuietInv /\ GraphInv /\ WidthInv

LEMMA SpecInv == Spec => []Inv
<1>1. Init => Inv
  <2> SUFFICES ASSUME Init PROVE Inv
    OBVIOUS
  <2>1. TypeOK /\ QuietInv
    BY InitQuiet
  <2>2. MemoryInv /\ LockKnown /\ LocksReleased
    BY DEF Init, MemoryInv, LockKnown, LocksReleased, Holders
  <2>3. GraphInv /\ WidthInv
    BY DEF Init, GraphInv, WidthInv, InCall, Holders
  <2> QED BY <2>1, <2>2, <2>3 DEF Inv
<1>2. Inv /\ [Next]_vars => Inv'
  BY NextType, NextMemory, NextReleased, NextQuiet, NextGraph, NextWidth, MisuseStays DEF Inv
<1> QED BY <1>1, <1>2, PTL DEF Spec

\* Training serialises: no two threads work on the plan at once, as long as
\* the callers switch its mode and destroy it between calls.
THEOREM StatefulExclusionHolds == Spec => []StatefulExclusion
<1>1. Inv => StatefulExclusion
  BY NoneAssumption DEF Inv, QuietInv, StatefulExclusion, InCall, TypeOK
<1> QED BY <1>1, SpecInv, PTL

\* isStateful is true exactly of the plans that train, between calls.
THEOREM LockTracksModeHolds == Spec => []LockTracksMode
<1>1. Inv => LockTracksMode
  BY DEF Inv, QuietInv, LockTracksMode, Switching
<1> QED BY <1>1, SpecInv, PTL

\* backward finds tensors that were computed with autograd.
THEOREM SlotsHaveGraphHolds == Spec => []SlotsHaveGraph
<1>1. Inv => SlotsHaveGraph
  BY DEF Inv, GraphInv, SlotsHaveGraph
<1> QED BY <1>1, SpecInv, PTL

\* No executeDirect on a live plan reads its input past the end.
THEOREM InputGuardedHolds == Spec => []InputGuarded
<1>1. Inv => InputGuarded
  BY DEF Inv, WidthInv, InputGuarded, InCall, Holders
<1> QED BY <1>1, SpecInv, PTL

\* Whatever the callers do, no native call works on a freed plan ...
THEOREM NoUseAfterFreeHolds == Spec => []NoUseAfterFree
<1>1. Inv => NoUseAfterFree
  BY DEF Inv, MemoryInv, NoUseAfterFree
<1> QED BY <1>1, SpecInv, PTL

\* ... and a lock is held only by a call that took it and will give it back.
THEOREM LocksReleasedHolds == Spec => []LocksReleased
<1>1. Inv => LocksReleased
  BY DEF Inv
<1> QED BY <1>1, SpecInv, PTL
==============================================================================
