------------------------ MODULE PlanLifecycleProofs --------------------------
(***************************************************************************)
(* close() is exclusive for every number of threads: the lock keeps an     *)
(* execution and a close apart, so that the handle an execution checked    *)
(* names a live plan until the execution is over.                          *)
(***************************************************************************)
EXTENDS PlanLifecycle, TLAPS

\* Whoever is in a section of the plan holds the lock the way the section needs.
LockInv ==
    /\ plan.lock = "readWrite" =>
          /\ \A t \in Threads : pc[t] \in ReadSection => t \in readers
          /\ \A t \in Threads : pc[t] \in WriteSection => writer = t
          /\ writer # None => readers = {}
    /\ plan.lock = "monitor" =>
          \A t \in Threads : pc[t] \in ReadSection \cup WriteSection => writer = t

Exclusion ==
    \A t, u \in Threads : pc[t] \in WriteSection /\ pc[u] \in ReadSection \cup WriteSection => t = u

\* The handle is what it says, except between the two steps of close.
HandleInv ==
    /\ registered => handle
    /\ \A t \in Threads : pc[t] = "clearing" => ~registered
    /\ Guarded /\ handle /\ ~registered => \E t \in Threads : pc[t] = "clearing"
    /\ Guarded => \A t \in Threads :
          pc[t] \in {"calling", "running", "destroying"} => registered

MemoryInv ==
    /\ registered => allocated
    /\ plan.registry => (allocated <=> registered \/ Running # {})
    /\ ~plan.registry => (allocated <=> registered)

Inv == TypeOK /\ LockInv /\ HandleInv /\ MemoryInv

LEMMA InitInv == Init => Inv
BY DEF Init, Inv, TypeOK, LockInv, HandleInv, MemoryInv, ReadSection, WriteSection, Running

LEMMA LocksExclude == TypeOK /\ LockInv /\ Guarded => Exclusion
BY ThreadsAssumption, PlansAssumption
DEF TypeOK, LockInv, Guarded, Exclusion, ReadSection, WriteSection

LEMMA NextType == TypeOK /\ [Next]_vars => TypeOK'
<1> SUFFICES ASSUME TypeOK, [Next]_vars PROVE TypeOK'
  OBVIOUS
<1> USE DEF TypeOK, Goto, Waiting, ReadSection, WriteSection, lockVars, nativeVars
<1>1. ASSUME NEW t \in Threads, Execute(t) \/ CloseCall(t) PROVE TypeOK'
  BY <1>1 DEF Execute, CloseCall
<1>2. ASSUME NEW t \in Threads, LockShared(t) PROVE TypeOK'
  BY <1>2 DEF LockShared, First
<1>3. ASSUME NEW t \in Threads, LockExclusive(t) PROVE TypeOK'
  BY <1>3 DEF LockExclusive, First
<1>4. ASSUME NEW t \in Threads, LockMonitor(t) \/ LockNothing(t) PROVE TypeOK'
  BY <1>4 DEF LockMonitor, LockNothing
<1>5. ASSUME NEW t \in Threads, ParkShared(t) \/ ParkExclusive(t) PROVE TypeOK'
  BY <1>5 DEF ParkShared, ParkExclusive
<1>6. ASSUME NEW t \in Threads, CheckOpen(t) \/ CallNative(t) PROVE TypeOK'
  BY <1>6 DEF CheckOpen, CallNative
<1>7. ASSUME NEW t \in Threads, NativeEnds(t) \/ MissingEnds(t) PROVE TypeOK'
  BY <1>7 DEF NativeEnds, MissingEnds
<1>8. ASSUME NEW t \in Threads, CheckClose(t) \/ Destroy(t) \/ DestroyThrows(t) \/ Clear(t)
      PROVE  TypeOK'
  BY <1>8 DEF CheckClose, Destroy, DestroyThrows, Clear
<1>9. ASSUME NEW t \in Threads, Unlock(t) PROVE TypeOK'
  BY <1>9 DEF Unlock
<1>10. CASE UNCHANGED vars
  BY <1>10 DEF vars
<1> QED
  BY <1>1, <1>2, <1>3, <1>4, <1>5, <1>6, <1>7, <1>8, <1>9, <1>10
  DEF Next, Locks, Parks, Works

\* Outside its lock actions a thread stays in its section and leaves the lock
\* alone: the work of a thread keeps what the lock guarantees.
LEMMA NextLock == TypeOK /\ LockInv /\ [Next]_vars => LockInv'
<1> SUFFICES ASSUME TypeOK, LockInv, [Next]_vars PROVE LockInv'
  OBVIOUS
<1> USE ThreadsAssumption DEF TypeOK, LockInv, Goto, ReadSection, WriteSection, lockVars, nativeVars
<1>1. ASSUME NEW t \in Threads, Execute(t) \/ CloseCall(t) PROVE LockInv'
  BY <1>1 DEF Execute, CloseCall
<1>2. ASSUME NEW t \in Threads, LockShared(t) PROVE LockInv'
  BY <1>2 DEF LockShared
<1>3. ASSUME NEW t \in Threads, LockExclusive(t) PROVE LockInv'
  BY <1>3 DEF LockExclusive
<1>4. ASSUME NEW t \in Threads, LockMonitor(t) \/ LockNothing(t) PROVE LockInv'
  BY <1>4 DEF LockMonitor, LockNothing
<1>5. ASSUME NEW t \in Threads, ParkShared(t) \/ ParkExclusive(t) PROVE LockInv'
  BY <1>5 DEF ParkShared, ParkExclusive
<1>6. ASSUME NEW t \in Threads, CheckOpen(t) \/ CallNative(t) PROVE LockInv'
  BY <1>6 DEF CheckOpen, CallNative
<1>7. ASSUME NEW t \in Threads, NativeEnds(t) \/ MissingEnds(t) PROVE LockInv'
  BY <1>7 DEF NativeEnds, MissingEnds
<1>8. ASSUME NEW t \in Threads, CheckClose(t) \/ Destroy(t) \/ DestroyThrows(t) \/ Clear(t)
      PROVE  LockInv'
  BY <1>8 DEF CheckClose, Destroy, DestroyThrows, Clear
<1>9. ASSUME NEW t \in Threads, Unlock(t) PROVE LockInv'
  BY <1>9 DEF Unlock
<1>10. CASE UNCHANGED vars
  BY <1>10 DEF vars
<1> QED
  BY <1>1, <1>2, <1>3, <1>4, <1>5, <1>6, <1>7, <1>8, <1>9, <1>10
  DEF Next, Locks, Parks, Works

LEMMA NextHandle == TypeOK /\ LockInv /\ HandleInv /\ [Next]_vars => HandleInv'
<1> SUFFICES ASSUME TypeOK, LockInv, HandleInv, [Next]_vars PROVE HandleInv'
  OBVIOUS
<1>e. Guarded => Exclusion
  BY LocksExclude
<1> USE DEF TypeOK, HandleInv, Guarded, Goto, ReadSection, WriteSection, lockVars, nativeVars
<1>1. ASSUME NEW t \in Threads, Execute(t) \/ CloseCall(t) PROVE HandleInv'
  BY <1>1 DEF Execute, CloseCall
<1>2. ASSUME NEW t \in Threads, Locks(t) PROVE HandleInv'
  BY <1>2 DEF Locks, LockShared, LockExclusive, LockMonitor, LockNothing
<1>3. ASSUME NEW t \in Threads, Parks(t) PROVE HandleInv'
  BY <1>3 DEF Parks, ParkShared, ParkExclusive
<1>4. ASSUME NEW t \in Threads, CheckOpen(t) PROVE HandleInv'
  BY <1>4, <1>e DEF CheckOpen, Exclusion
<1>5. ASSUME NEW t \in Threads, CallNative(t) PROVE HandleInv'
  BY <1>5 DEF CallNative
<1>6. ASSUME NEW t \in Threads, NativeEnds(t) \/ MissingEnds(t) PROVE HandleInv'
  BY <1>6 DEF NativeEnds, MissingEnds
<1>7. ASSUME NEW t \in Threads, CheckClose(t) PROVE HandleInv'
  BY <1>7, <1>e DEF CheckClose, Exclusion
<1>8. ASSUME NEW t \in Threads, Destroy(t) PROVE HandleInv'
  BY <1>8, <1>e DEF Destroy, Exclusion
<1>9. ASSUME NEW t \in Threads, DestroyThrows(t) PROVE HandleInv'
  BY <1>9 DEF DestroyThrows
<1>10. ASSUME NEW t \in Threads, Clear(t) PROVE HandleInv'
  BY <1>10 DEF Clear
<1>11. ASSUME NEW t \in Threads, Unlock(t) PROVE HandleInv'
  BY <1>11 DEF Unlock
<1>12. CASE UNCHANGED vars
  BY <1>12 DEF vars
<1> QED
  BY <1>1, <1>2, <1>3, <1>4, <1>5, <1>6, <1>7, <1>8, <1>9, <1>10, <1>11, <1>12
  DEF Next, Works

LEMMA NextMemory == Inv /\ [Next]_vars => MemoryInv'
<1> SUFFICES ASSUME Inv, [Next]_vars PROVE MemoryInv'
  OBVIOUS
<1> USE DEF Inv, TypeOK, MemoryInv, Goto, ReadSection, WriteSection, lockVars, nativeVars, Running
<1>1. ASSUME NEW t \in Threads, Execute(t) \/ CloseCall(t) PROVE MemoryInv'
  BY <1>1 DEF Execute, CloseCall
<1>2. ASSUME NEW t \in Threads, Locks(t) PROVE MemoryInv'
  BY <1>2 DEF Locks, LockShared, LockExclusive, LockMonitor, LockNothing
<1>3. ASSUME NEW t \in Threads, Parks(t) PROVE MemoryInv'
  BY <1>3 DEF Parks, ParkShared, ParkExclusive
<1>4. ASSUME NEW t \in Threads, CheckOpen(t) \/ MissingEnds(t) PROVE MemoryInv'
  BY <1>4 DEF CheckOpen, MissingEnds
<1>5. ASSUME NEW t \in Threads, CallNative(t) PROVE MemoryInv'
  BY <1>5 DEF CallNative
<1>6. ASSUME NEW t \in Threads, NativeEnds(t) PROVE MemoryInv'
  BY <1>6 DEF NativeEnds
<1>7. ASSUME NEW t \in Threads, CheckClose(t) \/ DestroyThrows(t) \/ Clear(t) PROVE MemoryInv'
  BY <1>7 DEF CheckClose, DestroyThrows, Clear
<1>8. ASSUME NEW t \in Threads, Destroy(t) PROVE MemoryInv'
  BY <1>8 DEF Destroy
<1>9. ASSUME NEW t \in Threads, Unlock(t) PROVE MemoryInv'
  BY <1>9 DEF Unlock
<1>10. CASE UNCHANGED vars
  BY <1>10 DEF vars
<1> QED
  BY <1>1, <1>2, <1>3, <1>4, <1>5, <1>6, <1>7, <1>8, <1>9, <1>10 DEF Next, Works

LEMMA SpecInv == Spec => []Inv
<1>1. Inv /\ [Next]_vars => Inv'
  BY NextType, NextLock, NextHandle, NextMemory DEF Inv
<1> QED BY InitInv, <1>1, PTL DEF Spec

\* No native call works on freed memory: the registry alone is enough, and so
\* is either lock.
THEOREM NoUseAfterFreeHolds == Spec => []NoUseAfterFree
<1>1. Inv => NoUseAfterFree
  BY PlansAssumption
  DEF Inv, TypeOK, HandleInv, MemoryInv, NoUseAfterFree, Running, Guarded
<1> QED BY <1>1, SpecInv, PTL

\* A locked plan destroys its native plan once.
THEOREM DestroyedOnceHolds == Spec => []DestroyedOnce
<1>1. Inv => DestroyedOnce
  BY DEF Inv, HandleInv, DestroyedOnce
<1> QED BY <1>1, SpecInv, PTL

\* A plan that says it is closed has given its native plan back.
THEOREM NothingLeaksHolds == Spec => []NothingLeaks
<1>1. Inv => NothingLeaks
  BY PlansAssumption DEF Inv, TypeOK, HandleInv, MemoryInv, NothingLeaks
<1> QED BY <1>1, SpecInv, PTL

LEMMA PlanStays == [Next]_vars => plan' = plan
BY DEF Next, vars, Execute, CloseCall, Locks, LockShared, LockExclusive, LockMonitor, LockNothing,
   Parks, ParkShared, ParkExclusive, Works, CheckOpen, CallNative, NativeEnds, MissingEnds,
   CheckClose, Destroy, DestroyThrows, Clear, Unlock

Flight == {t \in Threads : pc[t] \in {"calling", "running"}}

\* A step of a plan that has a lock is a step of the contract, or none.
LEMMA GuardedStep ==
    ASSUME Inv, Guarded, [Next]_vars
    PROVE  \/ \E t \in Threads : registered /\ registered' = registered
                                /\ t \notin Flight /\ Flight' = Flight \cup {t}
           \/ \E t \in Threads : registered' = registered
                                /\ t \in Flight /\ Flight' = Flight \ {t}
           \/ registered /\ registered' = FALSE /\ Flight = {} /\ Flight' = {}
           \/ UNCHANGED <<registered, Flight>>
<1>e. Exclusion
  BY LocksExclude DEF Inv
<1> USE DEF Inv, TypeOK, Goto, lockVars, nativeVars, Flight
<1>1. ASSUME NEW t \in Threads, Execute(t) \/ CloseCall(t) \/ Locks(t) \/ Parks(t)
      PROVE  UNCHANGED <<registered, Flight>>
  BY <1>1 DEF Execute, CloseCall, Locks, LockShared, LockExclusive, LockMonitor, LockNothing,
     Parks, ParkShared, ParkExclusive
<1>2. ASSUME NEW t \in Threads, CheckOpen(t), handle
      PROVE  registered /\ registered' = registered /\ t \notin Flight /\ Flight' = Flight \cup {t}
  <2>1. registered
    BY <1>2, <1>e DEF CheckOpen, HandleInv, Exclusion, ReadSection, WriteSection
  <2> QED BY <1>2, <2>1 DEF CheckOpen
<1>3. ASSUME NEW t \in Threads, CheckOpen(t), ~handle PROVE UNCHANGED <<registered, Flight>>
  BY <1>3 DEF CheckOpen
<1>4. ASSUME NEW t \in Threads, CallNative(t) PROVE UNCHANGED <<registered, Flight>>
  <2>1. registered
    BY <1>4 DEF CallNative, HandleInv
  <2> QED BY <1>4, <2>1 DEF CallNative
<1>5. ASSUME NEW t \in Threads, NativeEnds(t)
      PROVE  registered' = registered /\ t \in Flight /\ Flight' = Flight \ {t}
  BY <1>5 DEF NativeEnds
<1>6. ASSUME NEW t \in Threads, Destroy(t)
      PROVE  registered /\ registered' = FALSE /\ Flight = {} /\ Flight' = {}
  <2>1. registered /\ registered' = FALSE
    BY <1>6 DEF Destroy, HandleInv
  <2>2. Flight = {} /\ Flight' = {}
    BY <1>6, <1>e DEF Destroy, Exclusion, ReadSection, WriteSection
  <2> QED BY <2>1, <2>2
<1>7. ASSUME NEW t \in Threads,
             MissingEnds(t) \/ CheckClose(t) \/ DestroyThrows(t) \/ Clear(t) \/ Unlock(t)
      PROVE  UNCHANGED <<registered, Flight>>
  BY <1>7 DEF MissingEnds, CheckClose, DestroyThrows, Clear, Unlock
<1>8. CASE UNCHANGED vars
  BY <1>8 DEF vars
<1> HIDE DEF Flight, TypeOK, Inv
<1> QED BY <1>1, <1>2, <1>3, <1>4, <1>5, <1>6, <1>7, <1>8 DEF Next, Works

\* Under either lock a plan keeps its contract: executions side by side, and a
\* close that happens once, while none is under way.
THEOREM ContractHolds == Spec => ImplementsContract
<1> DEFINE live == Guarded => registered
           flight == {t \in Threads : Guarded /\ pc[t] \in {"calling", "running"}}
<1>1. Init => Contract!Init
  BY DEF Init, Contract!Init
<1>2. ASSUME Inv, [Next]_vars
      PROVE  [Contract!Next]_<<live, flight>>
  <2>p. plan' = plan
    BY <1>2, PlanStays
  <2>1. CASE ~Guarded
    BY <2>p, <2>1 DEF Guarded
  <2>2. CASE Guarded
    <3>g. Guarded /\ Guarded'
      BY <2>p, <2>2 DEF Guarded
    <3>l. (live <=> registered) /\ (live' <=> registered')
      BY <3>g
    <3>f. flight = Flight /\ flight' = Flight'
      BY <3>g DEF Flight
    <3>t. registered \in BOOLEAN /\ registered' \in BOOLEAN
      BY <1>2, NextType DEF Inv, TypeOK
    <3>1. ASSUME NEW t \in Threads, registered, registered' = registered,
                 t \notin Flight, Flight' = Flight \cup {t}
          PROVE  Contract!Begin(t)
      BY <3>1, <3>l, <3>f DEF Contract!Begin
    <3>2. ASSUME NEW t \in Threads, registered' = registered,
                 t \in Flight, Flight' = Flight \ {t}
          PROVE  Contract!End(t)
      BY <3>2, <3>l, <3>f, <3>t DEF Contract!End
    <3>3. ASSUME registered, registered' = FALSE, Flight = {}, Flight' = {}
          PROVE  Contract!Close
      BY <3>3, <3>l, <3>f DEF Contract!Close
    <3>4. ASSUME UNCHANGED <<registered, Flight>>
          PROVE  UNCHANGED <<live, flight>>
      BY <3>4, <3>l, <3>f, <3>t
    <3> QED BY <1>2, <2>2, <3>1, <3>2, <3>3, <3>4, GuardedStep DEF Contract!Next
  <2> QED BY <2>1, <2>2
<1> QED BY <1>1, <1>2, SpecInv, PTL DEF Spec, ImplementsContract, Contract!Spec
==============================================================================
