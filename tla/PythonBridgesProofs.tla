------------------------ MODULE PythonBridgesProofs --------------------------
(***************************************************************************)
(* For any number of threads and bridges: who may hold the interpreter     *)
(* lock, and that the calls get stuck only behind the thread that started  *)
(* the interpreter.  The heart of the invariant is that this thread always *)
(* has the GIL, except while its own Python code has let it go.            *)
(***************************************************************************)
EXTENDS PythonBridges, TLAPS

\* A call knows its bridge; only serialised bridges have a mutex to take.
CallInv ==
    \A t \in Threads :
        /\ pc[t] # "java" => bridge[t] \in Bridges /\ op[t] \in {"create", "run"}
        /\ pc[t] \in {"lock", "unlock"} => bridge[t] \in Serialised

\* A once_flag is running while exactly one thread initialises the bridge.
OnceInv ==
    /\ \A t \in Threads : pc[t] \in Initialising => once[bridge[t]] = "running"
    /\ \A b \in Bridges : once[b] = "running" =>
          \E t \in Threads : pc[t] \in Initialising /\ bridge[t] = b
    /\ \A t, u \in Threads :
          /\ pc[t] \in Initialising /\ pc[u] \in Initialising
          /\ bridge[t] = bridge[u]
          => t = u

\* Nothing runs Python before the interpreter is started.
StartedInv ==
    /\ initialiser = None => gil = None
    /\ \A b \in Bridges : once[b] = "set" => initialiser # None
    /\ \A t \in Threads :
          pc[t] \in {"import", "importResume", "lock"} \cup Executing => initialiser # None

\* The GIL is with the initialiser, unless its own Python code has let it go; the others
\* give it back because they found it in nobody's hands.
GilInv ==
    /\ ParkedGil
    /\ initialiser # None =>
          gil = initialiser \/ pc[initialiser] \in {"resume", "importResume"}
    /\ \A t \in Threads :
          /\ pc[t] = "python" => gil = t
          /\ pc[t] \in {"resume", "importResume"} => gil # t
          /\ pc[t] = "importResume" => t = initialiser
          /\ pc[t] \in {"python", "resume"} => (nested[t] <=> t = initialiser)

\* The execution mutex of a serialised bridge is with the thread that executes on it.
MutexInv ==
    /\ \A t \in Threads : pc[t] \in Executing /\ bridge[t] \in Serialised =>
          mutex[bridge[t]] = t
    /\ \A b \in Serialised : mutex[b] # None =>
          pc[mutex[b]] \in Executing /\ bridge[mutex[b]] = b

Inv ==
    TypeOK /\ CallInv /\ OnceInv /\ StartedInv /\ GilInv /\ MutexInv /\ OutsidersOnly

LEMMA InitInv == Init => Inv
BY ThreadsAssumption, BridgesAssumption
DEF Init, Inv, TypeOK, CallInv, OnceInv, StartedInv, GilInv, ParkedGil, MutexInv, OutsidersOnly,
    Initialising, Executing

------------------------------------------------------------------------------
\* One definition for the steps that follow, so that each names the action it is about.
Step(t) ==
    \/ \E b \in Bridges : CreatePlan(t, b) \/ Operation(t, b)
    \/ Initialise(t)
    \/ Run(t)

LEMMA StepType ==
    ASSUME Inv, NEW t \in Threads, Step(t) PROVE TypeOK'
<1> USE ThreadsAssumption, BridgesAssumption
    DEF Inv, TypeOK, CallInv, Goto, callVars, Initialising, Executing
<1>1. ASSUME NEW b \in Bridges, CreatePlan(t, b) \/ Operation(t, b) PROVE TypeOK'
  BY <1>1 DEF CreatePlan, Operation, Call
<1>2. CASE OnceDone(t) \/ OnceRuns(t) \/ CheckInterpreter(t)
  BY <1>2 DEF OnceDone, OnceRuns, CheckInterpreter, AfterOnce
<1>3. CASE PyInitialize(t) \/ PyInitializeTwice(t)
  BY <1>3 DEF PyInitialize, PyInitializeTwice
<1>4. CASE ImportReleases(t) \/ ImportResumes(t) \/ ImportUnheld(t)
  BY <1>4 DEF ImportReleases, ImportResumes, ImportUnheld
<1>5. CASE ImportEnds(t) \/ ImportFails(t)
  BY <1>5 DEF ImportEnds, ImportFails, AfterOnce
<1>6. CASE Lock(t) \/ Unlock(t)
  BY <1>6 DEF Lock, Unlock
<1>7. CASE Ensure(t) \/ Release(t)
  BY <1>7 DEF Ensure, Release
<1>8. CASE PythonReleases(t) \/ PythonResumes(t)
  BY <1>8 DEF PythonReleases, PythonResumes
<1> QED BY <1>1, <1>2, <1>3, <1>4, <1>5, <1>6, <1>7, <1>8 DEF Step, Initialise, Run

LEMMA StepCall ==
    ASSUME Inv, NEW t \in Threads, Step(t) PROVE CallInv'
<1> USE ThreadsAssumption, BridgesAssumption
    DEF Inv, TypeOK, CallInv, Goto, callVars, Initialising, Executing
<1>1. ASSUME NEW b \in Bridges, CreatePlan(t, b) \/ Operation(t, b) PROVE CallInv'
  BY <1>1 DEF CreatePlan, Operation, Call
<1>2. CASE OnceDone(t) \/ OnceRuns(t) \/ CheckInterpreter(t)
  BY <1>2 DEF OnceDone, OnceRuns, CheckInterpreter, AfterOnce
<1>3. CASE PyInitialize(t) \/ PyInitializeTwice(t)
  BY <1>3 DEF PyInitialize, PyInitializeTwice
<1>4. CASE ImportReleases(t) \/ ImportResumes(t) \/ ImportUnheld(t)
  BY <1>4 DEF ImportReleases, ImportResumes, ImportUnheld
<1>5. CASE ImportEnds(t) \/ ImportFails(t)
  BY <1>5 DEF ImportEnds, ImportFails, AfterOnce
<1>6. CASE Lock(t) \/ Unlock(t)
  BY <1>6 DEF Lock, Unlock
<1>7. CASE Ensure(t) \/ Release(t)
  BY <1>7 DEF Ensure, Release
<1>8. CASE PythonReleases(t) \/ PythonResumes(t)
  BY <1>8 DEF PythonReleases, PythonResumes
<1> QED BY <1>1, <1>2, <1>3, <1>4, <1>5, <1>6, <1>7, <1>8 DEF Step, Initialise, Run

LEMMA StepOnce ==
    ASSUME Inv, NEW t \in Threads, Step(t) PROVE OnceInv'
<1> USE ThreadsAssumption, BridgesAssumption
    DEF Inv, TypeOK, CallInv, OnceInv, Goto, callVars, Initialising, Executing
<1>1. ASSUME NEW b \in Bridges, CreatePlan(t, b) \/ Operation(t, b) PROVE OnceInv'
  BY <1>1 DEF CreatePlan, Operation, Call
<1>2. CASE OnceDone(t)
  BY <1>2 DEF OnceDone, AfterOnce
<1>3. CASE OnceRuns(t)
  BY <1>3 DEF OnceRuns
<1>4. CASE CheckInterpreter(t)
  BY <1>4 DEF CheckInterpreter
<1>5. CASE PyInitialize(t)
  BY <1>5 DEF PyInitialize
<1>6. CASE ImportReleases(t) \/ ImportResumes(t)
  BY <1>6 DEF ImportReleases, ImportResumes
<1>7. CASE ImportUnheld(t) \/ PyInitializeTwice(t)
  BY <1>7 DEF ImportUnheld, PyInitializeTwice
<1>8. CASE ImportEnds(t)
  BY <1>8 DEF ImportEnds, AfterOnce
<1>9. CASE ImportFails(t)
  BY <1>9 DEF ImportFails
<1>10. CASE Lock(t) \/ Unlock(t)
  BY <1>10 DEF Lock, Unlock
<1>11. CASE Ensure(t)
  BY <1>11 DEF Ensure
<1>12. CASE PythonReleases(t) \/ PythonResumes(t)
  BY <1>12 DEF PythonReleases, PythonResumes
<1>13. CASE Release(t)
  BY <1>13 DEF Release
<1> QED
  BY <1>1, <1>2, <1>3, <1>4, <1>5, <1>6, <1>7, <1>8, <1>9, <1>10, <1>11, <1>12, <1>13
  DEF Step, Initialise, Run

LEMMA StepStarted ==
    ASSUME Inv, NEW t \in Threads, Step(t) PROVE StartedInv'
<1> USE ThreadsAssumption, BridgesAssumption
    DEF Inv, TypeOK, CallInv, StartedInv, Goto, callVars, Initialising, Executing
<1>1. ASSUME NEW b \in Bridges, CreatePlan(t, b) \/ Operation(t, b) PROVE StartedInv'
  BY <1>1 DEF CreatePlan, Operation, Call
<1>2. CASE OnceDone(t)
  BY <1>2 DEF OnceDone, AfterOnce
<1>3. CASE OnceRuns(t)
  BY <1>3 DEF OnceRuns
<1>4. CASE CheckInterpreter(t)
  BY <1>4 DEF CheckInterpreter
<1>5. CASE PyInitialize(t)
  BY <1>5 DEF PyInitialize
<1>6. CASE ImportReleases(t) \/ ImportResumes(t)
  BY <1>6 DEF ImportReleases, ImportResumes
<1>7. CASE ImportUnheld(t) \/ PyInitializeTwice(t)
  BY <1>7 DEF ImportUnheld, PyInitializeTwice
<1>8. CASE ImportEnds(t)
  BY <1>8 DEF ImportEnds, AfterOnce
<1>9. CASE ImportFails(t)
  BY <1>9 DEF ImportFails
<1>10. CASE Lock(t) \/ Unlock(t)
  BY <1>10 DEF Lock, Unlock
<1>11. CASE Ensure(t)
  BY <1>11 DEF Ensure
<1>12. CASE PythonReleases(t) \/ PythonResumes(t)
  BY <1>12 DEF PythonReleases, PythonResumes
<1>13. CASE Release(t)
  BY <1>13 DEF Release
<1> QED
  BY <1>1, <1>2, <1>3, <1>4, <1>5, <1>6, <1>7, <1>8, <1>9, <1>10, <1>11, <1>12, <1>13
  DEF Step, Initialise, Run

LEMMA StepGil ==
    ASSUME Inv, NEW t \in Threads, Step(t) PROVE GilInv'
<1> USE ThreadsAssumption, BridgesAssumption
    DEF Inv, TypeOK, StartedInv, GilInv, ParkedGil, Goto, callVars, Initialising, Executing
<1>1. ASSUME NEW b \in Bridges, CreatePlan(t, b) \/ Operation(t, b) PROVE GilInv'
  BY <1>1 DEF CreatePlan, Operation, Call
<1>2. CASE OnceDone(t)
  BY <1>2 DEF OnceDone, AfterOnce
<1>3. CASE OnceRuns(t)
  BY <1>3 DEF OnceRuns
<1>4. CASE CheckInterpreter(t)
  BY <1>4 DEF CheckInterpreter
<1>5. CASE PyInitialize(t)
  BY <1>5 DEF PyInitialize
<1>6. CASE ImportReleases(t) \/ ImportResumes(t)
  BY <1>6 DEF ImportReleases, ImportResumes
<1>7. CASE ImportUnheld(t) \/ PyInitializeTwice(t)
  BY <1>7 DEF ImportUnheld, PyInitializeTwice
<1>8. CASE ImportEnds(t)
  BY <1>8 DEF ImportEnds, AfterOnce
<1>9. CASE ImportFails(t)
  BY <1>9 DEF ImportFails
<1>10. CASE Lock(t) \/ Unlock(t)
  BY <1>10 DEF Lock, Unlock
<1>11. CASE Ensure(t)
  BY <1>11 DEF Ensure
<1>12. CASE PythonReleases(t) \/ PythonResumes(t)
  BY <1>12 DEF PythonReleases, PythonResumes
<1>13. CASE Release(t)
  BY <1>13 DEF Release
<1> QED
  BY <1>1, <1>2, <1>3, <1>4, <1>5, <1>6, <1>7, <1>8, <1>9, <1>10, <1>11, <1>12, <1>13
  DEF Step, Initialise, Run

LEMMA StepMutex ==
    ASSUME Inv, NEW t \in Threads, Step(t) PROVE MutexInv'
<1> USE ThreadsAssumption, BridgesAssumption
    DEF Inv, TypeOK, CallInv, MutexInv, Goto, callVars, Initialising, Executing
<1>1. ASSUME NEW b \in Bridges, CreatePlan(t, b) \/ Operation(t, b) PROVE MutexInv'
  BY <1>1 DEF CreatePlan, Operation, Call
<1>2. CASE OnceDone(t)
  BY <1>2 DEF OnceDone, AfterOnce
<1>3. CASE OnceRuns(t)
  BY <1>3 DEF OnceRuns
<1>4. CASE CheckInterpreter(t)
  BY <1>4 DEF CheckInterpreter
<1>5. CASE PyInitialize(t)
  BY <1>5 DEF PyInitialize
<1>6. CASE ImportReleases(t) \/ ImportResumes(t)
  BY <1>6 DEF ImportReleases, ImportResumes
<1>7. CASE ImportUnheld(t) \/ PyInitializeTwice(t)
  BY <1>7 DEF ImportUnheld, PyInitializeTwice
<1>8. CASE ImportEnds(t)
  BY <1>8 DEF ImportEnds, AfterOnce
<1>9. CASE ImportFails(t)
  BY <1>9 DEF ImportFails
<1>10. CASE Lock(t) \/ Unlock(t)
  BY <1>10 DEF Lock, Unlock
<1>11. CASE Ensure(t)
  BY <1>11 DEF Ensure
<1>12. CASE PythonReleases(t) \/ PythonResumes(t)
  BY <1>12 DEF PythonReleases, PythonResumes
<1>13. CASE Release(t)
  BY <1>13 DEF Release
<1> QED
  BY <1>1, <1>2, <1>3, <1>4, <1>5, <1>6, <1>7, <1>8, <1>9, <1>10, <1>11, <1>12, <1>13
  DEF Step, Initialise, Run

LEMMA StepOutsiders ==
    ASSUME Inv, ~undefined, NEW t \in Threads, Step(t) PROVE OutsidersOnly'
<1> USE DEF Inv, GilInv, OutsidersOnly
<1>1. CASE ImportUnheld(t)
  <2>1. t # initialiser
    BY <1>1, ThreadsAssumption DEF ImportUnheld
  <2> QED BY <1>1, <2>1 DEF ImportUnheld
<1>2. CASE PyInitializeTwice(t)
  <2>1. PICK u \in Threads \ {t} : pc[u] = "start"
    BY <1>2 DEF PyInitializeTwice
  <2>2. t # initialiser \/ u # initialiser
    BY <2>1
  <2> QED BY <1>2, <2>1, <2>2 DEF PyInitializeTwice
<1>3. CASE ~ImportUnheld(t) /\ ~PyInitializeTwice(t)
  <2>1. UNCHANGED undefined
    BY <1>3
    DEF Step, Initialise, Run, CreatePlan, Operation, Call, OnceDone, OnceRuns,
        CheckInterpreter, PyInitialize, ImportReleases, ImportResumes, ImportEnds, ImportFails,
        Lock, Ensure, PythonReleases, PythonResumes, Release, Unlock
  <2> QED BY <2>1
<1> QED BY <1>1, <1>2, <1>3

LEMMA NextInv == Inv /\ [Next]_vars => Inv'
<1> SUFFICES ASSUME Inv, [Next]_vars PROVE Inv'
  OBVIOUS
<1>1. CASE Next
  <2>1. PICK t \in Threads : Step(t)
    BY <1>1 DEF Next, Step
  <2>2. ~undefined
    BY <1>1 DEF Next
  <2> QED
    BY <2>1, <2>2, StepType, StepCall, StepOnce, StepStarted, StepGil, StepMutex, StepOutsiders
    DEF Inv
<1>2. CASE UNCHANGED vars
  BY <1>2
  DEF Inv, TypeOK, CallInv, OnceInv, StartedInv, GilInv, ParkedGil, MutexInv, OutsidersOnly, vars
<1> QED BY <1>1, <1>2 DEF Next

THEOREM Invariance == Spec => []Inv
<1> QED BY InitInv, NextInv, PTL DEF Spec

------------------------------------------------------------------------------
\* Who is blocked waits, directly or behind a thread that initialises a bridge or holds the
\* execution mutex, for the GIL; and only the initialiser keeps the GIL without a step to take.
LEMMA InvStuck == Inv => StuckBehindInitialiser
<1> SUFFICES ASSUME Inv, ~undefined,
                    NEW s \in Threads, pc[s] # "java",
                    \A t \in Threads : pc[t] # "java" => Blocked(t)
             PROVE  gil = initialiser /\ gil # None /\ pc[gil] \in {"java", "lock"}
  BY DEF StuckBehindInitialiser
<1> USE ThreadsAssumption DEF Inv, TypeOK
<1>1. \A t \in Threads : pc[t] \notin {"check", "start", "import", "python", "unlock"}
  BY DEF Blocked, WaitsForGil
<1>2. \A t \in Threads : pc[t] = "once" =>
        \E u \in Threads : pc[u] = "importResume"
  BY <1>1 DEF Blocked, CallInv, OnceInv, Initialising, WaitsForGil
<1>3. \A t \in Threads : pc[t] = "lock" =>
        \E u \in Threads : pc[u] \in {"ensure", "resume"}
  <2> SUFFICES ASSUME NEW t \in Threads, pc[t] = "lock"
               PROVE  \E u \in Threads : pc[u] \in {"ensure", "resume"}
    OBVIOUS
  <2>1. bridge[t] \in Serialised /\ mutex[bridge[t]] # None
    BY DEF CallInv, Blocked, WaitsForGil
  <2>2. mutex[bridge[t]] \in Threads /\ pc[mutex[bridge[t]]] \in Executing
    BY <2>1 DEF MutexInv
  <2> QED BY <1>1, <2>2 DEF Executing
<1>4. PICK w \in Threads : pc[w] \in WaitsForGil
  BY <1>1, <1>2, <1>3 DEF WaitsForGil, Initialising, Executing
<1>5. gil \in Threads
  BY <1>4 DEF Blocked, WaitsForGil
<1>6. gil = initialiser
  BY <1>1, <1>5 DEF GilInv, ParkedGil
<1>7. pc[gil] \notin WaitsForGil
  BY <1>5 DEF Blocked, WaitsForGil
<1>8. pc[gil] # "once"
  BY <1>2, <1>5, <1>6, <1>7 DEF GilInv, WaitsForGil
<1> QED BY <1>1, <1>5, <1>6, <1>7, <1>8 DEF WaitsForGil, Initialising, Executing

\* For any number of threads and bridges, the calls get stuck only behind the thread that
\* started the interpreter and keeps the GIL it got from Py_Initialize.
THEOREM StuckBehindInitialiserHolds == Spec => []StuckBehindInitialiser
<1> QED BY Invariance, InvStuck, PTL

\* Outside Python only that thread ever holds the GIL.
THEOREM ParkedGilHolds == Spec => []ParkedGil
<1>1. Inv => ParkedGil
  BY DEF Inv, GilInv
<1> QED BY <1>1, Invariance, PTL

\* The operations of a bridge with an execution mutex never overlap, although Python lets
\* the GIL go in the middle of them.
THEOREM OneExecutionHolds == Spec => []OneExecution
<1>1. Inv => OneExecution
  BY DEF Inv, MutexInv, OneExecution
<1> QED BY <1>1, Invariance, PTL

\* Python runs without the GIL only in a thread that initialises a bridge in an interpreter
\* that another thread started.
THEOREM OutsidersOnlyHolds == Spec => []OutsidersOnly
<1>1. Inv => OutsidersOnly
  BY DEF Inv
<1> QED BY <1>1, Invariance, PTL
==============================================================================
