---------------------------- MODULE PythonBridges ----------------------------
(***************************************************************************)
(* The native bridges that embed CPython (JAX and OpenCV), called by the   *)
(* threads of one JVM.  A bridge initialises itself under a once_flag: it  *)
(* starts the interpreter unless another bridge has, and imports its       *)
(* modules.  Operations then run Python between PyGILState_Ensure and      *)
(* PyGILState_Release; those of a Serialised bridge (OpenCV) hold an       *)
(* execution mutex besides.                                                *)
(*                                                                         *)
(* Py_Initialize leaves the interpreter lock (GIL) with its caller, and no *)
(* bridge gives it back (PyEval_SaveThread): the initialising thread keeps *)
(* it parked while it runs Java code, and lends it only when it runs       *)
(* Python itself, where the interpreter and the modules release it and     *)
(* take it again.                                                          *)
(***************************************************************************)
CONSTANTS Threads, Bridges, Serialised, None

ASSUME ThreadsAssumption == None \notin Threads
ASSUME BridgesAssumption == Serialised \subseteq Bridges

VARIABLES
    once,           \* a bridge's once_flag: "unset", "running" or "set"
    initialiser,    \* the thread that started the interpreter
    gil,            \* the thread that holds the GIL
    mutex,          \* who holds the execution mutex of a serialised bridge
    pc,
    bridge,         \* the bridge a thread calls
    op,             \* what it calls: createPlan or an operation that runs Python
    nested,         \* its PyGILState_Ensure found the GIL in its own hands
    undefined       \* Python ran without the GIL: anything may follow

vars == <<once, initialiser, gil, mutex, pc, bridge, op, nested, undefined>>
callVars == <<bridge, op>>

Initialising == {"check", "start", "import", "importResume"}
Executing == {"ensure", "python", "resume", "unlock"}
WaitsForGil == {"importResume", "ensure", "resume"}

TypeOK ==
    /\ once \in [Bridges -> {"unset", "running", "set"}]
    /\ initialiser \in Threads \cup {None} /\ gil \in Threads \cup {None}
    /\ mutex \in [Serialised -> Threads \cup {None}]
    /\ pc \in [Threads -> {"java", "once", "lock"} \cup Initialising \cup Executing]
    /\ bridge \in [Threads -> Bridges \cup {None}]
    /\ op \in [Threads -> {"create", "run", None}]
    /\ nested \in [Threads -> BOOLEAN] /\ undefined \in BOOLEAN

Init ==
    /\ once = [b \in Bridges |-> "unset"]
    /\ initialiser = None /\ gil = None
    /\ mutex = [b \in Serialised |-> None]
    /\ pc = [t \in Threads |-> "java"]
    /\ bridge = [t \in Threads |-> None] /\ op = [t \in Threads |-> None]
    /\ nested = [t \in Threads |-> FALSE]
    /\ undefined = FALSE

\* A call that returns leaves nothing behind.
Goto(t, from, to) ==
    /\ pc[t] = from
    /\ pc' = [pc EXCEPT ![t] = to]
    /\ IF to = "java"
       THEN bridge' = [bridge EXCEPT ![t] = None] /\ op' = [op EXCEPT ![t] = None]
       ELSE UNCHANGED callVars

------------------------------------------------------------------------------
(* Initialisation *)

Call(t, b, o) ==
    /\ pc[t] = "java"
    /\ pc' = [pc EXCEPT ![t] = "once"]
    /\ bridge' = [bridge EXCEPT ![t] = b]
    /\ op' = [op EXCEPT ![t] = o]
    /\ UNCHANGED <<once, initialiser, gil, mutex, nested, undefined>>

CreatePlan(t, b) == Call(t, b, "create")
Operation(t, b) == Call(t, b, "run")

\* Where a call goes once its bridge is initialised: createPlan runs no Python.
AfterOnce(t) ==
    IF op[t] = "create" THEN "java"
    ELSE IF bridge[t] \in Serialised THEN "lock" ELSE "ensure"

OnceDone(t) ==
    /\ Goto(t, "once", AfterOnce(t))
    /\ once[bridge[t]] = "set"
    /\ UNCHANGED <<once, initialiser, gil, mutex, nested, undefined>>

OnceRuns(t) ==
    /\ Goto(t, "once", "check")
    /\ once[bridge[t]] = "unset"
    /\ once' = [once EXCEPT ![bridge[t]] = "running"]
    /\ UNCHANGED <<initialiser, gil, mutex, nested, undefined>>

CheckInterpreter(t) ==
    /\ Goto(t, "check", IF initialiser = None THEN "start" ELSE "import")
    /\ UNCHANGED <<once, initialiser, gil, mutex, nested, undefined>>

\* Mutant of PyInitialize: the interpreter is started and the GIL given back.
PyInitializeSaved(t) ==
    /\ Goto(t, "start", "import")
    /\ initialiser' = IF initialiser = None THEN t ELSE initialiser
    /\ UNCHANGED <<once, gil, mutex, nested, undefined>>

\* A second call does nothing.
PyInitialize(t) ==
    /\ Goto(t, "start", "import")
    /\ IF initialiser = None
       THEN initialiser' = t /\ gil' = t
       ELSE UNCHANGED <<initialiser, gil>>
    /\ UNCHANGED <<once, mutex, nested, undefined>>

\* Two bridges that both saw no interpreter start it at once.
PyInitializeTwice(t) ==
    /\ pc[t] = "start"
    /\ \E u \in Threads \ {t} : pc[u] = "start"
    /\ undefined' = TRUE
    /\ UNCHANGED <<once, initialiser, gil, mutex, pc, callVars, nested>>

ImportReleases(t) ==
    /\ gil = t
    /\ Goto(t, "import", "importResume")
    /\ gil' = None
    /\ UNCHANGED <<once, initialiser, mutex, nested, undefined>>

ImportResumes(t) ==
    /\ gil = None
    /\ Goto(t, "importResume", "import")
    /\ gil' = t
    /\ UNCHANGED <<once, initialiser, mutex, nested, undefined>>

\* The modules are imported without PyGILState_Ensure.
ImportUnheld(t) ==
    /\ pc[t] = "import" /\ gil # t
    /\ undefined' = TRUE
    /\ UNCHANGED <<once, initialiser, gil, mutex, pc, callVars, nested>>

ImportEnds(t) ==
    /\ gil = t
    /\ Goto(t, "import", AfterOnce(t))
    /\ once' = [once EXCEPT ![bridge[t]] = "set"]
    /\ UNCHANGED <<initialiser, gil, mutex, nested, undefined>>

\* A module is missing: the exception leaves call_once, and the next call tries again.
ImportFails(t) ==
    /\ gil = t
    /\ Goto(t, "import", "java")
    /\ once' = [once EXCEPT ![bridge[t]] = "unset"]
    /\ UNCHANGED <<initialiser, gil, mutex, nested, undefined>>

------------------------------------------------------------------------------
(* Operations *)

\* Mutant of Lock: the execution mutex excludes nobody.
LockShares(t) ==
    /\ Goto(t, "lock", "ensure")
    /\ mutex' = [mutex EXCEPT ![bridge[t]] = t]
    /\ UNCHANGED <<once, initialiser, gil, nested, undefined>>

Lock(t) ==
    /\ Goto(t, "lock", "ensure")
    /\ mutex[bridge[t]] = None
    /\ mutex' = [mutex EXCEPT ![bridge[t]] = t]
    /\ UNCHANGED <<once, initialiser, gil, nested, undefined>>

Ensure(t) ==
    /\ gil \in {None, t}
    /\ Goto(t, "ensure", "python")
    /\ gil' = t
    /\ nested' = [nested EXCEPT ![t] = gil = t]
    /\ UNCHANGED <<once, initialiser, mutex, undefined>>

\* The interpreter, NumPy, cv2 or JAX lets other threads run.
PythonReleases(t) ==
    /\ Goto(t, "python", "resume")
    /\ gil' = None
    /\ UNCHANGED <<once, initialiser, mutex, nested, undefined>>

PythonResumes(t) ==
    /\ gil = None
    /\ Goto(t, "resume", "python")
    /\ gil' = t
    /\ UNCHANGED <<once, initialiser, mutex, nested, undefined>>

\* Mutant of Release: a thread that was not the first to hold the GIL keeps it.
ReleaseKeeps(t) ==
    /\ Goto(t, "python", IF bridge[t] \in Serialised THEN "unlock" ELSE "java")
    /\ UNCHANGED <<once, initialiser, gil, mutex, nested, undefined>>

\* On every path out of an operation; the GIL goes back to where Ensure found it.
Release(t) ==
    /\ Goto(t, "python", IF bridge[t] \in Serialised THEN "unlock" ELSE "java")
    /\ gil' = IF nested[t] THEN t ELSE None
    /\ nested' = [nested EXCEPT ![t] = FALSE]
    /\ UNCHANGED <<once, initialiser, mutex, undefined>>

Unlock(t) ==
    /\ Goto(t, "unlock", "java")
    /\ mutex' = [mutex EXCEPT ![bridge[t]] = None]
    /\ UNCHANGED <<once, initialiser, gil, nested, undefined>>

------------------------------------------------------------------------------
(* The system *)

Initialise(t) ==
    \/ OnceDone(t) \/ OnceRuns(t) \/ CheckInterpreter(t)
    \/ PyInitialize(t) \/ PyInitializeTwice(t)
    \/ ImportReleases(t) \/ ImportResumes(t) \/ ImportUnheld(t)
    \/ ImportEnds(t) \/ ImportFails(t)

Run(t) ==
    \/ Lock(t) \/ Ensure(t) \/ PythonReleases(t) \/ PythonResumes(t)
    \/ Release(t) \/ Unlock(t)

Next ==
    /\ ~undefined
    /\ \E t \in Threads :
          \/ \E b \in Bridges : CreatePlan(t, b) \/ Operation(t, b)
          \/ Initialise(t)
          \/ Run(t)

Spec == Init /\ [][Next]_vars

\* No thread has to call.  A call in progress goes on; Python work and an import end,
\* however often they let the GIL go; the GIL is handed round among its waiters.
Fairness ==
    \A t \in Threads :
        /\ WF_vars(~undefined /\ (Initialise(t) \/ Run(t)))
        /\ SF_vars(~undefined /\ (ImportResumes(t) \/ Ensure(t) \/ PythonResumes(t)))
        /\ SF_vars(~undefined /\ (ImportEnds(t) \/ ImportFails(t) \/ Release(t)))

FairSpec == Spec /\ Fairness

------------------------------------------------------------------------------
(* Properties *)

\* Outside Python only the thread that started the interpreter holds the GIL: every other
\* thread gives it back on every way out of an operation.
ParkedGil == gil # None => gil = initialiser \/ pc[gil] = "python"

\* Although Python lets the GIL go in the middle of an operation, the execution mutex keeps
\* the operations of a serialised bridge apart (opencv_execution_mutex).
OneExecution ==
    \A t, u \in Threads :
        /\ pc[t] \in Executing /\ pc[u] \in Executing
        /\ bridge[t] = bridge[u] /\ bridge[t] \in Serialised
        => t = u

\* Python runs without the GIL only where a thread initialises a bridge in an interpreter
\* that another thread started.
OutsidersOnly ==
    undefined => \E t \in Threads : t # initialiser /\ pc[t] \in {"start", "import"}

Blocked(t) ==
    \/ pc[t] = "once" /\ once[bridge[t]] = "running"
    \/ pc[t] = "lock" /\ mutex[bridge[t]] # None
    \/ pc[t] \in WaitsForGil /\ gil \notin {None, t}

\* The calls are stuck in one way only: the thread that started the interpreter has the GIL
\* and runs Java code, or waits itself for the execution mutex of one that waits for the GIL.
StuckBehindInitialiser ==
    /\ ~undefined
    /\ \E t \in Threads : pc[t] # "java"
    /\ \A t \in Threads : pc[t] # "java" => Blocked(t)
    => gil = initialiser /\ gil # None /\ pc[gil] \in {"java", "lock"}

\* The thread that started the interpreter always returns from a bridge with no execution
\* mutex, whoever borrows the GIL meanwhile.
InitialiserReturns ==
    \A t \in Threads :
        (t = initialiser /\ pc[t] # "java" /\ bridge[t] \notin Serialised)
            ~> (pc[t] = "java" \/ undefined)

\* docs/libtorch-provider.md:67 says that the read/write lock of LibTorchPlan, the plan of the
\* JAX provider too, "permits concurrent execution": a thread that executes gets its result.
ExecutionsReturn ==
    \A t \in Threads : (pc[t] # "java") ~> (pc[t] = "java" \/ undefined)
==============================================================================
