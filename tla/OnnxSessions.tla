---------------------------- MODULE OnnxSessions -----------------------------
(***************************************************************************)
(* The ONNX bridge: the runtime library is loaded and its environment made *)
(* once, sessions are created, run and destroyed by any thread.  Every     *)
(* call of the runtime hands out an object or a status, and may fail.      *)
(*                                                                         *)
(* init_onnx_api has no lock, sets g_ort before it makes the environment   *)
(* and answers true from then on, whether or not there is one.  What makes *)
(* it safe is in Java: OnnxPanama asks once, in its static initializer,    *)
(* which the JVM runs on one thread while the others wait, and refuses all *)
(* calls for ever when the answer was no.                                  *)
(*                                                                         *)
(* A failed call answers with a status, which is released before our call  *)
(* returns and is part of its step.  Only the queries for the names of     *)
(* inputs and outputs drop theirs: `lost` counts them.                     *)
(***************************************************************************)
EXTENDS Naturals, FiniteSets

CONSTANTS OnnxThreads, MaxSessions

ASSUME MaxSessionsAssumption == MaxSessions \in Nat

VARIABLES
    ort,        \* g_ort is set
    env,        \* g_env is set
    available,  \* OnnxPanama.available: "new" and "loading" before its class is initialized
    sessions,   \* g_sessions
    created,    \* handles given out: 1..created
    released,   \* sessions ReleaseSession was called for
    onnxPc,
    uses,       \* the session a thread has a shared_ptr to; 0 for none
    holds,      \* what a thread has got from the runtime and must release
    lost        \* statuses that nobody has and nobody released

onnxVars == <<ort, env, available, sessions, created, released, onnxPc, uses, holds,
              lost>>

OnnxInit ==
    /\ ort = FALSE /\ env = FALSE /\ available = "new"
    /\ sessions = {} /\ created = 0 /\ released = {}
    /\ onnxPc = [t \in OnnxThreads |-> "out"]
    /\ uses = [t \in OnnxThreads |-> 0]
    /\ holds = [t \in OnnxThreads |-> {}]
    /\ lost = 0

OnnxGoto(t, from, to) == onnxPc[t] = from /\ onnxPc' = [onnxPc EXCEPT ![t] = to]

\* The first thread that uses OnnxPanama initializes the class.
LoadOnnxPanama(t) ==
    /\ available = "new" /\ available' = "loading"
    /\ OnnxGoto(t, "out", "api")
    /\ UNCHANGED <<ort, env, sessions, created, released, uses, holds, lost>>

\* init_onnx_api up to g_ort; the library or its entry may be missing.
LoadApi(t) ==
    \/ /\ OnnxGoto(t, "api", "env")
       /\ ort' = TRUE
       /\ UNCHANGED <<env, available, sessions, created, released, uses, holds, lost>>
    \/ /\ OnnxGoto(t, "api", "out")
       /\ available' = "no"
       /\ UNCHANGED <<ort, env, sessions, created, released, uses, holds, lost>>

\* Mutant of CreateEnv: g_ort is taken for the answer, as a second call would.
CreateEnvOrNot(t) ==
    /\ OnnxGoto(t, "env", "out")
    /\ env' \in BOOLEAN
    /\ available' = "yes"
    /\ UNCHANGED <<ort, sessions, created, released, uses, holds, lost>>

CreateEnv(t) ==
    /\ OnnxGoto(t, "env", "out")
    /\ env' \in BOOLEAN
    /\ available' = IF env' THEN "yes" ELSE "no"
    /\ UNCHANGED <<ort, sessions, created, released, uses, holds, lost>>

Creating == {t \in OnnxThreads : onnxPc[t] \in {"options", "session", "names"}}

\* createSession: is refused without the runtime; init_onnx_api finds g_ort set.
CreateSession(t) ==
    /\ available = "yes" /\ ort
    /\ created + Cardinality(Creating) < MaxSessions
    /\ OnnxGoto(t, "out", "options")
    /\ UNCHANGED <<ort, env, available, sessions, created, released, uses, holds, lost>>

\* run: null buffers, a zero handle and a small buffer are refused before; -3 without the session.
RunSession(t, h) ==
    /\ available = "yes" /\ ort
    /\ h \in sessions
    /\ OnnxGoto(t, "out", "memory")
    /\ uses' = [uses EXCEPT ![t] = h]
    /\ UNCHANGED <<ort, env, available, sessions, created, released, holds, lost>>

\* The context's destructor runs when the map and the threads have let go of it.
Dropped(h, users) == IF h \notin sessions /\ users = {} THEN {h} \ {0} ELSE {}
OtherUsers(t, h) == {u \in OnnxThreads \ {t} : uses[u] = h}
LetGo(t) ==
    /\ uses' = [uses EXCEPT ![t] = 0]
    /\ released' = released \cup Dropped(uses[t], OtherUsers(t, uses[t]))

\* One call of the runtime.  What was only needed for the call is released whether it succeeds or
\* not; a failure ends the caller's call with an error.
OrtCall(t, from, frees, gives, to) ==
    \/ /\ OnnxGoto(t, from, to)
       /\ holds' = [holds EXCEPT ![t] = (@ \ frees) \cup gives]
       /\ UNCHANGED <<ort, env, available, sessions, created, released, uses, lost>>
    \/ /\ OnnxGoto(t, from, "out")
       /\ holds' = [holds EXCEPT ![t] = @ \ frees]
       /\ LetGo(t)
       /\ UNCHANGED <<ort, env, available, sessions, created, lost>>

SessionOptions(t) == OrtCall(t, "options", {}, {"options"}, "session")
OpenSession(t) == OrtCall(t, "session", {"options"}, {"session"}, "names")
\* The names are asked for: the count and then the first of them, for the inputs and for the outputs.
\* One query of either may fail, and its status is only compared with null.  Whatever becomes of
\* them, the context, which now owns the session, is put into the map.
RegisterSession(t) ==
    /\ OnnxGoto(t, "names", "out")
    /\ created' = created + 1 /\ sessions' = sessions \cup {created'}
    /\ holds' = [holds EXCEPT ![t] = {}]
    /\ \E failures \in 0..2 : lost' = lost + failures
    /\ UNCHANGED <<ort, env, available, released, uses>>

MemoryInfo(t) == OrtCall(t, "memory", {}, {"memoryInfo"}, "tensor")
InputTensor(t) == OrtCall(t, "tensor", {"memoryInfo"}, {"input"}, "running")
OrtRun(t) == OrtCall(t, "running", {"input"}, {"output"}, "data")
\* The data of the result is copied, unless it cannot be had; the result is released in any case.
CopyOutput(t) ==
    /\ OnnxGoto(t, "data", "out")
    /\ holds' = [holds EXCEPT ![t] = {}]
    /\ LetGo(t)
    /\ UNCHANGED <<ort, env, available, sessions, created, lost>>

\* Mutant of DestroySession: the session is released with its entry.
DestroyAtOnce(h) ==
    /\ h \in sessions
    /\ sessions' = sessions \ {h}
    /\ released' = released \cup {h}
    /\ UNCHANGED <<ort, env, available, created, onnxPc, uses, holds, lost>>

DestroySession(h) ==
    /\ h \in sessions
    /\ sessions' = sessions \ {h}
    /\ released' = released \cup (IF \E t \in OnnxThreads : uses[t] = h THEN {} ELSE {h})
    /\ UNCHANGED <<ort, env, available, created, onnxPc, uses, holds, lost>>
OnnxNext ==
    \/ \E t \in OnnxThreads :
          \/ LoadOnnxPanama(t) \/ LoadApi(t) \/ CreateEnv(t)
          \/ CreateSession(t) \/ SessionOptions(t) \/ OpenSession(t) \/ RegisterSession(t)
          \/ \E h \in 1..created : RunSession(t, h)
          \/ MemoryInfo(t) \/ InputTensor(t) \/ OrtRun(t) \/ CopyOutput(t)
    \/ \E h \in 1..created : DestroySession(h)

OnnxSpec == OnnxInit /\ [][OnnxNext]_onnxVars

-----------------------------------------------------------------------------

\* No session is made or run without the environment, although init_onnx_api answers true from
\* its second call on whatever became of the environment: the answer of the first is kept in Java.
EnvBeforeSession == \A t \in OnnxThreads : onnxPc[t] \in {"out", "api", "env"} \/ env

\* A session is released once nobody can reach it and not before: a session that is destroyed
\* while it runs lives until the run returns, and none is left behind.
SessionsOutliveRuns ==
    \A h \in 1..created :
        h \in released <=> h \notin sessions /\ \A t \in OnnxThreads : uses[t] # h

\* Whatever fails, a call that has returned has released every object it got from the runtime, and
\* the only statuses left over are those of the queries for names, at most two for each session.
OrtObjectsReleased ==
    /\ \A t \in OnnxThreads : onnxPc[t] = "out" => holds[t] = {}
    /\ lost <= 2 * created

\* What the runtime has given out is released when nobody can use it any more, and not before, the
\* statuses of the queries for names apart.
OrtReleases == SessionsOutliveRuns /\ OrtObjectsReleased
=============================================================================
