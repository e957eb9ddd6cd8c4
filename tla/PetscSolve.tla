----------------------------- MODULE PetscSolve ------------------------------
(***************************************************************************)
(* The PETSc/TAO bridge: bounded quadratic programs                        *)
(*     minimise x.Qx / 2 + c.x  where lower <= x <= upper                  *)
(* as native plans, solved by any thread.  PETSc is initialised once; what *)
(* PetscInitialize answers is ignored.  A solve holds one mutex from the   *)
(* lookup of its plan to the last call of PETSc, which frees the objects   *)
(* it has made, whichever of its calls fails.                              *)
(*                                                                         *)
(* PETSc itself is external: its calls may fail, and do when it could not  *)
(* be initialised; TaoSolve ends in a point of the box where no component  *)
(* of the gradient it was given points inwards, or says that it does not   *)
(* converge, which is a result, not an error.                              *)
(***************************************************************************)
EXTENDS Integers, Sequences, FiniteSets

CONSTANTS
    Solvers,        \* the threads
    Problems,       \* what the provider hands over: a sequence of problems, named by their index
    MaxPlans,
    Nobody

ASSUME NobodyAssumption == Nobody \notin Solvers
\* What the provider checks before it hands a problem over: the sizes and the symmetry.
ASSUME ProblemsAssumption ==
    \A k \in DOMAIN Problems : LET p == Problems[k]  I == 1..Len(p.linear) IN
        /\ p.linear \in Seq(Int) /\ p.hessian \in [I -> [I -> Int]]
        /\ p.lower \in [I -> Int] /\ p.upper \in [I -> Int]
        /\ \A i, j \in I : p.hessian[i][j] = p.hessian[j][i]

VARIABLES
    petscOnce,      \* petsc_initialization: "unset", "running" or "set"
    petscUp,        \* PETSc works
    solving,        \* who holds petsc_execution_mutex
    plans,          \* the plans ever made, by handle: their problems
    live,           \* g_plans
    freed,          \* plans whose memory is gone
    petscPc,
    asked,          \* the problem or handle of a thread's call
    target,         \* the handle of the plan a thread has a shared_ptr to; 0 for none
    objects,        \* the PETSc objects a thread has made and not destroyed
    solved          \* the last result that was handed out

petscVars ==
    <<petscOnce, petscUp, solving, plans, live, freed, petscPc, asked, target, objects, solved>>
heldVars == <<solving, target, objects>>
planVars == <<plans, live, freed>>

NoResult == [problem |-> 0, objective |-> 0, converged |-> FALSE]

PetscInit ==
    /\ petscOnce = "unset" /\ petscUp = FALSE
    /\ solving = Nobody
    /\ plans = <<>> /\ live = {} /\ freed = {}
    /\ petscPc = [t \in Solvers |-> "out"]
    /\ asked = [t \in Solvers |-> 0]
    /\ target = [t \in Solvers |-> 0]
    /\ objects = [t \in Solvers |-> {}]
    /\ solved = NoResult

-----------------------------------------------------------------------------
(* The callbacks.  The objective is doubled to stay with whole numbers. *)

Plus(m, n) == m + n
Summing == INSTANCE Loops WITH Turn <- Plus
Sum(terms) == Summing!Loop(0, terms)

Indices(p) == DOMAIN p.linear
Row(p, x, i) == Sum([j \in Indices(p) |-> p.hessian[i][j] * x[j]])
Gradient(p, x) == [i \in Indices(p) |-> Row(p, x, i) + p.linear[i]]
\* Mutant of DoubledObjective: the quadratic term is not halved.
DoubledObjectiveUnhalved(p, x) ==
    Sum([i \in Indices(p) |-> 2 * x[i] * Row(p, x, i) + 2 * p.linear[i] * x[i]])
DoubledObjective(p, x) ==
    Sum([i \in Indices(p) |-> x[i] * Row(p, x, i) + 2 * p.linear[i] * x[i]])

Box(p) ==
    {x \in [Indices(p) -> UNION {p.lower[i]..p.upper[i] : i \in Indices(p)}] :
        \A i \in Indices(p) : x[i] \in p.lower[i]..p.upper[i]}
\* Where TAO's interior point method stops.
Stationary(p, x) ==
    \A i \in Indices(p) :
        /\ x[i] < p.upper[i] => Gradient(p, x)[i] >= 0
        /\ x[i] > p.lower[i] => Gradient(p, x)[i] <= 0

-----------------------------------------------------------------------------
(* Entering: ensure_petsc in front of every call. *)

PetscGoto(t, from, to) == petscPc[t] = from /\ petscPc' = [petscPc EXCEPT ![t] = to]

EnterCall(t, what, argument) ==
    /\ PetscGoto(t, "out", what)
    /\ asked' = [asked EXCEPT ![t] = argument]
    /\ UNCHANGED <<petscOnce, petscUp, heldVars, planVars, solved>>
CreateCall(t, problem) ==
    /\ Len(plans) + Cardinality({u \in Solvers : petscPc[u] = "create"}) < MaxPlans
    /\ EnterCall(t, "create", problem)
SolveCall(t, h) == EnterCall(t, "solve", h)

\* The first one in initialises PETSc; asked keeps what it came for.
EnterOnce(t) ==
    /\ petscPc[t] \in {"create", "solve"} /\ petscOnce = "unset"
    /\ petscOnce' = "running"
    /\ PetscGoto(t, petscPc[t], IF petscPc[t] = "create" THEN "initCreate" ELSE "initSolve")
    /\ UNCHANGED <<petscUp, heldVars, planVars, asked, solved>>
PetscInitialize(t) ==
    /\ petscPc[t] \in {"initCreate", "initSolve"}
    /\ petscUp' \in BOOLEAN
    /\ petscOnce' = "set"
    /\ PetscGoto(t, petscPc[t], IF petscPc[t] = "initCreate" THEN "create" ELSE "solve")
    /\ UNCHANGED <<heldVars, planVars, asked, solved>>

RegisterPlan(t) ==
    /\ petscOnce = "set"
    /\ PetscGoto(t, "create", "out")
    /\ plans' = Append(plans, asked[t]) /\ live' = live \cup {Len(plans')}
    /\ asked' = [asked EXCEPT ![t] = 0]
    /\ UNCHANGED <<petscOnce, petscUp, heldVars, freed, solved>>

-----------------------------------------------------------------------------
(* Solving. *)

\* Mutant of LockSolve: solves of different plans run side by side.
LockSolvePerPlan(t) ==
    /\ petscOnce = "set" /\ \A u \in Solvers \ {t} : target[u] # asked[t]
    /\ PetscGoto(t, "solve", "lookup")
    /\ solving' = t
    /\ UNCHANGED <<petscOnce, petscUp, planVars, asked, target, objects, solved>>

LockSolve(t) ==
    /\ petscOnce = "set" /\ solving = Nobody
    /\ PetscGoto(t, "solve", "lookup")
    /\ solving' = t
    /\ UNCHANGED <<petscOnce, petscUp, planVars, asked, target, objects, solved>>

\* -2 when the plan is gone.  The caller's buffer has room for dimension + 4 numbers.
Lookup(t) ==
    \/ /\ asked[t] \in live
       /\ PetscGoto(t, "lookup", "solution")
       /\ target' = [target EXCEPT ![t] = asked[t]]
       /\ UNCHANGED <<petscOnce, petscUp, solving, planVars, asked, objects, solved>>
    \/ /\ asked[t] \notin live
       /\ PetscGoto(t, "lookup", "leave")
       /\ UNCHANGED <<petscOnce, petscUp, heldVars, planVars, asked, solved>>

Making == {"solution", "gradient", "lower", "upper", "hessian", "tao"}
\* In the order of the members, each made and filled in by calls that may fail.
After(object) ==
    CASE object = "solution" -> "gradient"
      [] object = "gradient" -> "lower"
      [] object = "lower" -> "upper"
      [] object = "upper" -> "hessian"
      [] object = "hessian" -> "tao"
      [] object = "tao" -> "taoSolve"

Make(t) ==
    /\ petscPc[t] \in Making /\ petscUp
    /\ PetscGoto(t, petscPc[t], After(petscPc[t]))
    /\ objects' = [objects EXCEPT ![t] = @ \cup {petscPc[t]}]
    /\ UNCHANGED <<petscOnce, petscUp, solving, planVars, asked, target, solved>>

\* Mutant of PetscFails: the call returns at once.
PetscFailsAtOnce(t) ==
    /\ petscPc[t] \in Making \cup {"taoSolve"}
    /\ PetscGoto(t, petscPc[t], "leave")
    /\ UNCHANGED <<petscOnce, petscUp, heldVars, planVars, asked, solved>>

\* check throws, and the objects go with the frame.
PetscFails(t) ==
    /\ petscPc[t] \in Making \cup {"taoSolve"}
    /\ PetscGoto(t, petscPc[t], "free")
    /\ UNCHANGED <<petscOnce, petscUp, heldVars, planVars, asked, solved>>

\* The result is written into the caller's buffer with the objective and the reason.
TaoSolve(t) ==
    /\ PetscGoto(t, "taoSolve", "free")
    /\ LET p == Problems[plans[target[t]]]
       IN  \E x \in Box(p), converged \in BOOLEAN :
              /\ converged => Stationary(p, x)
              /\ solved' = [problem |-> plans[target[t]], objective |-> DoubledObjective(p, x),
                            converged |-> converged]
    /\ UNCHANGED <<petscOnce, petscUp, heldVars, planVars, asked>>

FreeObjects(t) ==
    /\ PetscGoto(t, "free", "leave")
    /\ objects' = [objects EXCEPT ![t] = {}]
    /\ UNCHANGED <<petscOnce, petscUp, solving, planVars, asked, target, solved>>

Unused(h, without) == \A u \in Solvers \ without : target[u] # h

\* The frame lets go of the plan, then of the mutex.
Leave(t) ==
    /\ PetscGoto(t, "leave", "out")
    /\ freed' = IF target[t] \notin live /\ Unused(target[t], {t}) THEN freed \cup ({target[t]} \ {0}) ELSE freed
    /\ target' = [target EXCEPT ![t] = 0] /\ asked' = [asked EXCEPT ![t] = 0]
    /\ solving' = Nobody
    /\ UNCHANGED <<petscOnce, petscUp, plans, live, objects, solved>>

DestroyPlan(h) ==
    /\ h \in live
    /\ live' = live \ {h}
    /\ freed' = IF Unused(h, {}) THEN freed \cup {h} ELSE freed
    /\ UNCHANGED <<petscOnce, petscUp, heldVars, plans, petscPc, asked, solved>>

PetscNext ==
    \/ \E t \in Solvers :
          \/ \E problem \in DOMAIN Problems : CreateCall(t, problem)
          \/ \E h \in DOMAIN plans : SolveCall(t, h)
          \/ EnterOnce(t) \/ PetscInitialize(t) \/ RegisterPlan(t)
          \/ LockSolve(t) \/ Lookup(t) \/ Make(t) \/ PetscFails(t) \/ TaoSolve(t)
          \/ FreeObjects(t) \/ Leave(t)
    \/ \E h \in live : DestroyPlan(h)

PetscSpec == PetscInit /\ [][PetscNext]_petscVars

-----------------------------------------------------------------------------

InPetsc(t) == petscPc[t] \in Making \cup {"taoSolve", "free", "initCreate", "initSolve"}

\* PETSc is entered by one thread at a time, its initialisation included, whatever plans are solved.
PetscCallsSerialized == \A t, u \in Solvers : InPetsc(t) /\ InPetsc(u) => t = u

\* A plan that is destroyed while it is solved lives until the solve ends, and no plan is left behind.
PetscPlanOutlivesSolve ==
    \A h \in DOMAIN plans : h \in freed <=> h \notin live /\ Unused(h, {})

\* Whichever call fails, the objects made so far are destroyed, and while the mutex is still held.
PetscObjectsFreed ==
    \A t \in Solvers : objects[t] # {} => petscPc[t] \in Making \cup {"taoSolve", "free"} /\ solving = t

\* Plans and objects are given back when nobody can use them any more, and not before.
PetscReleases == PetscPlanOutlivesSolve /\ PetscObjectsFreed

\* A problem is convex when its quadratic form is never negative along the way from a point of the
\* box to another.
Curvature(p, d) == Sum([i \in Indices(p) |-> d[i] * Row(p, d, i)])
Convex(p) == \A x, y \in Box(p) : Curvature(p, [i \in Indices(p) |-> y[i] - x[i]]) >= 0

\* The gradient the solver walks by is that of the objective the plan reports: what a converged solve
\* of a convex problem with a symmetric matrix answers is the least value in the box.  The provider
\* checks the symmetry, not the convexity.
ConvexProblemsMinimised ==
    solved.converged =>
        LET p == Problems[solved.problem]
        IN  Convex(p) => \A y \in Box(p) : solved.objective <= DoubledObjective(p, y)
=============================================================================
