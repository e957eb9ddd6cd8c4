# groovy-math in TLA+

TLA+ modules of the parts of groovy-math where calls, threads, callbacks and native memory meet, the
TLC runs that check them on small instances, and TLAPS proofs that hold for every size. Paths below
are relative to `src/`; `J/`, `G/` and `C/` stand for `src/main/java/org/moqui/math/`,
`src/main/groovy/org/moqui/math/` and `src/main/cpp/`.

To check a run, `tlc -config <cfg> <MC module>`; to check the proofs, `tlapm` the modules whose names
end in Proofs, and `Loops.tla`.
`PROJECT.json` lists runs, theorems and hazards and maps every definition to the lines it stands for.

1. [Inventory](#1-inventory)
2. [Modules](#2-modules)
3. [Runs](#3-runs)
4. [Fairness](#4-fairness)
5. [Proofs](#5-proofs)
6. [Disagreements between code and documents](#6-disagreements-between-code-and-documents)
7. [Not modelled](#7-not-modelled)
8. [Plan](#8-plan)

## 1. Inventory

A program written in the Groovy DSL (or the fluent builder) fills the named containers of a
`MathMeta` with lazily realized records. Dispatch freezes the model and hands it to the provider of
highest priority that supports it; the provider compiles the frozen records to a native plan, and the
plan is executed and closed. Plans and pooled engines own native memory behind the Panama bridges,
whose C++ side keeps its plans in registries.

```
DSL / fluent builder --> MathMeta + containers --freeze--> dispatch --> provider --> compiled plan
        closures call back |                                                          | lock
        status engine works on the records                              Panama bridge + native registry
                                                                  pool of engines     | GIL, mutexes
```

| component | state it keeps | operations | what is hard | what makes it correct |
|---|---|---|---|---|
| engine pool `J/pool` | fair semaphore, queue of idle engines, created counter, shutdown flag, closed flag of a session | acquire, session close, pool close | every field is atomic, no two of them change together; timeouts, failing factories, dying engines, close during a return | one engine in one place, permits neither duplicated nor lost, at most Capacity engines (one more while close destroys one), no starvation, nothing left at shutdown |
| pool registry `J/pool/PanamaPoolRegistry` | concurrent map of pools | getOrCreate, get, destroy, destroyAll | destroy against acquire and create | a destroyed pool serves nobody, one live pool a name |
| LibTorch plan and its training lock `J/libtorch/LibTorchPanama`, `C/libtorch_panama.cpp` | native registry of shared_ptrs, training flag, kept tensors; Java maps of widths and of locks of stateful plans | createPlan, execute(Direct/Segment), setTraining, backward, step, zeroGrad, destroy | the mode is read three times, in Java and twice in C++; lock map and mode change apart; destroy under a call | training calls exclude each other, inference is parallel, no use after free, locks are released |
| containers `G/entity`, `G/dsl/MathMeta` | entries, actions for future objects, eager flag, change lock; per provider state, value, actions | register, create, add, get, configure, configureEach, all, remove, views, freeze | callbacks re-enter the containers in the middle of a walk; exceptions unwind nested realizations; two monitors | every action reaches every object once and in order, no provider stays half realized, what is frozen is realized |
| compiled plans (LibTorch/JAX, OpenCV, OR-Tools, PETSc/TAO, ONNX) | handle, one of three kinds of lock; native registry or bare address | execute, close | close against execute and close; failing destroy | no use after free, one destroy, no leak, close gets its turn |
| Python bridges `C/jax`, `C/opencv` | once_flag, the process's interpreter and GIL, execution mutex | initialise, operations that run Python | GIL kept by the initialising thread, import without it, mutex and GIL taken in two orders | Python only under the GIL, operations apart, calls return |
| native plans as programs `C/libtorch_panama.cpp`, `C/jax/jax_panama.cpp` | operations with their weights, slots while they run; LibTorch also gradients, kept slots, optimizer moments by address | add, seal, execute, backward, step, zeroGrad | two interpreters of one language; what is kept between calls; weights that move | both backends compute the model, moments stay with their parameters, backward uses a run of the present program |
| provider compilers `G/libtorch/LibTorchProvider` (JAX runs it too) | slot of each id, width of the last result | compile | ids declared again, widths computed apart from the shapes | the plan computes what the model means, results have the width that is copied |
| OpenCV chains `C/opencv` | filters, sizes, the image while they run | add, seal, execute, direct calls | a filter that fails is passed over; rows and columns | what is copied has the declared size |
| ONNX sessions `C/onnx`, `J/onnx` | API, environment, sessions | load, create, run, destroy | the second initialisation answers true whatever the first did; every call may fail | sessions only with an environment; everything released, nothing too early |
| PETSc/TAO `C/petsctao` | once_flag, global mutex, plans, objects of a solve | create, solve, destroy | one mutex over all plans; a failure in each of twenty calls | one thread in PETSc, objects freed under the mutex, the objective is minimised |
| OR-Tools `C/ortools`, OpenFOAM `C/openfoam` | bare plan addresses; none | create, solve, destroy | close against solve | see compiled plans |
| status engine `G/status` | the record's status, flow and mode | transition, advance, nextInFlow, isTerminal | check and write apart; permission against declaration | only declared and permitted moves in flow mode |
| dispatch and SPI `G/MathEngine`, `G/spi` | list of factories, frozen flag of the model | select, compile, execute, close | close in finally hides an exception | highest priority supporting provider, plan always closed |
| tensor validation, memory mapping `J/tensor`, `G/memory` | none | validate, allocate, copy | 32-bit and 64-bit products that wrap, dynamic dimensions | an accepted buffer holds the tensor |
| DSL, builder, shape inference, compilers | records under construction, a thread-local builder | closures, operators, compile | the thread-local is never cleared | sequential translation |
| generators, schema, adapters, examples | files | - | - | - |

`PROJECT.json` has the full list of components with their sources and the hazards of each at their
lines.

## 2. Modules

All modules take the threads (or names, engines, bridges) as CONSTANTS with named assumptions, have
one action per step of the code that others can see between, and name their mutants ("Mutant of X")
just before the definition a plausible mistake would turn into them.

### EngineLease, EnginePool, MCEnginePool, EnginePoolProofs

`PanamaEnginePool` and `PooledSession`. `EngineLease` is what a client relies on: a client holds at
most one engine, nobody else holds it, at most Capacity are out. `EnginePool` is the code, with each
call of the factory and each access to the semaphore, the queue, the counter, the flag and isValid() a
step; `pc` says where a thread stands and `hand` which engine it has in a local variable.

* acquire: `AcquireCheck` (flag, then queue at the semaphore), `GrantPermit` (first in line only) or
  `AcquireTimeout`, `Poll` / `PollEmpty`, `CheckValid` / `CheckInvalid`, `Create` / `CreateThrows` /
  `CreateNull`, `Count`, and `Open` / `OpenThrows` (the PooledSession, which refuses a null engine).
* session close and returnEngine: `CloseSession` (the compareAndSet; any thread may close any
  session), `ReturnCheck`, then `Offer`, or `Retire` / `RetireThrows` and `Uncount`, then `Release`.
* pool close: `CloseBegin`, `Drain` (poll), `DrainDestroy` / `DrainThrows`, `DrainCount`, `DrainEnd`.
* `EngineDies` is the environment. `Faults` selects which failures may happen, so that a property can
  say which of them it survives; one model then answers for the orderly and the faulty pool.

The steps in between are visible in the properties. While close() destroys an engine it has polled
(PanamaEnginePool.java:108-109), a thread that read the flag before can get the permit, find the queue
empty and create: there are Capacity + 1 engines (`EngineBound`), and until close() has counted the
first one down (:110) totalCreated says so (`CreatedWithinCapacityHolds`). Between the factory and the
counter an engine is there and not counted, or gone and still counted: `CountCovers` states by how much
totalCreated is off in every state. returnEngine(null) would only release a permit; no session has a null
engine.

An engine identity that was destroyed or dropped is "absent" and may be handed out again by the
factory, as addresses are. One simplification: a thread has one open session at a time.

### TrainingPlan, MCTrainingPlan, TrainingPlanProofs

One plan of the LibTorch bridge with what `LibTorchPanama` puts around it. `training`, `lastSlots`,
`registered` and `allocated` are native (`Plan::training`, `Plan::last_slots`, `g_plans` and the
memory); `lockMap`, `widthKnown` and `owner` are Java's (`statefulPlanLocks`, `planInputWidths`, the
ReentrantLocks). A call is `Call` (with `guardPlanInvocation`), `ReadLock`, `TakeLock`, `EnterFails` /
`EnterExecute` / `EnterUpdate`, `RunEnds`, `StatefulEnds`, `Leave`; `setTraining` is `SwitchNative`
then `SwitchLockOn` / `SwitchLockOff`; `destroy` is `DestroyWidth`, `DestroyLock`, `DestroyNative`.

The code leaves some exclusion to its callers. The variable `misuse` is chosen in Init and never
changes; it says which of that the callers fail to do (switch the mode or destroy the plan during a
call, or update a plan that does not train). A property then says from which misuse it needs to be
spared, and the ones that need nothing are checked under all of it.

### ModelContainer, MCModelContainer, ModelContainerProofs

`MathMeta.entity` and `freeze`, `NamedModelContainer` and `ModelProvider`, with one thread.
`stack` is the call stack: a frame for each realization, each walk of configureEach, all, clear or
freeze with the snapshot it still has to visit, each run of removal actions, and each closure body.
`program`, chosen in Init, says which operations are called from outside and which a body on top of
the stack may call; that is how a container is seen in the middle of its own operation. `remove` takes
the object out first and then runs the removal actions if it is realized; a walk keeps it in its snapshot.
An exception (a refused registration, a cyclic get, a failing validation, a list that grew while it
was iterated, or a closure that throws) unwinds the whole stack, and `ModelProvider.get`'s cleanup on
the way puts each provider back to REGISTERED. add() of a name that exists answers false instead of
throwing; to callers who ignore it that is a call that does nothing.

### PlanContract, PlanLifecycle, MCPlanLifecycle, PlanLifecycleProofs

`execute` and `close` of the five plan classes. `plan` is chosen in Init: the kind of lock
(read-write for LibTorchPlan, which JAX uses too, and OpenCvPlan; a monitor for OrToolsPlan and
PetscTaoPlan; none for OnnxPlan), whether the native side keeps a registry of shared_ptrs (all but
OR-Tools), and who may close. The read-write lock is modelled with its queue: a reader that finds a
parked writer at the head parks behind it. The native call resolves the handle when it starts
(`CallNative`) and works until `NativeEnds`; `Destroy` erases it and frees the memory unless a call
still holds it; `DestroyThrows` leaves the handle for another close. `PlanContract` is what
docs/libtorch-provider.md promises: executions side by side, close once and alone.

### PythonBridges, MCPythonBridges, PythonBridgesProofs

The JAX and OpenCV bridges in one process. `once` is each bridge's once_flag, `gil` the interpreter
lock, `initialiser` the thread that ran `Py_Initialize` (which returns with the GIL held, and nothing
calls `PyEval_SaveThread`), `mutex` the OpenCV execution mutex, `nested` what PyGILState_Ensure found.
A call is `CreatePlan` or `Operation`, then the once_flag (`OnceDone`, or `OnceRuns`,
`CheckInterpreter`, `PyInitialize` and the imports, which may fail and clear the flag), then `Lock`
(OpenCV), `Ensure`, Python with `PythonReleases` / `PythonResumes` as often as it likes, `Release`,
`Unlock`. The interpreter and the modules are external. Python run by a thread without the GIL, or
two interpreters started at once, is undefined: the action sets `undefined` and the model stops there.

### Loops

`Loop(first, seq)`: a value carried along a list by a loop body, `Turn`. The interpreter loops of the two
backends, the size of a tensor and the sums of the PETSc callback are instances of it
(`Operating == INSTANCE Loops WITH Turn <- RunOp`), and so is the meaning of a model. The module also has
the lemmas that proofs about such loops rest on (section 5).

### Tensors, Operations, TorchProgram, JaxProgram

The native plans of LibTorch and JAX as programs. `Tensors` stands for the two tensor libraries: a
tensor is its shape and a term that says how its elements were computed, so "the same numbers" is
equality, and shapes are broadcast, reduced and rejected as ATen and jax.numpy do. `Operations` is
what both backends keep of an operation. `TorchProgram` has the add_ functions (`AddAffine` ...
`AddLoss`), `Seal`, and `Run`, the interpreter loop of run_plan with one operator per operation;
`JaxProgram` the same of jax_panama.cpp (`JaxAddAffine` ..., `JaxSeal`, `JaxRun`). The differences are
kept: JAX does not ask whether a plan is sealed, passes over an operation whose inputs are missing,
drops a negative axis of a reduction, and goes on after a Python error (`Broken`). Both have the two
calls without a plan, matmul and tensor_op. A call that the code refuses with an error and that
changes nothing is no action.

### TorchTraining

What a LibTorch plan keeps between training calls: `kept` (last_slots), `grads`, `moments` and
`velocity` under `Address`es into the operations vector, `stepCount`. `ExecuteTraining`, `Backward`,
`Step`, `ZeroGrad`, `SetTraining` and the building calls come in any order, one at a time (what
`TrainingPlan` is about). A gradient is undefined, zero or a sum; an execution for inference keeps
nothing and is no action. An operation that is added is taken to move all of them.

### ProviderLowering, MCProviderLowering, ProviderLoweringProofs

The loop of `LibTorchProvider.compile`: one action per kind of transformation (`LowerAffine`,
`LowerMatrixProduct`, `LowerUnary`, `LowerNorm`, `LowerMask`, `LowerAttention`, `LowerBinary`), each of which
appends an operation to a plan of both backends through `TorchProgram` and `JaxProgram` and gives the result a
slot (`Produce`); `SealBoth` ends it. Operands are any ids declared so far, results any ids. `tensorWidth` says
which of the results are tensors of the model and how wide it declares them; the declaration need not be true.
As in the code, the width compile seals with is read off the weights of affine operations, products and masks,
and is for all others the declared one, or that of the operation before when the result is not declared
(`WidthKept`). `Truthful` says that the widths taken this way are those the operations make. Nothing in compile
asks for it, and without it execute may read past the result (section 6), so that `ResultComplete` promises the
width of such models only. `Meaning` is the model's own semantics, by ids. The width of the input is positive
(`InputAssumption`): objectWidth and create_plan refuse anything else. So are the extents of weights and masks
(`ShapesAssumption`): from_blob refuses negative ones, and arrays without elements, which an extent of 0 would
make, are left out.

### OpenCvPipeline

One plan of the OpenCV bridge, built by the provider or by hand (`compiled`), with the image's shape
while `ApplyFilter` goes through the filters, each of which may fail and be passed over. Plans made by
hand may be sealed with any size and get filters afterwards, but not while they run. The kernel of
filter2D is applied as kwidth x kwidth, as the code has it. The two direct calls are actions too.

### OnnxSessions

The environment is made when the class OnnxPanama is initialised (`LoadOnnxPanama`, `LoadApi`,
`CreateEnv`), by one thread while the others wait, and its answer is kept in `available`. `OrtCall` is
one call of the runtime that hands something out or fails; creation is `SessionOptions`,
`OpenSession`, `RegisterSession`, a run `MemoryInfo`, `InputTensor`, `OrtRun`, `CopyOutput`. `uses` is the
shared_ptr a run has. Statuses are released at once, but for those of the four queries for the names of
inputs and outputs (onnx_panama.cpp:158-171), which are compared with nullptr and dropped: `lost` counts
the ones that failed, at most two a session, because a name is asked for only where its count was had.

### PetscSolve

`EnterOnce` and `PetscInitialize` are std::call_once in front of every call, `LockSolve` the global
mutex, `Lookup` the registry, `Make` the objects in the order of the code with `PetscFails` at each,
`TaoSolve`, `FreeObjects` the destructor, `Leave`. TAO is external: it stops in a point of the box
where no component of the gradient points inwards (`Stationary`), or says that it did not converge.
The objective and the gradient are those of the callback; the objective is doubled to stay with
integers. An initialisation that fails is not tried again and every later solve fails.
`ProblemsAssumption` is what PetscTaoProvider checks of a problem before it makes a plan (sizes that agree, a
symmetric matrix). `Convex` is convexity in the box: the curvature between any two of its points is not negative.

### MCNativeCode, NativeCodeProofs

The theorems about TorchTraining, OpenCvPipeline, OnnxSessions and PetscSolve are together in NativeCodeProofs,
one part each. These components share no state. `subject`, chosen at the start, says which of them a behaviour
is of (training, lowering, filters, sessions, solves); the others stand still, so that one run has the sum of
their state spaces and not the product.

## 3. Runs

| run | instance | states | checks |
|---|---|---|---|
| pool_faults | 3 threads, 3 engines, capacity 2, all faults | 369,831 | `TypeOK`, `PermitAccounting`, `EngineBound`, `Exclusive`, `CountCovers`, `ImplementsLease` |
| pool_fair | 3 threads, capacity 1, a factory that may throw | 13,565 | `NoStarvation` |
| pool_shutdown | 2 threads, capacity 1, no fault | - | `ShutdownLeavesNoEngine` is violated |
| training_all | 2 threads, 3 locks, no misuse or all of it | 39,595 | `StatefulExclusion`, `LockTracksMode`, `SlotsHaveGraph`, `InputGuarded`, `NoUseAfterFree`, `LocksReleased` |
| training_switch | 3 threads, 4 locks, the mode switched during calls | - | `ExecutionsSerialise` is violated |
| container_all | 2 containers, 2 names, 2 objects, 2 actions, 5 frames; closures that register nothing, that register, that remove | 3,170,859 | `RealizingIsRunning`, `AppliedInOrder`, `ConfigureEachReachesAll`, `AllReachesAll`, `FrozenIsRealized` |
| container_freeze | the same, closures that register | - | `FreezeRealizesAll` is violated |
| plan_all | 4 threads, all kinds of plan, closed by anyone or by one thread | 66,612 | `NoUseAfterFree`, `DestroyedOnce`, `NothingLeaks`, `ImplementsContract`, `CloseReturns` |
| python_all | 3 threads, JAX and OpenCV | 25,010 | `ParkedGil`, `OneExecution`, `OutsidersOnly`, `StuckBehindInitialiser`, `InitialiserReturns` |
| python_jax | 2 threads, JAX | - | `ExecutionsReturn` is violated |
| native_all | five subjects: 5 operations with weights; models of 2 and 3 transformations; images of 1 or 2 by 1 or 2; 2 threads with 2 sessions; 2 threads with 2 plans of 3 problems | 447,039 | `OptimizerKeysLive`, `KeptRunIsCurrent`, `AdamCountsEveryStep`; `PlanComputesModel`, `ResultComplete`, `JaxAgrees`; `ResultAsDeclared`; `EnvBeforeSession`, `OrtReleases`; `PetscCallsSerialized`, `PetscReleases`, `ConvexProblemsMinimised` |
| lowering_parity | models of 2 transformations of all kinds and 3 of some | - | `StrictParity` is violated |

The comment before each property says what it means and which code it is about; "about" in
PROJECT.json says what each run shows.

**Bounds and why they are enough.** The pool's threads exceed its permits, so there is always somebody
to wait, and a closing thread can overlap with one that returns and one that waits; with 3 engines for
2 permits an identity can be dropped and handed out again. `MaxCreated` bounds totalCreated only
through `EngineDies`, the one way it grows without limit. Two threads race in every pair of steps
of TrainingPlan and the third lock is enough for a map entry to be replaced while the old lock is
held; its proof is for any number. Two containers, two objects and two actions give a closure another
object, another container and another action to interfere with, and five frames a realization inside
a closure inside a walk with one more call on top; an operation that would need more is not
taken, which prunes behaviours and adds none. Four threads put a writer, a reader
behind it and a running reader on the lock, with another closer. Three threads give an initialiser,
one thread stuck behind it and one that initialises the other bridge.

In native_all a batch of two rows tells rows from columns, and batches of one and two a width from a size. Two
operations, one of them with two weights, make a parameter that the result does not depend on and one whose
gradient comes later; two optimizer steps tell the first from a later one. Models of two transformations of
every kind pair each with each as its operand, and three of four kinds with different widths (affine, relu,
layer_norm, add) give an id that is declared twice and read before and after. Each result is declared with a
width of 1 or 2, or not at all, so that declarations are truthful in some models and not in others. Weights of
2x2, 1x2 and 2x1 and masks of the same shapes contain those that fit, those that broadcast and those that fail.
Two filters make one that fails and one that goes on. Two threads with two sessions or plans have a destroy
between the lookup and the end of another's run; the problems have a minimum inside the box, one on its
boundary, and one that is not convex.

**Deadlock.** plan_all and the training runs check it. In the others the system may stop: the pool
when it is closed and everybody is out; the containers where a walk would need a frame more than
`MaxDepth`; the Python bridges when the calls are stuck behind the GIL or the model stopped at
`undefined`, which `StuckBehindInitialiser` and `OutsidersOnly` describe exactly; the native subjects
when a compiled plan is sealed, or when `MaxOps`, `MaxSteps`, `MaxSessions` or `MaxPlans` is used up.

**Symmetry** (threads, engines, locks; in native_all the ids of results, which differ in nothing but what
is declared of them) is used in runs without liveness properties only.

**Mutants.** Each property of a passing run has a mutant in PROJECT.json that breaks it.

## 4. Fairness

Each assumption is about a call that is under way; nobody is ever made to call.

* Pool: threads are scheduled; `new Semaphore(n, true)` serves its queue in order, so weak fairness of
  `GrantPermit` for the first in line is enough; the body of try-with-resources ends (strong fairness
  of `CloseSession(t, t)`, because a thread whose session another one is about to close may be disabled
  in between).
* Plans: weak fairness of the next step of each call. Native calls return. That a writer overtakes
  new readers is not assumed but comes from the lock's queue.
* Python: weak fairness of each call; strong fairness of the steps that take the GIL, which CPython
  hands to its waiters on request, and of the ends of Python work and of imports, which may let the
  GIL go arbitrarily, but finitely, often.
* The native subjects have safety properties only, and no fairness.

## 5. Proofs

Everything here is proved for any threads, engines, locks, bridges and bounds, from the named
assumptions of the modules only. Every safety property of the passing runs is a theorem.

**Loops.** A loop over a list is a recursive function, and what it computes for lists of every length is
found by induction. The induction theorems of the library take a predicate as a parameter, which the
provers cannot instantiate; `Induction` is stated for a set instead (a set of natural numbers that has 0
and with each number the next has all) and proved from the library's least element of a set in a well-founded
order (`WFMin`). From it follow `LoopEnds` and `LoopGoesOn`: without elements the loop yields what it
started from, and one element more is one turn more. The instances cite them as `Operating!LoopGoesOn`.

**EnginePoolProofs.** `Placed` is type correctness, `Exclusive`, and `InPlace`: whoever has an engine has a real
one, and no engine in place is absent, so the factory cannot return one that is out. `Counted` adds that a
thread inside acquire has no open session, that one thread at most closes the pool (`OneCloser`), and
`Accounts`, the sums: what is in the queue, in sessions and on its way to a session fits the permits not in
returning hands (`Claimed`), and totalCreated covers what is in reach, what is gone and still counted, less what
is made and not yet counted (`Covered`). Each step then moves one thread from one cardinality to another (lemmas
`AtMoves`, `LeasingGrows`, `LeasingShrinks`, `HandTakes`, `HandPutsDown`), and the bounds follow because the
closing thread alone may have one engine more in its hands (`HandsBound`). From these: `TypeCorrect`,
`ExclusiveHolds`, `PermitAccountingHolds`, `EngineBoundHolds`, `CountCoversHolds`, and `ImplementsLeaseHolds`,
the refinement of EngineLease; and as corollaries the two assertions of ConcurrentEnginePoolTest,
`CreatedWithinCapacityHolds` (while the pool is open, when engines do not die and neither createNull nor
destroyThrows happens; Capacity + 1 while it closes) and `PermitsRestoredHolds` (when the last two do not).

**TrainingPlanProofs.** All six properties of the runs, for any number of threads and locks. Whatever
the callers do: `MemoryInv` (the memory lives as long as the registration or a call that has the plan)
gives `NoUseAfterFreeHolds`, and `LocksReleased` is inductive with `LockKnown`. For callers without
misuse: `QuietInv` says that while a switch or a destroy is under way everyone else is out, that the
lock a call carries is the one in the map, that there is one exactly if the plan trains, and that
whoever is past `TakeLock` owns it; two threads that work on the plan then own the same lock.
`GraphInv` ties the inference guard of a running call to the mode and `WidthInv` the guard of the
input to the handle's life.

**PlanLifecycleProofs.** `LockInv` says who may be in which section by the kind of lock, `HandleInv`
how the handle follows the native plan, `MemoryInv` that memory lives as long as the registry or a
call has it. They give `NoUseAfterFreeHolds`, `DestroyedOnceHolds`, `NothingLeaksHolds` and
`ContractHolds`, the refinement of PlanContract; the lock invariant is used in the last for "nobody
executes while close destroys".

**PythonBridgesProofs.** `CallInv` (what a call carries at each place), `OnceInv` (one thread inside a
running once_flag), `StartedInv` (Python runs only in a started interpreter),
`GilInv` and `MutexInv`. The key is in `GilInv`: unless Python ran without it, the initialiser has the
GIL at every moment except where its own Python code let it go. Hence
`ParkedGilHolds`, `OneExecutionHolds`, `OutsidersOnlyHolds`, and `StuckBehindInitialiserHolds`, which
follows by asking who has the GIL when everybody in a call is blocked.

**NativeCodeProofs, training.** `OpenPlanIsFresh` carries it: a plan that is not sealed has no kept run, no
gradient and no moment, because only a sealed plan runs; and a sealed plan gets no operations. So
whatever a building call moves, nothing points at it (`FreshInv`), and every other call leaves the
program alone (`ProgramKeptInv`). `AdamHasAll` adds what Adam's count needs to go on. Theorems
`TrainingTypeCorrect`, `MomentsStayWithTheirParameters`, `BackwardIsOfThePresentProgram`,
`BiasCorrectionIsRight`, for any operations, batches and bounds.

**NativeCodeProofs, images.** `CompiledKeepsSize`: OpenCvProvider warps only to the size of the input and
seals the plan with it. `ImageInv`: an image on its way through such a plan has that shape, so a filter
that is passed over changes nothing about it. Theorem `ImagesAreAsDeclared`, for any sizes and filters.

**NativeCodeProofs, sessions.** `LoadInv` (one thread loads, and nothing is asked before it has answered yes)
gives `OnnxEnvironmentFirst`. `HeldAt` says for every stage of a call exactly what the thread holds; with
`SessionsOutliveRuns`, which is inductive beside it, it gives `OnnxReleasesHold`.

**NativeCodeProofs, solves.** `EntryInv` (the initialising thread is alone and first, a thread past the lookup
has the mutex) gives `PetscIsSerial`; `HeldInv` (objects and the plan only in their stages) and
`PetscPlanOutlivesSolve` give `PetscReleasesHold`. `ConvexSolvesAreMinimal` is about the callback: the
sums of a problem of any dimension are added, scaled and exchanged by induction on their number of terms
(`SumAdds`, `SumScales`, `SumSwaps`), so that the objective at y is that at x, twice the gradient at x along the
way, and the curvature of the way (`ObjectiveFrom`, where the symmetry of the matrix is needed and the factor of
a half must be right). In a stationary point no term of the second is negative, and in a convex problem the
third is not.

**ProviderLoweringProofs.** compile appends one operation at a time, so what the program computes is an
invariant of compile: `LoweringInv` speaks of the runs of the program so far, and every action is one turn of
each loop more. `Lowered` says what the actions make of a transformation (an operation of each backend, from
operands of some widths), and all of them are one kind of step (`Extended`, `LoweringSteps`). The values are
gone through kind by kind: what each makes of shapes (`LoweredShape`), that JAX makes the same of matrices
(`LoweredAgrees`), and that a value has a row per example and is as wide as the weights compile
read, or as the model truthfully declared (`WidthsGoOn`). Four parts of the
invariant use them. `CompileInv`: the lists have one length, and each id has the slot of its latest
declaration. `PlanInv`: the slot of an id holds its value in the model, or the run has thrown and the model has no
meaning; hence `PlansComputeModels`. `WidthInv`: as long as there is no loss and no mask is broadcast, every
slot has a row per example, and if the declarations are truthful (`Truthful`), the last slot is of the width compile
kept; hence `ResultsAreComplete`. `JaxInv`: as long as nothing is reduced
and no scalar has an axis, both runs leave the same slots, all of them scalars or matrices, because only with
these do the row of weights LibTorch takes and the matrix of one row JAX takes broadcast alike; hence
`BackendsAgree`. `ShapeInv` (all extents are positive) is used by the last two.

**ModelContainerProofs.** `NextSteps` reduces the actions to a few kinds of step (a frame starts, turns,
ends, or everything unwinds), which the other lemmas go through. `Typed` says of every frame of the
call stack that what it still has to visit and to run exists; it gives `TypeCorrect`. `Running` says
that a provider is REALIZING exactly while a frame realizes it and that no two frames realize the
same provider; without the second part the return of one `get` would leave the other's provider
REALIZED under way. It gives `RealizingIsRunningHolds`. Four more invariants follow, each on the ones
before it. `Freezing`: what a freeze walk has passed is realized and the rest is still in its frame; with
closures that register nothing nothing can join behind it (`FrozenIsRealizedHolds`). `Ordering`: what a
realization has run is a first part of the provider's actions and what its frame holds is the part after
it, up to the size it read; a REALIZED provider has had them all. `Reaching`: every object of the
container has had the action of a walk or is in what is left of it; for configureEach an object that joins
gets the action from the container's future ones (`ConfigureEachReachesAllHolds`, `AllReachesAllHolds`).
`Once`: an action number comes to an object in one way only. What is left of a walk has not had its
action, the actions for future and for removed objects are apart, no object of a container has had a
removal action, an object taken out never comes back, and no two frames walk with one action or remove one
object. With `Ordering` it gives `AppliedInOrderHolds`.

**Only proved.** pool_faults has every fault, so that TLC sees the inequalities of `PermitAccounting` and
`CountCovers`; that they are equalities without these faults is proved, and used by the corollaries.

**Only model-checked.** Liveness (`NoStarvation`, `CloseReturns`, `InitialiserReturns`), which rests on fairness
and is out of the prover's reach. That the actions are enabled at all, and that the runs reach what the properties
are about, is likewise for TLC to show.

## 6. Disagreements between code and documents

Five runs expect a violation, each of a sentence of the repository:

* **pool_shutdown.** A return that read `shuttingDown` before close set it offers its engine after
  close drained the queue. Nothing destroys it, against PanamaEngine.java:25.
* **training_switch.** setTraining changes the native mode before the lock map, and a call reads the
  map before the native code reads the mode, so two executions can train at once, one of them
  without the lock, against LibTorchPanama.java:286 and :370.
* **container_freeze.** A closure that freeze runs registers an object behind the walk: it is locked in
  unrealized and unvalidated, against docs/architecture.md:36.
* **python_jax.** The thread that makes the first JAX plan keeps the GIL when it returns to Java. An
  execution on another thread waits for ever, against docs/libtorch-provider.md:67-68.
* **lowering_parity.** The provider asks both backends for a sum or mean along dimension -1
  (LibTorchProvider.groovy:251). The JAX code passes an axis on only when it is not negative
  (jax_panama.cpp:884, 894) and reduces the whole batch to one number, against README.md:319.

The models also show what no document rules out: totalCreated drifts upward as dead engines are
replaced (`CreatedWithinCapacity` needs engines that stay valid); while close() destroys an engine the pool
may make another and have one more than its capacity; an acquire that waits when the pool closes
still gets an engine; `all` misses the objects its own action registers (`AllReachesAll` excludes
closures that register); a container first asked for after freeze is not locked; an
OpenCV operation can hold the execution mutex and wait for the GIL of a thread that waits for the
mutex; and a second bridge is initialised without the GIL by any thread but the first's.

Of the native code: execute copies more numbers than the result holds after a loss, after a mask that
broadcasts, and when the model declares the last result wider than it is or not at all: a sum of rows of 3 whose
result is no declared tensor is sealed with width 3 (LibTorchProvider.groovy:254), and execute copies 3 numbers
a row where there is 1 (libtorch_panama.cpp:862; `ResultComplete` excludes all three); an operation along an
axis of a scalar works in LibTorch and fails in JAX; a filter of OpenCV that fails is passed over in silence,
and filter2D applies kwidth x kwidth of a kernel that is not square; backward after an execute that refused its
output buffer differentiates that run; the status of a failed query for ONNX names is not released; a PETSc
initialisation that failed is not tried again; and problems that are not convex are accepted. The hazards in
PROJECT.json list these at their lines.

## 7. Not modelled

* The pool registry, status engine, dispatch, tensor validation and the locks of the containers among
  threads: planned below. The predicates of the live views, which put a condition before an action.
* What the numbers of a tensor operation, a filter or a solver are, beyond their shapes and terms; how
  TAO gets to its stationary point.
* Thread configuration of LibTorch (the inter-op setting that may be made once); the training flag of
  a JAX plan, which is written and never read.
* The provider compilers of OpenCV, OR-Tools, ONNX and PETSc beyond what their plans rely on; the lookup of
  the input object and the reading of arrays out of the model in the LibTorch compiler.
* The OpenFOAM bridge: is_available answers 0 until it is linked, so that no other call is made.
* The fluent builder, DSL symbol resolution, AST transforms, the Jena adapter: sequential translation of
  data, without state that outlives a call but the thread-local builder.
* The library loader, NPY and OpenFOAM files, generators and schema: I/O and build scripts.
* Generated entity, enumeration and metamodel classes: data without behaviour.
  `onnxruntime_c_api.h` is the vendored header of the runtime.
* Products of tensors with a single axis, which both libraries take: a plan makes such a tensor only by the
  rms_norm of a scalar (after a loss), which JAX refuses; `ScalarAlongAxis` and the condition on losses keep such
  plans out of the properties.
* An exception of the C++ allocator between Ensure and Release; races of the Java memory model on
  plain fields other than those modelled.

## 8. Plan

Done: EnginePool with EngineLease, TrainingPlan, ModelContainer, PlanLifecycle with PlanContract,
PythonBridges; the native code in Tensors to PetscSolve; the proofs of section 5.

Next, most important first:

1. **StatusFlow**: transition, advance and nextInFlow over a small flow with permissions; two callers
   of one record. Abstract specification: a status moves only along declared transitions. It fails for
   concurrent callers and holds for one.
2. **RealizationLocks**: the monitor of a container and those of its providers among threads, the
   order in which they are taken, and the reads without either.
3. **PoolRegistry** over EnginePool: destroy against acquire, two pools of one name. **Dispatch**:
   freeze, select, compile, execute, close, with a failure in each.
4. **TensorSizes**: the size checks as operators over integers of a small width, against unbounded
   arithmetic.

Runs for these reuse the pattern of `misuse`, `plan` and `subject`: a variable chosen in Init selects the
situation, and one run answers for all of them.
