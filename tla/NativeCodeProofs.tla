-------------------------- MODULE NativeCodeProofs ---------------------------
(***************************************************************************)
(* Theorems about the native components below the plans, which share no    *)
(* state: training in TorchTraining, image plans in OpenCvPipeline,        *)
(* sessions in OnnxSessions and solves in PetscSolve.  Each part has the   *)
(* inductive invariant of its component, one lemma per action or group of  *)
(* actions, and the theorems of its specification.                         *)
(***************************************************************************)
EXTENDS TorchTraining, OpenCvPipeline, OnnxSessions, PetscSolve, SequenceTheorems, TLAPS

-----------------------------------------------------------------------------
(* TorchTraining.  For any operations, batches and bounds: training keeps  *)
(* no address of a parameter that has moved, starts backward from the      *)
(* slots of the present program, and counts the steps of Adam right.  All  *)
(* of it rests on the plan being closed before it can run: an open plan    *)
(* has no run, gradient or moment to lose (OpenPlanIsFresh).               *)

OpenPlanIsFresh == ~sealed => kept = NoRun /\ DOMAIN grads = {} /\ DOMAIN moments = {} /\ velocity = {}
KeptIsRun == kept = [slots |-> kept.slots, batch |-> kept.batch, spent |-> kept.spent]
\* What AdamCountsEveryStep needs to go on: no gradient is ever undefined again.
AdamHasAll == adamOnly /\ stepCount > 0 => sealed /\ DOMAIN grads = Params

TrainingInv ==
    /\ TrainingTypeOK /\ OpenPlanIsFresh /\ KeptIsRun
    /\ OptimizerKeysLive /\ KeptRunIsCurrent
    /\ AdamHasAll /\ AdamCountsEveryStep

\* Extending a function on the left.
LEMMA OverrideDomain ==
    ASSUME NEW f, NEW g
    PROVE  /\ DOMAIN Override(f, g) = DOMAIN f \cup DOMAIN g
           /\ \A x \in DOMAIN f : Override(f, g)[x] = f[x]
           /\ \A x \in DOMAIN g \ DOMAIN f : Override(f, g)[x] = g[x]
BY DEF Override

\* An open plan has nothing that depends on its program: whatever a step does to the program of
\* such a plan, and wherever the operations go, the invariant stays.
LEMMA FreshInv ==
    ASSUME TrainingInv, ~sealed, UNCHANGED <<training, kept, grads, moments, velocity, stepCount, adamOnly>>,
           storage' \in Nat, sealed' \in BOOLEAN
    PROVE  TrainingInv'
<1>1. adamOnly /\ stepCount > 0 => FALSE
    BY DEF TrainingInv, AdamHasAll
<1>2. /\ kept = NoRun /\ DOMAIN grads = {} /\ DOMAIN moments = {} /\ velocity = {}
    BY DEF TrainingInv, OpenPlanIsFresh
<1>3. TrainingTypeOK'
    BY <1>2 DEF TrainingInv, TrainingTypeOK
<1>4. OpenPlanIsFresh' /\ KeptIsRun' /\ OptimizerKeysLive' /\ KeptRunIsCurrent'
    BY <1>2 DEF TrainingInv, OpenPlanIsFresh, KeptIsRun, OptimizerKeysLive, KeptRunIsCurrent
<1>5. AdamHasAll' /\ AdamCountsEveryStep'
    BY <1>1, <1>2 DEF TrainingInv, AdamHasAll, AdamCountsEveryStep
<1> QED
    BY <1>3, <1>4, <1>5 DEF TrainingInv

\* Steps that leave the program, the gradients' owners and the optimizer's memory alone, and do not
\* open the plan.
LEMMA ProgramKeptInv ==
    ASSUME TrainingInv, UNCHANGED <<inputWidth, ops, storage, moments, velocity, stepCount, adamOnly>>,
           sealed' \in BOOLEAN, sealed => sealed', training' \in BOOLEAN,
           DOMAIN grads \subseteq DOMAIN grads', DOMAIN grads' \subseteq Params,
           ~sealed' => kept' = kept /\ DOMAIN grads' = DOMAIN grads,
           KeptIsRun', KeptRunIsCurrent', kept'.batch \in Batches \cup {0}, kept'.spent \in BOOLEAN
    PROVE  TrainingInv'
<1>1. Params' = Params /\ \A p : Address(p)' = Address(p)
    BY DEF Params, Address
<1>2. TrainingTypeOK' /\ OpenPlanIsFresh'
    BY <1>1 DEF TrainingInv, TrainingTypeOK, OpenPlanIsFresh, NoRun
<1>3. OptimizerKeysLive'
    BY <1>1 DEF TrainingInv, OptimizerKeysLive
<1>4. AdamHasAll'
    BY <1>1 DEF TrainingInv, AdamHasAll
<1>5. AdamCountsEveryStep'
    BY <1>1 DEF TrainingInv, AdamCountsEveryStep
<1> QED
    BY <1>2, <1>3, <1>4, <1>5 DEF TrainingInv

LEMMA TrainingInitInv == TrainingInit => TrainingInv
<1> SUFFICES ASSUME TrainingInit PROVE TrainingInv
    OBVIOUS
<1>1. /\ sealed = FALSE /\ training = FALSE /\ kept = NoRun /\ grads = <<>> /\ storage = 0
      /\ moments = <<>> /\ velocity = {} /\ stepCount = 0 /\ adamOnly = TRUE
    BY DEF TrainingInit, ProgramInit
<1>2. DOMAIN grads = {} /\ DOMAIN moments = {}
    BY <1>1
<1>3. KeptIsRun /\ kept.batch = 0 /\ kept.spent = FALSE
    BY <1>1 DEF KeptIsRun, NoRun
<1>4. TrainingTypeOK /\ OpenPlanIsFresh
    BY <1>1, <1>2, <1>3 DEF TrainingTypeOK, OpenPlanIsFresh
<1> QED
    BY <1>1, <1>2, <1>3, <1>4
    DEF TrainingInv, OptimizerKeysLive, KeptRunIsCurrent, AdamHasAll, AdamCountsEveryStep

LEMMA StepInv == ASSUME TrainingInv, NEW optimizer, Step(optimizer) PROVE TrainingInv'
<1> DEFINE moved == {Address(p) : p \in DOMAIN grads}
<1>1. /\ stepCount' = stepCount + 1 /\ UNCHANGED <<programVars, training, kept, grads, storage>>
      /\ adamOnly' = (adamOnly /\ optimizer = "adam" /\ (stepCount = 0 => sealed /\ Params = DOMAIN grads))
      /\ velocity' = IF optimizer = "momentum" THEN velocity \cup moved ELSE velocity
      /\ moments' = IF optimizer = "adam" THEN Override([a \in moved |-> Older(a)], moments) ELSE moments
    BY DEF Step
<1>2. Params' = Params /\ \A p : Address(p)' = Address(p)
    BY <1>1 DEF Params, Address, programVars
<1>3. moved \subseteq {Address(p) : p \in Params} /\ (~sealed => moved = {})
    BY DEF TrainingInv, TrainingTypeOK, OpenPlanIsFresh
<1>4. \A a \in moved : Older(a) \in Nat \ {0} /\ Older(a) <= stepCount + 1
    BY DEF Older, TrainingInv, TrainingTypeOK, AdamCountsEveryStep
<1>5. /\ DOMAIN moments' = (IF optimizer = "adam" THEN moved ELSE {}) \cup DOMAIN moments
      /\ optimizer = "adam" => \A a \in moved : moments'[a] = Older(a)
      /\ \A a \in DOMAIN moments : moments'[a] = moments[a] \/ (a \in moved /\ moments'[a] = Older(a))
  <2>1. CASE optimizer = "adam"
    <3> DEFINE f == [a \in moved |-> Older(a)]
    <3>1. moments' = Override(f, moments) /\ DOMAIN f = moved /\ \A a \in moved : f[a] = Older(a)
        BY <1>1, <2>1
    <3> HIDE DEF f, moved
    <3> QED
        BY <3>1, <2>1, OverrideDomain
  <2>2. CASE optimizer # "adam"
      BY <1>1, <2>2
  <2> QED
      BY <2>1, <2>2
<1> HIDE DEF moved
<1>6. \A a \in DOMAIN moments' : moments'[a] \in Nat \ {0} /\ moments'[a] <= stepCount + 1
    BY <1>4, <1>5 DEF TrainingInv, TrainingTypeOK, AdamCountsEveryStep
<1>7. TrainingTypeOK' /\ OpenPlanIsFresh'
    BY <1>1, <1>2, <1>3, <1>5, <1>6 DEF TrainingInv, TrainingTypeOK, OpenPlanIsFresh, programVars, NoRun
<1>8. KeptIsRun' /\ KeptRunIsCurrent'
    BY <1>1 DEF TrainingInv, KeptIsRun, KeptRunIsCurrent, programVars, NoRun, SlotsAfter, InputSlots
<1>9. OptimizerKeysLive'
    BY <1>1, <1>2, <1>3, <1>5 DEF TrainingInv, OptimizerKeysLive
<1>10. adamOnly' => sealed /\ DOMAIN grads = Params
  <2>1. stepCount = 0 \/ stepCount > 0
      BY DEF TrainingInv, TrainingTypeOK
  <2>2. adamOnly' => adamOnly /\ (stepCount = 0 => sealed /\ Params = DOMAIN grads)
      BY <1>1, Zenon
  <2> QED
      BY <2>1, <2>2 DEF TrainingInv, AdamHasAll
<1>11. AdamHasAll'
    BY <1>1, <1>2, <1>10 DEF AdamHasAll, programVars
<1>12. adamOnly' => \A p \in Params : Address(p) \in DOMAIN moments' /\ moments'[Address(p)] = stepCount + 1
  <2> SUFFICES ASSUME adamOnly', NEW p \in Params
               PROVE  Address(p) \in DOMAIN moments' /\ moments'[Address(p)] = stepCount + 1
      OBVIOUS
  <2>1. optimizer = "adam" /\ adamOnly
      BY <1>1
  <2>2. Address(p) \in moved
      BY <1>10 DEF moved
  <2>3. Older(Address(p)) = stepCount + 1
      BY <2>1 DEF Older, TrainingInv, TrainingTypeOK, AdamCountsEveryStep
  <2> QED
      BY <2>1, <2>2, <2>3, <1>5
<1>13. AdamCountsEveryStep'
    BY <1>1, <1>2, <1>6, <1>12 DEF AdamCountsEveryStep
<1> QED
    BY <1>7, <1>8, <1>9, <1>11, <1>13 DEF TrainingInv

LEMMA BackwardInv == ASSUME TrainingInv, NEW slot \in Slots, Backward(slot) PROVE TrainingInv'
<1>1. PICK got \in SUBSET Reached(slot) :
        grads' = IF training THEN Override([p \in got |-> "sum"], grads) ELSE grads
    BY DEF Backward
<1>2. DOMAIN grads' = (IF training THEN got ELSE {}) \cup DOMAIN grads
  <2> DEFINE f == [p \in got |-> "sum"]
  <2>1. DOMAIN f = got
      OBVIOUS
  <2> HIDE DEF f
  <2> QED
      BY <1>1, <2>1, OverrideDomain DEF f
<1>3. got \subseteq Params /\ DOMAIN grads \subseteq Params
    BY DEF Reached, TrainingInv, TrainingTypeOK
<1>4. sealed
    BY DEF Backward, TrainingInv, OpenPlanIsFresh, NoRun, Thrown
<1>5. kept' = [kept EXCEPT !.spent = TRUE] /\ UNCHANGED <<programVars, training, storage, moments, velocity, stepCount, adamOnly>>
    BY DEF Backward
<1>6. kept'.slots = kept.slots /\ kept'.batch = kept.batch /\ kept'.spent = TRUE /\ KeptIsRun'
    BY <1>5 DEF TrainingInv, KeptIsRun
<1>7. kept # NoRun
    BY DEF Backward, NoRun, Thrown
<1>8. KeptRunIsCurrent'
    BY <1>5, <1>6, <1>7 DEF TrainingInv, KeptRunIsCurrent, SlotsAfter, InputSlots, programVars
<1> QED
    BY <1>2, <1>3, <1>4, <1>5, <1>6, <1>8, ProgramKeptInv DEF TrainingInv, TrainingTypeOK, programVars

LEMMA ExecuteInv == ASSUME TrainingInv, NEW batch \in Batches, ExecuteTraining(batch) PROVE TrainingInv'
<1>1. Run(batch) = SlotsAfter(batch)
    BY DEF ExecuteTraining, Run
<1>2. /\ sealed /\ kept' = [slots |-> SlotsAfter(batch), batch |-> batch, spent |-> FALSE]
      /\ UNCHANGED <<programVars, training, grads, storage, moments, velocity, stepCount, adamOnly>>
    BY <1>1 DEF ExecuteTraining
<1>3. SlotsAfter(batch)' = SlotsAfter(batch)
    BY <1>2 DEF SlotsAfter, InputSlots, programVars
<1>4. KeptIsRun' /\ KeptRunIsCurrent' /\ kept'.batch \in Batches /\ kept'.spent \in BOOLEAN
    BY <1>2, <1>3 DEF KeptIsRun, KeptRunIsCurrent
<1> QED
    BY <1>2, <1>4, ProgramKeptInv DEF TrainingInv, TrainingTypeOK, programVars

LEMMA TrainingNextInv == TrainingInv /\ [TrainingNext]_torchVars => TrainingInv'
<1> SUFFICES ASSUME TrainingInv, [TrainingNext]_torchVars PROVE TrainingInv'
    OBVIOUS
<1> USE DEF programVars, trainingVars
<1>1. ASSUME NEW op \in Additions, Add(op) PROVE TrainingInv'
    BY <1>1, FreshInv DEF Add, Emplace, TrainingInv, TrainingTypeOK
<1>2. ASSUME NEW slot \in Slots, SealPlan(slot) PROVE TrainingInv'
  <2>1. UNCHANGED <<inputWidth, ops, trainingVars>> /\ sealed' = TRUE
      BY <1>2 DEF SealPlan, Seal
  <2>2. KeptIsRun' /\ KeptRunIsCurrent'
      BY <2>1 DEF TrainingInv, KeptIsRun, KeptRunIsCurrent, SlotsAfter, InputSlots
  <2> QED
      BY <2>1, <2>2, ProgramKeptInv DEF TrainingInv, TrainingTypeOK
<1>3. ASSUME NEW slot \in Slots, Backward(slot) PROVE TrainingInv'
    BY <1>3, BackwardInv
<1>4. ASSUME NEW on \in BOOLEAN, SetTraining(on) PROVE TrainingInv'
  <2>1. KeptIsRun' /\ KeptRunIsCurrent'
      BY <1>4 DEF SetTraining, TrainingInv, KeptIsRun, KeptRunIsCurrent, SlotsAfter, InputSlots
  <2> QED
      BY <1>4, <2>1, ProgramKeptInv DEF SetTraining, TrainingInv, TrainingTypeOK
<1>5. ASSUME NEW batch \in Batches, ExecuteTraining(batch) PROVE TrainingInv'
    BY <1>5, ExecuteInv
<1>6. ASSUME NEW optimizer, Step(optimizer) PROVE TrainingInv'
    BY <1>6, StepInv
<1>7. ASSUME ZeroGrad PROVE TrainingInv'
  <2>1. DOMAIN grads' = DOMAIN grads
      BY <1>7 DEF ZeroGrad
  <2>2. KeptIsRun' /\ KeptRunIsCurrent'
      BY <1>7 DEF ZeroGrad, TrainingInv, KeptIsRun, KeptRunIsCurrent, SlotsAfter, InputSlots
  <2> QED
      BY <1>7, <2>1, <2>2, ProgramKeptInv DEF ZeroGrad, TrainingInv, TrainingTypeOK
<1>8. ASSUME UNCHANGED torchVars PROVE TrainingInv'
  <2>1. KeptIsRun' /\ KeptRunIsCurrent'
      BY <1>8 DEF torchVars, TrainingInv, KeptIsRun, KeptRunIsCurrent, SlotsAfter, InputSlots
  <2> QED
      BY <1>8, <2>1, ProgramKeptInv DEF torchVars, TrainingInv, TrainingTypeOK
<1> QED
    BY <1>1, <1>2, <1>3, <1>4, <1>5, <1>6, <1>7, <1>8 DEF TrainingNext

LEMMA TrainingInvariant == TrainingSpec => []TrainingInv
<1>1. TrainingInit => TrainingInv
    BY TrainingInitInv
<1>2. TrainingInv /\ [TrainingNext]_torchVars => TrainingInv'
    BY TrainingNextInv
<1> QED
    BY <1>1, <1>2, PTL DEF TrainingSpec

\* What the plan keeps for training has its types.
THEOREM TrainingTypeCorrect == TrainingSpec => []TrainingTypeOK
<1>1. TrainingInv => TrainingTypeOK
    BY DEF TrainingInv
<1> QED
    BY <1>1, TrainingInvariant, PTL

\* The optimizer's moments are always those of parameters that are where they were.
THEOREM MomentsStayWithTheirParameters == TrainingSpec => []OptimizerKeysLive
<1>1. TrainingInv => OptimizerKeysLive
    BY DEF TrainingInv
<1> QED
    BY <1>1, TrainingInvariant, PTL

\* backward starts from what the present program computes.
THEOREM BackwardIsOfThePresentProgram == TrainingSpec => []KeptRunIsCurrent
<1>1. TrainingInv => KeptRunIsCurrent
    BY DEF TrainingInv
<1> QED
    BY <1>1, TrainingInvariant, PTL

\* Adam's bias correction has the right number of steps for every parameter it was used on from
\* the start.
THEOREM BiasCorrectionIsRight == TrainingSpec => []AdamCountsEveryStep
<1>1. TrainingInv => AdamCountsEveryStep
    BY DEF TrainingInv
<1> QED
    BY <1>1, TrainingInvariant, PTL

-----------------------------------------------------------------------------
(* OpenCvPipeline.  For any sizes and filters: the image a compiled plan   *)
(* works on keeps the shape of its input, whichever filters fail, because  *)
(* OpenCvProvider warps to that size only and seals the plan with it.      *)

Filters ==
    [kind : Warps \cup {"blur", "sobel", "filter2d"}, size : (Sides \X Sides) \cup {<<>>}]

\* A compiled plan only warps to the size of its input, which it is sealed with.
CompiledKeepsSize ==
    compiled =>
        /\ \A k \in DOMAIN filters : filters[k].kind \in Warps => filters[k].size = inputSize
        /\ imageSealed => outputSize = inputSize

\* An image is on its way through a sealed plan, and one size is all it can have when the plan is compiled.
ImageInv ==
    next # 0 => imageSealed /\ (compiled => image = Shape(inputSize))

CvInv ==
    /\ inputSize \in Sides \X Sides /\ filters \in Seq(Filters)
    /\ CompiledKeepsSize /\ ImageInv /\ ResultAsDeclared

LEMMA CvInitInv == CvInit => CvInv
<1> SUFFICES ASSUME CvInit PROVE CvInv
    OBVIOUS
<1>1. filters = <<>> /\ filters \in Seq(Filters) /\ DOMAIN filters = {}
    BY DEF CvInit
<1> QED
    BY <1>1 DEF CvInit, CvInv, CompiledKeepsSize, ImageInv, ResultAsDeclared, NoAnswer, Answer

\* A filter is put behind the others of a plan that does not run.
LEMMA AddFilterInv ==
    ASSUME CvInv, NEW filter \in Filters, AddFilter(filter),
           compiled /\ filter.kind \in Warps => filter.size = inputSize
    PROVE  CvInv'
<1>1. /\ filters' = Append(filters, filter) /\ next = 0
      /\ UNCHANGED <<compiled, inputSize, imageSealed, outputSize, image, next, answer>>
    BY DEF AddFilter
<1>2. /\ filters' \in Seq(Filters)
      /\ \A k \in DOMAIN filters' : filters'[k] = filter \/ (k \in DOMAIN filters /\ filters'[k] = filters[k])
    BY <1>1 DEF CvInv
<1>3. CompiledKeepsSize'
    BY <1>1, <1>2 DEF CvInv, CompiledKeepsSize
<1> QED
    BY <1>1, <1>2, <1>3 DEF CvInv, ImageInv, ResultAsDeclared

LEMMA CvNextInv == CvInv /\ [CvNext]_cvVars => CvInv'
<1> SUFFICES ASSUME CvInv, [CvNext]_cvVars PROVE CvInv'
    OBVIOUS
<1>0. \A size \in Sides \X Sides : size[1] > 0 /\ size[2] > 0 /\ <<size[1], size[1]>> \in Sides \X Sides
  <2>1. \A side \in Sides : side \in Nat /\ side > 0
      BY SidesAssumption
  <2> QED
      BY <2>1
<1>1. ASSUME AddGaussianBlur \/ AddSobel PROVE CvInv'
  <2>1. Filter("blur", <<>>) \in Filters /\ Filter("sobel", <<>>) \in Filters
      BY DEF Filter, Filters
  <2>2. Filter("blur", <<>>).kind \notin Warps /\ Filter("sobel", <<>>).kind \notin Warps
      BY DEF Filter, Warps
  <2> QED
      BY <1>1, <2>1, <2>2, AddFilterInv DEF AddGaussianBlur, AddSobel
<1>2. ASSUME NEW size \in Sides \X Sides, AddWarpAffine(size) \/ AddWarpPerspective(size) PROVE CvInv'
  <2>1. PICK name \in {"warpAffine", "warpPerspective"} : AddFilter(Filter(name, size)) /\ (compiled => size = inputSize)
      BY <1>2 DEF AddWarpAffine, AddWarpPerspective
  <2>2. Filter(name, size) \in Filters /\ Filter(name, size).size = size
      BY <1>0 DEF Filter, Filters, Warps
  <2> QED
      BY <2>1, <2>2, AddFilterInv
<1>3. ASSUME NEW size \in Sides \X Sides, AddFilter2d(size) PROVE CvInv'
  <2>1. AddFilter(Filter("filter2d", <<size[1], size[1]>>)) /\ ~compiled
      BY <1>3 DEF AddFilter2d
  <2>2. Filter("filter2d", <<size[1], size[1]>>) \in Filters
      BY <1>0 DEF Filter, Filters, Warps
  <2> QED
      BY <2>1, <2>2, AddFilterInv
<1>4. ASSUME NEW size \in (Sides \X Sides) \cup {<<0, 0>>}, SealImages(size) PROVE CvInv'
  <2>1. /\ next = 0 /\ UNCHANGED <<compiled, inputSize, filters, image, next, answer>>
        /\ compiled => size = inputSize
        /\ outputSize' = [i \in 1..2 |-> IF size[i] > 0 THEN size[i] ELSE inputSize[i]]
      BY <1>4 DEF SealImages
  <2>2. compiled => outputSize' = inputSize
    <3> SUFFICES ASSUME compiled PROVE outputSize' = inputSize
        OBVIOUS
    <3>1. outputSize' = [i \in 1..2 |-> inputSize[i]]
        BY <2>1, <1>0 DEF CvInv
    <3>2. inputSize = [i \in 1..2 |-> inputSize[i]]
        BY DEF CvInv
    <3> QED
        BY <3>1, <3>2
  <2> QED
      BY <2>1, <2>2 DEF CvInv, CompiledKeepsSize, ImageInv, ResultAsDeclared
<1>5. ASSUME ExecuteFilters PROVE CvInv'
    BY <1>5 DEF ExecuteFilters, CvInv, CompiledKeepsSize, ImageInv, ResultAsDeclared
<1>6. ASSUME ApplyFilter PROVE CvInv'
  <2>1. /\ next \in DOMAIN filters /\ next # 0 /\ image' \in {image, Filtered(filters[next], image)}
        /\ UNCHANGED <<compiled, inputSize, filters, imageSealed, outputSize, answer>>
      BY <1>6 DEF ApplyFilter, CvInv
  <2>2. compiled => image' = Shape(inputSize)
      BY <2>1 DEF CvInv, CompiledKeepsSize, ImageInv, Filtered
  <2> QED
      BY <2>1, <2>2 DEF CvInv, CompiledKeepsSize, ImageInv, ResultAsDeclared
<1>7. ASSUME CopyImage PROVE CvInv'
  <2>1. /\ next # 0 /\ answer' = Answer("plan", image, outputSize) /\ next' = 0
        /\ UNCHANGED <<compiled, inputSize, filters, imageSealed, outputSize>>
      BY <1>7 DEF CopyImage, CvInv
  <2>2. ResultAsDeclared'
      BY <2>1 DEF CvInv, CompiledKeepsSize, ImageInv, ResultAsDeclared, Answer
  <2> QED
      BY <2>1, <2>2 DEF CvInv, CompiledKeepsSize, ImageInv
<1>8. ASSUME NEW size \in Sides \X Sides, Filter2dDirect(size) PROVE CvInv'
  <2>1. answer' = Answer("call", Shape(size), size)
      BY <1>8 DEF Filter2dDirect, Filtered, Filter, Warps
  <2> QED
      BY <1>8, <2>1 DEF Filter2dDirect, CvInv, CompiledKeepsSize, ImageInv, ResultAsDeclared, Answer
<1>9. ASSUME NEW size \in Sides \X Sides, NEW out \in Sides \X Sides, WarpAffineDirect(size, out) PROVE CvInv'
  <2>1. answer' = Answer("call", Shape(out), out)
      BY <1>9 DEF WarpAffineDirect, Filtered, Filter, Warps
  <2> QED
      BY <1>9, <2>1 DEF WarpAffineDirect, CvInv, CompiledKeepsSize, ImageInv, ResultAsDeclared, Answer
<1>10. ASSUME UNCHANGED cvVars PROVE CvInv'
    BY <1>10 DEF cvVars, CvInv, CompiledKeepsSize, ImageInv, ResultAsDeclared
<1> QED
    BY <1>1, <1>2, <1>3, <1>4, <1>5, <1>6, <1>7, <1>8, <1>9, <1>10 DEF CvNext

LEMMA CvInvariant == CvSpec => []CvInv
<1>1. CvInit => CvInv
    BY CvInitInv
<1>2. CvInv /\ [CvNext]_cvVars => CvInv'
    BY CvNextInv
<1> QED
    BY <1>1, <1>2, PTL DEF CvSpec

\* For any sizes and any number of filters: no caller of a compiled plan or of a direct call is
\* given more, less or other than the image it declares, whichever filters fail on the way.
THEOREM ImagesAreAsDeclared == CvSpec => []ResultAsDeclared
<1>1. CvInv => ResultAsDeclared
    BY DEF CvInv
<1> QED
    BY <1>1, CvInvariant, PTL

-----------------------------------------------------------------------------
(* OnnxSessions.  For any number of threads and sessions: one thread loads *)
(* the runtime, and nothing is asked of it before; a session lives exactly *)
(* as long as somebody can reach it; every stage of a call holds exactly   *)
(* what HeldAt says, which is nothing once it has returned.                *)

HeldAt ==
    [out |-> {}, api |-> {}, env |-> {},
     options |-> {}, session |-> {"options"}, names |-> {"session"},
     memory |-> {}, tensor |-> {"memoryInfo"}, running |-> {"input"}, data |-> {"output"}]
OnnxStages == {"out", "api", "env", "options", "session", "names", "memory", "tensor", "running", "data"}
Loading == {"api", "env"}
InRun == {"memory", "tensor", "running", "data"}

OnnxTypes ==
    /\ onnxPc \in [OnnxThreads -> OnnxStages]
    /\ uses \in [OnnxThreads -> 0..created]
    /\ created \in Nat /\ sessions \subseteq 1..created /\ released \subseteq 1..created
    /\ env \in BOOLEAN
    /\ DOMAIN holds = OnnxThreads

\* One thread loads, and its answer is the one that stays.
LoadInv ==
    /\ \A t, u \in OnnxThreads : onnxPc[t] \in Loading /\ onnxPc[u] \in Loading => t = u
    /\ \A t \in OnnxThreads :
          /\ onnxPc[t] \in Loading => available = "loading"
          /\ onnxPc[t] \notin Loading \cup {"out"} => available = "yes"
    /\ available = "yes" => env

HoldsInv ==
    \A t \in OnnxThreads :
        /\ holds[t] = HeldAt[onnxPc[t]]
        /\ uses[t] # 0 => onnxPc[t] \in InRun

\* Of a session, the queries for its inputs' name and its outputs' may each lose a status.
StatusInv == created \in Nat /\ lost \in Nat /\ lost <= 2 * created

OnnxInv == OnnxTypes /\ LoadInv /\ HoldsInv /\ SessionsOutliveRuns

LEMMA OnnxInitInv == OnnxInit => OnnxInv
<1> SUFFICES ASSUME OnnxInit PROVE OnnxInv
    OBVIOUS
<1>1. OnnxTypes
  <2>1. onnxPc \in [OnnxThreads -> OnnxStages] /\ DOMAIN holds = OnnxThreads /\ env \in BOOLEAN
      BY DEF OnnxInit, OnnxStages
  <2>2. created = 0 /\ uses \in [OnnxThreads -> {0}] /\ sessions = {} /\ released = {}
      BY DEF OnnxInit
  <2>3. {0} \subseteq 0..0
      OBVIOUS
  <2>4. uses \in [OnnxThreads -> 0..0]
      BY <2>2, <2>3
  <2> QED
      BY <2>1, <2>2, <2>4 DEF OnnxTypes
<1>2. LoadInv
    BY DEF OnnxInit, LoadInv, Loading
<1>3. HoldsInv
    BY DEF OnnxInit, HoldsInv, HeldAt
<1>4. SessionsOutliveRuns
    BY DEF OnnxInit, SessionsOutliveRuns
<1> QED
    BY <1>1, <1>2, <1>3, <1>4 DEF OnnxInv

\* Leaving a run: the session it used goes when nobody else has it.
LEMMA LetGoSessions ==
    ASSUME OnnxTypes, SessionsOutliveRuns, NEW t \in OnnxThreads, LetGo(t), UNCHANGED <<sessions, created>>
    PROVE  /\ SessionsOutliveRuns' /\ released' \subseteq 1..created
           /\ uses' \in [OnnxThreads -> 0..created] /\ uses'[t] = 0
           /\ \A u \in OnnxThreads \ {t} : uses'[u] = uses[u]
<1> DEFINE h0 == uses[t]
<1>1. /\ uses' = [uses EXCEPT ![t] = 0]
      /\ released' = released \cup Dropped(h0, OtherUsers(t, h0))
    BY DEF LetGo
<1>2. /\ uses' \in [OnnxThreads -> 0..created] /\ uses'[t] = 0
      /\ \A u \in OnnxThreads \ {t} : uses'[u] = uses[u]
      /\ h0 \in 0..created /\ created \in Nat
    BY <1>1 DEF OnnxTypes
<1>3. released' = released \cup
          (IF h0 # 0 /\ h0 \notin sessions /\ \A u \in OnnxThreads \ {t} : uses[u] # h0 THEN {h0} ELSE {})
  <2>1. OtherUsers(t, h0) = {} <=> \A u \in OnnxThreads \ {t} : uses[u] # h0
      BY DEF OtherUsers
  <2>2. Dropped(h0, OtherUsers(t, h0)) =
          IF h0 # 0 /\ h0 \notin sessions /\ \A u \in OnnxThreads \ {t} : uses[u] # h0 THEN {h0} ELSE {}
      BY <2>1 DEF Dropped
  <2> HIDE DEF h0
  <2> QED
      BY <1>1, <2>2
<1>4. released' \subseteq 1..created
  <2>1. h0 # 0 => h0 \in 1..created
      BY <1>2
  <2>2. released \subseteq 1..created
      BY DEF OnnxTypes
  <2> HIDE DEF h0
  <2> QED
      BY <1>3, <2>1, <2>2
<1>5. ASSUME NEW h \in 1..created
      PROVE  h \in released' <=> h \notin sessions /\ \A u \in OnnxThreads : uses'[u] # h
  <2>1. h \in released <=> h \notin sessions /\ \A u \in OnnxThreads : uses[u] # h
      BY DEF SessionsOutliveRuns
  <2>2. h # 0
      BY <1>2
  <2>3. CASE h = h0
      BY <2>1, <2>2, <2>3, <1>2, <1>3
  <2>4. CASE h # h0
      BY <2>1, <2>2, <2>4, <1>2, <1>3
  <2> QED
      BY <2>3, <2>4
<1> QED
    BY <1>2, <1>4, <1>5 DEF SessionsOutliveRuns

\* A call of the runtime in the middle of a call of ours.
LEMMA OrtCallInv ==
    ASSUME OnnxInv, NEW t \in OnnxThreads, NEW from \in OnnxStages \ ({"out"} \cup Loading), NEW frees, NEW gives,
           NEW to \in OnnxStages \ ({"out"} \cup Loading), OrtCall(t, from, frees, gives, to),
           (HeldAt[from] \ frees) \cup gives = HeldAt[to], HeldAt[from] \subseteq frees,
           from \in InRun => to \in InRun
    PROVE  OnnxInv'
<1> USE DEF OnnxInv
<1>1. CASE /\ OnnxGoto(t, from, to)
           /\ holds' = [holds EXCEPT ![t] = (@ \ frees) \cup gives]
           /\ UNCHANGED <<ort, env, available, sessions, created, released, uses>>
  <2>1. OnnxTypes' /\ LoadInv'
      BY <1>1 DEF OnnxGoto, OnnxTypes, LoadInv, Loading, OnnxStages
  <2>2. HoldsInv'
      BY <1>1 DEF OnnxGoto, OnnxTypes, HoldsInv
  <2>3. SessionsOutliveRuns'
      BY <1>1 DEF SessionsOutliveRuns
  <2> QED
      BY <2>1, <2>2, <2>3
<1>2. CASE /\ OnnxGoto(t, from, "out")
           /\ holds' = [holds EXCEPT ![t] = @ \ frees]
           /\ LetGo(t)
           /\ UNCHANGED <<ort, env, available, sessions, created>>
  <2>1. /\ SessionsOutliveRuns' /\ released' \subseteq 1..created
        /\ uses' \in [OnnxThreads -> 0..created] /\ uses'[t] = 0
        /\ \A u \in OnnxThreads \ {t} : uses'[u] = uses[u]
      BY <1>2, LetGoSessions
  <2>2. OnnxTypes' /\ LoadInv'
      BY <1>2, <2>1 DEF OnnxGoto, OnnxTypes, LoadInv, Loading, OnnxStages
  <2>3. HoldsInv'
      BY <1>2, <2>1 DEF OnnxGoto, OnnxTypes, HoldsInv, HeldAt
  <2> QED
      BY <2>1, <2>2, <2>3
<1> QED
    BY <1>1, <1>2 DEF OrtCall

LEMMA LoadingInv ==
    ASSUME OnnxInv, NEW t \in OnnxThreads, LoadOnnxPanama(t) \/ LoadApi(t) \/ CreateEnv(t)
    PROVE  OnnxInv'
<1>1. UNCHANGED <<sessions, created, released, uses, holds>> /\ env' \in BOOLEAN
    BY DEF LoadOnnxPanama, LoadApi, CreateEnv, OnnxInv, OnnxTypes
<1>2. \E to \in {"api", "env", "out"} : onnxPc' = [onnxPc EXCEPT ![t] = to] /\ onnxPc[t] \in Loading \cup {"out"}
    BY DEF LoadOnnxPanama, LoadApi, CreateEnv, OnnxGoto, Loading
<1>3. OnnxTypes'
    BY <1>1, <1>2 DEF OnnxInv, OnnxTypes, OnnxStages
<1>4. LoadInv'
    BY DEF LoadOnnxPanama, LoadApi, CreateEnv, OnnxGoto, OnnxInv, OnnxTypes, LoadInv, Loading, OnnxStages
<1>5. HoldsInv'
    BY <1>1, <1>2 DEF OnnxInv, OnnxTypes, HoldsInv, HeldAt, Loading, InRun
<1>6. SessionsOutliveRuns'
    BY <1>1 DEF OnnxInv, SessionsOutliveRuns
<1> QED
    BY <1>3, <1>4, <1>5, <1>6 DEF OnnxInv

LEMMA RegisterInv == ASSUME OnnxInv, NEW t \in OnnxThreads, RegisterSession(t) PROVE OnnxInv'
<1>1. OnnxTypes'
    BY DEF RegisterSession, OnnxGoto, OnnxInv, OnnxTypes, OnnxStages
<1>2. LoadInv' /\ HoldsInv'
    BY DEF RegisterSession, OnnxGoto, OnnxInv, OnnxTypes, LoadInv, HoldsInv, HeldAt, Loading, InRun
<1>3. SessionsOutliveRuns'
  <2>1. /\ created' = created + 1 /\ sessions' = sessions \cup {created + 1}
        /\ UNCHANGED <<released, uses>> /\ created \in Nat
        /\ released \subseteq 1..created /\ uses \in [OnnxThreads -> 0..created]
      BY DEF RegisterSession, OnnxInv, OnnxTypes
  <2> QED
      BY <2>1 DEF OnnxInv, SessionsOutliveRuns
<1> QED
    BY <1>1, <1>2, <1>3 DEF OnnxInv

LEMMA RunSessionInv ==
    ASSUME OnnxInv, NEW t \in OnnxThreads, NEW h \in 1..created, RunSession(t, h)
    PROVE  OnnxInv'
<1>1. OnnxTypes' /\ LoadInv'
    BY DEF RunSession, OnnxGoto, OnnxInv, OnnxTypes, LoadInv, Loading, OnnxStages
<1>2. HoldsInv'
  <2>1. HeldAt["out"] = {} /\ HeldAt["memory"] = {}
      BY DEF HeldAt
  <2> QED
      BY <2>1 DEF RunSession, OnnxGoto, OnnxInv, OnnxTypes, HoldsInv, InRun
<1>3. SessionsOutliveRuns'
  <2>1. uses[t] = 0 /\ h \in sessions /\ uses' = [uses EXCEPT ![t] = h] /\ UNCHANGED <<sessions, created, released>>
      BY DEF RunSession, OnnxGoto, OnnxInv, HoldsInv, InRun
  <2> QED
      BY <2>1 DEF OnnxInv, OnnxTypes, SessionsOutliveRuns
<1> QED
    BY <1>1, <1>2, <1>3 DEF OnnxInv

LEMMA OnnxNextInv == OnnxInv /\ [OnnxNext]_onnxVars => OnnxInv'
<1> SUFFICES ASSUME OnnxInv, [OnnxNext]_onnxVars PROVE OnnxInv'
    OBVIOUS
<1>1. ASSUME NEW t \in OnnxThreads, LoadOnnxPanama(t) \/ LoadApi(t) \/ CreateEnv(t) PROVE OnnxInv'
    BY <1>1, LoadingInv
<1>2. ASSUME NEW t \in OnnxThreads, CreateSession(t) PROVE OnnxInv'
  <2>1. OnnxTypes' /\ LoadInv'
      BY <1>2 DEF CreateSession, OnnxGoto, OnnxInv, OnnxTypes, LoadInv, Loading, OnnxStages
  <2>2. HoldsInv'
    <3>1. HeldAt["out"] = {} /\ HeldAt["options"] = {}
        BY DEF HeldAt
    <3> QED
        BY <1>2, <3>1 DEF CreateSession, OnnxGoto, OnnxInv, OnnxTypes, HoldsInv, InRun
  <2>3. SessionsOutliveRuns'
      BY <1>2 DEF CreateSession, OnnxInv, SessionsOutliveRuns
  <2> QED
      BY <2>1, <2>2, <2>3 DEF OnnxInv
<1>3. ASSUME NEW t \in OnnxThreads,
             SessionOptions(t) \/ OpenSession(t) \/ MemoryInfo(t) \/ InputTensor(t) \/ OrtRun(t)
      PROVE  OnnxInv'
  <2> USE DEF OnnxStages, Loading, InRun, HeldAt
  <2>1. CASE SessionOptions(t)
      BY <2>1, OrtCallInv DEF SessionOptions
  <2>2. CASE OpenSession(t)
      BY <2>2, OrtCallInv DEF OpenSession
  <2>3. CASE MemoryInfo(t)
      BY <2>3, OrtCallInv DEF MemoryInfo
  <2>4. CASE InputTensor(t)
      BY <2>4, OrtCallInv DEF InputTensor
  <2>5. CASE OrtRun(t)
      BY <2>5, OrtCallInv DEF OrtRun
  <2> QED
      BY <1>3, <2>1, <2>2, <2>3, <2>4, <2>5
<1>4. ASSUME NEW t \in OnnxThreads, RegisterSession(t) PROVE OnnxInv'
    BY <1>4, RegisterInv
<1>5. ASSUME NEW t \in OnnxThreads, NEW h \in 1..created, RunSession(t, h) PROVE OnnxInv'
    BY <1>5, RunSessionInv
<1>6. ASSUME NEW t \in OnnxThreads, CopyOutput(t) PROVE OnnxInv'
  <2>1. /\ SessionsOutliveRuns' /\ released' \subseteq 1..created
        /\ uses' \in [OnnxThreads -> 0..created] /\ uses'[t] = 0
        /\ \A u \in OnnxThreads \ {t} : uses'[u] = uses[u]
      BY <1>6, LetGoSessions DEF CopyOutput, OnnxInv
  <2>2. OnnxTypes' /\ LoadInv'
      BY <1>6, <2>1 DEF CopyOutput, OnnxGoto, OnnxInv, OnnxTypes, LoadInv, Loading, OnnxStages
  <2>3. HoldsInv'
      BY <1>6, <2>1 DEF CopyOutput, OnnxGoto, OnnxInv, OnnxTypes, HoldsInv, HeldAt
  <2> QED
      BY <2>1, <2>2, <2>3 DEF OnnxInv
<1>7. ASSUME NEW h \in 1..created, DestroySession(h) PROVE OnnxInv'
  <2>1. OnnxTypes' /\ LoadInv' /\ HoldsInv'
      BY <1>7 DEF DestroySession, OnnxInv, OnnxTypes, LoadInv, HoldsInv
  <2>2. SessionsOutliveRuns'
      BY <1>7 DEF DestroySession, OnnxInv, OnnxTypes, SessionsOutliveRuns
  <2> QED
      BY <2>1, <2>2 DEF OnnxInv
<1>8. ASSUME UNCHANGED onnxVars PROVE OnnxInv'
    BY <1>8 DEF onnxVars, OnnxInv, OnnxTypes, LoadInv, HoldsInv, SessionsOutliveRuns
<1> QED
    BY <1>1, <1>2, <1>3, <1>4, <1>5, <1>6, <1>7, <1>8 DEF OnnxNext

LEMMA OnnxInvariant == OnnxSpec => []OnnxInv
<1>1. OnnxInit => OnnxInv
    BY OnnxInitInv
<1>2. OnnxInv /\ [OnnxNext]_onnxVars => OnnxInv'
    BY OnnxNextInv
<1> QED
    BY <1>1, <1>2, PTL DEF OnnxSpec

\* Whatever thread asks first, no session is made or run without the runtime's environment.
THEOREM OnnxEnvironmentFirst == OnnxSpec => []EnvBeforeSession
<1>1. OnnxInv => EnvBeforeSession
    BY DEF OnnxInv, OnnxTypes, LoadInv, EnvBeforeSession, Loading
<1> QED
    BY <1>1, OnnxInvariant, PTL

\* Sessions live exactly as long as they can be reached, however runs and destroys meet.
LEMMA OnnxSessionLifetime == OnnxSpec => []SessionsOutliveRuns
<1>1. OnnxInv => SessionsOutliveRuns
    BY DEF OnnxInv
<1> QED
    BY <1>1, OnnxInvariant, PTL

LEMMA RegisterStatus == ASSUME StatusInv, NEW t \in OnnxThreads, RegisterSession(t) PROVE StatusInv'
<1>1. created' = created + 1 /\ created \in Nat /\ lost \in Nat /\ lost <= 2 * created
    BY DEF RegisterSession, StatusInv
<1>2. PICK failures \in 0..2 : lost' = lost + failures
    BY DEF RegisterSession
<1> QED
    BY ONLY <1>1, <1>2 DEF StatusInv

LEMMA StatusInvariant == OnnxSpec => []StatusInv
<1>1. OnnxInit => StatusInv
    BY DEF OnnxInit, StatusInv
<1>2. StatusInv /\ [OnnxNext]_onnxVars => StatusInv'
  <2> SUFFICES ASSUME StatusInv, [OnnxNext]_onnxVars PROVE StatusInv'
      OBVIOUS
  <2>1. ASSUME UNCHANGED <<created, lost>> PROVE StatusInv'
      BY <2>1 DEF StatusInv
  <2>2. \A t \in OnnxThreads : RegisterSession(t) => StatusInv'
      BY RegisterStatus
  <2>3. \/ \E t \in OnnxThreads : RegisterSession(t)
        \/ UNCHANGED <<created, lost>>
      BY DEF OnnxNext, onnxVars, LoadOnnxPanama, LoadApi, CreateEnv, CreateSession, SessionOptions,
             OpenSession, RunSession, MemoryInfo, InputTensor, OrtRun, CopyOutput, OrtCall, DestroySession
  <2> QED
      BY <2>1, <2>2, <2>3
<1> QED
    BY <1>1, <1>2, PTL DEF OnnxSpec

\* No failure leaves an object of the runtime behind.
LEMMA OnnxNothingLeaks == OnnxSpec => []OrtObjectsReleased
<1>1. OnnxInv /\ StatusInv => OrtObjectsReleased
    BY DEF OnnxInv, OnnxTypes, HoldsInv, StatusInv, OrtObjectsReleased, HeldAt
<1> QED
    BY <1>1, OnnxInvariant, StatusInvariant, PTL

\* Every object the runtime gives out comes back in time, for any number of threads and sessions;
\* what does not is a status of a query for names, at most two for each session.
THEOREM OnnxReleasesHold == OnnxSpec => []OrtReleases
BY OnnxSessionLifetime, OnnxNothingLeaks, PTL DEF OrtReleases

-----------------------------------------------------------------------------
(* PetscSolve.  For any number of threads, plans and problems: PETSc is    *)
(* entered by one thread at a time, a plan lives exactly as long as the    *)
(* map or a solve has it, and a failed call leaves no object behind.  A    *)
(* thread that is past the lookup has the mutex, and it has come there     *)
(* after the initialisation, which ends before anybody else goes on.       *)

Initialisation == {"initCreate", "initSolve"}
WithObjects == Making \cup {"taoSolve", "free"}
WithPlan == WithObjects \cup {"leave"}
WithMutex == WithPlan \cup {"lookup"}
PetscStages == {"out", "create", "solve"} \cup Initialisation \cup WithMutex

PetscTypes ==
    /\ petscPc \in [Solvers -> PetscStages]
    /\ petscOnce \in {"unset", "running", "set"}
    /\ plans \in Seq(DOMAIN Problems)
    /\ live \subseteq DOMAIN plans /\ freed \subseteq DOMAIN plans
    /\ target \in [Solvers -> 0..Len(plans)]
    /\ DOMAIN asked = Solvers /\ DOMAIN objects = Solvers
    /\ \A t \in Solvers : petscPc[t] \in {"create", "initCreate"} => asked[t] \in DOMAIN Problems

\* Who initialises is alone and first; who solves has the mutex.
EntryInv ==
    /\ \A t, u \in Solvers : petscPc[t] \in Initialisation /\ petscPc[u] \in Initialisation => t = u
    /\ \A t \in Solvers :
          /\ petscPc[t] \in Initialisation => petscOnce = "running"
          /\ petscPc[t] \in WithMutex => petscOnce = "set" /\ solving = t

\* What a thread has, by stage.
HeldInv ==
    \A t \in Solvers :
        /\ objects[t] # {} => petscPc[t] \in WithObjects
        /\ target[t] # 0 => petscPc[t] \in WithPlan

PetscInv == PetscTypes /\ EntryInv /\ HeldInv /\ PetscPlanOutlivesSolve

LEMMA PetscInitInv == PetscInit => PetscInv
<1> SUFFICES ASSUME PetscInit PROVE PetscInv
    OBVIOUS
<1>1. /\ plans = <<>> /\ live = {} /\ freed = {} /\ petscOnce = "unset"
      /\ petscPc = [t \in Solvers |-> "out"] /\ target = [t \in Solvers |-> 0]
      /\ asked = [t \in Solvers |-> 0] /\ objects = [t \in Solvers |-> {}]
    BY DEF PetscInit
<1>2. plans \in Seq(DOMAIN Problems) /\ Len(plans) = 0 /\ DOMAIN plans = {}
    BY <1>1
<1>3. target \in [Solvers -> 0..Len(plans)]
    BY <1>1, <1>2
<1>4. PetscTypes
    BY <1>1, <1>2, <1>3 DEF PetscTypes, PetscStages
<1>5. EntryInv
    BY <1>1 DEF EntryInv, Initialisation, WithMutex, WithPlan, WithObjects, Making
<1>6. HeldInv /\ PetscPlanOutlivesSolve
    BY <1>1, <1>2 DEF HeldInv, PetscPlanOutlivesSolve
<1> QED
    BY <1>4, <1>5, <1>6 DEF PetscInv

\* A thread moves on with the plan it has, and makes or destroys objects of its own.
LEMMA MoveInv ==
    ASSUME PetscInv, NEW t \in Solvers, NEW to \in PetscStages, petscPc' = [petscPc EXCEPT ![t] = to],
           UNCHANGED <<planVars, target>>,
           DOMAIN objects' = Solvers, \A u \in Solvers \ {t} : objects'[u] = objects[u],
           petscOnce' \in {"unset", "running", "set"}, DOMAIN asked' = Solvers,
           \A u \in Solvers : petscPc'[u] \in {"create", "initCreate"} => asked'[u] \in DOMAIN Problems,
           target[t] # 0 => to \in WithPlan, objects'[t] # {} => to \in WithObjects, EntryInv'
    PROVE  PetscInv'
<1>1. PetscTypes'
    BY DEF PetscInv, PetscTypes, planVars
<1>2. HeldInv'
    BY DEF PetscInv, PetscTypes, HeldInv
<1>3. PetscPlanOutlivesSolve'
    BY DEF PetscInv, PetscPlanOutlivesSolve, planVars, Unused
<1> QED
    BY <1>1, <1>2, <1>3 DEF PetscInv

LEMMA EnteringInv ==
    ASSUME PetscInv, NEW t \in Solvers,
           \/ \E problem \in DOMAIN Problems : CreateCall(t, problem)
           \/ \E h \in DOMAIN plans : SolveCall(t, h)
           \/ EnterOnce(t) \/ PetscInitialize(t)
    PROVE  PetscInv'
<1> USE DEF PetscGoto
<1>1. target[t] = 0 /\ objects[t] = {}
    BY DEF CreateCall, SolveCall, EnterCall, EnterOnce, PetscInitialize, PetscInv, HeldInv,
           WithObjects, WithPlan, Making
<1>2. CASE \/ \E problem \in DOMAIN Problems : CreateCall(t, problem)
           \/ \E h \in DOMAIN plans : SolveCall(t, h)
  <2>1. PICK what \in {"create", "solve"}, argument \in DOMAIN Problems \cup DOMAIN plans :
          EnterCall(t, what, argument) /\ (what = "create" => argument \in DOMAIN Problems)
      BY <1>2 DEF CreateCall, SolveCall
  <2>2. EntryInv'
      BY <2>1 DEF EnterCall, heldVars, PetscInv, PetscTypes, EntryInv, Initialisation, WithMutex, WithPlan,
                  WithObjects, Making
  <2>3. \A u \in Solvers : petscPc'[u] \in {"create", "initCreate"} => asked'[u] \in DOMAIN Problems
      BY <2>1 DEF EnterCall, PetscInv, PetscTypes
  <2> QED
      BY <1>1, <2>1, <2>2, <2>3, MoveInv DEF EnterCall, heldVars, PetscInv, PetscTypes, PetscStages
<1>3. CASE EnterOnce(t)
  <2>1. PICK to \in Initialisation : /\ petscPc' = [petscPc EXCEPT ![t] = to]
                                     /\ to = "initCreate" => petscPc[t] = "create"
      BY <1>3 DEF EnterOnce, Initialisation
  <2>2. EntryInv'
      BY <1>3, <2>1 DEF EnterOnce, heldVars, PetscInv, PetscTypes, EntryInv, Initialisation, WithMutex, WithPlan,
                        WithObjects, Making
  <2>3. \A u \in Solvers : petscPc'[u] \in {"create", "initCreate"} => asked'[u] \in DOMAIN Problems
      BY <1>3, <2>1 DEF EnterOnce, PetscInv, PetscTypes
  <2> QED
      BY <1>1, <1>3, <2>1, <2>2, <2>3, MoveInv DEF EnterOnce, heldVars, PetscInv, PetscTypes, PetscStages
<1>4. CASE PetscInitialize(t)
  <2>1. PICK to \in {"create", "solve"} : /\ petscPc' = [petscPc EXCEPT ![t] = to]
                                          /\ to = "create" => petscPc[t] = "initCreate"
      BY <1>4 DEF PetscInitialize
  <2>2. EntryInv'
      BY <1>4, <2>1 DEF PetscInitialize, heldVars, PetscInv, PetscTypes, EntryInv, Initialisation, WithMutex,
                        WithPlan, WithObjects, Making
  <2>3. \A u \in Solvers : petscPc'[u] \in {"create", "initCreate"} => asked'[u] \in DOMAIN Problems
      BY <1>4, <2>1 DEF PetscInitialize, PetscInv, PetscTypes
  <2> QED
      BY <1>1, <1>4, <2>1, <2>2, <2>3, MoveInv DEF PetscInitialize, heldVars, PetscInv, PetscTypes, PetscStages
<1> QED
    BY <1>2, <1>3, <1>4

LEMMA RegisterPlanInv == ASSUME PetscInv, NEW t \in Solvers, RegisterPlan(t) PROVE PetscInv'
<1> DEFINE h == Len(plans) + 1
<1>1. /\ petscPc[t] = "create" /\ petscPc' = [petscPc EXCEPT ![t] = "out"]
      /\ plans' = Append(plans, asked[t]) /\ asked' = [asked EXCEPT ![t] = 0]
      /\ UNCHANGED <<petscOnce, heldVars, freed>>
    BY DEF RegisterPlan, PetscGoto
<1>2. /\ plans \in Seq(DOMAIN Problems) /\ asked[t] \in DOMAIN Problems /\ Len(plans) \in Nat
    BY <1>1 DEF PetscInv, PetscTypes
<1>3. /\ plans' \in Seq(DOMAIN Problems) /\ Len(plans') = h
      /\ DOMAIN plans = 1..Len(plans) /\ DOMAIN plans' = 1..h /\ live' = live \cup {h}
    BY <1>1, <1>2 DEF RegisterPlan
<1>4. PetscTypes'
  <2>1. target' \in [Solvers -> 0..Len(plans')]
      BY <1>1, <1>2, <1>3 DEF PetscInv, PetscTypes, heldVars
  <2> QED
      BY <1>1, <1>2, <1>3, <2>1 DEF PetscInv, PetscTypes, PetscStages, heldVars
<1>5. EntryInv'
    BY <1>1 DEF heldVars, PetscInv, PetscTypes, EntryInv, Initialisation, WithMutex, WithPlan, WithObjects, Making
<1>6. HeldInv'
    BY <1>1 DEF heldVars, PetscInv, PetscTypes, HeldInv, WithPlan, WithObjects, Making
<1>7. PetscPlanOutlivesSolve'
  <2>1. \A u \in Solvers : target[u] # h
      BY <1>2 DEF PetscInv, PetscTypes
  <2>2. h \notin freed
      BY <1>2, <1>3 DEF PetscInv, PetscTypes
  <2> HIDE DEF h
  <2> QED
      BY <1>1, <1>3, <2>1, <2>2 DEF PetscInv, PetscPlanOutlivesSolve, Unused, heldVars
<1> QED
    BY <1>4, <1>5, <1>6, <1>7 DEF PetscInv

LEMMA LookupInv == ASSUME PetscInv, NEW t \in Solvers, Lookup(t) PROVE PetscInv'
<1>1. CASE /\ asked[t] \notin live
           /\ PetscGoto(t, "lookup", "leave")
           /\ UNCHANGED <<petscOnce, petscUp, heldVars, planVars, asked, solved>>
  <2>1. EntryInv'
      BY <1>1 DEF PetscGoto, heldVars, PetscInv, PetscTypes, EntryInv, Initialisation, WithMutex, WithPlan, WithObjects, Making
  <2>2. \A u \in Solvers : petscPc'[u] \in {"create", "initCreate"} => asked'[u] \in DOMAIN Problems
      BY <1>1 DEF PetscGoto, PetscInv, PetscTypes
  <2>3. objects[t] = {}
      BY <1>1 DEF PetscGoto, PetscInv, HeldInv, WithObjects, Making
  <2> QED
      BY <1>1, <2>1, <2>2, <2>3, MoveInv
      DEF PetscGoto, heldVars, PetscInv, PetscTypes, PetscStages, WithMutex, WithPlan
<1>2. CASE /\ asked[t] \in live
           /\ PetscGoto(t, "lookup", "solution")
           /\ target' = [target EXCEPT ![t] = asked[t]]
           /\ UNCHANGED <<petscOnce, petscUp, solving, planVars, asked, objects, solved>>
  <2> DEFINE h == asked[t]
  <2>1. /\ petscPc[t] = "lookup" /\ petscPc' = [petscPc EXCEPT ![t] = "solution"]
        /\ h \in live /\ target' = [target EXCEPT ![t] = h] /\ h \in 1..Len(plans)
        /\ UNCHANGED <<petscOnce, solving, plans, live, freed, asked, objects>>
      BY <1>2 DEF PetscGoto, planVars, PetscInv, PetscTypes
  <2>2. target[t] = 0
      BY <2>1 DEF PetscInv, HeldInv, WithPlan, WithObjects, Making
  <2>3. EntryInv'
      BY <2>1 DEF PetscInv, PetscTypes, EntryInv, Initialisation, WithMutex, WithPlan, WithObjects, Making
  <2>4. target' \in [Solvers -> 0..Len(plans)]
      BY <2>1 DEF PetscInv, PetscTypes
  <2>5. PetscTypes'
      BY <2>1, <2>4 DEF PetscInv, PetscTypes, PetscStages, WithMutex, WithPlan, WithObjects, Making
  <2>6. HeldInv'
      BY <2>1 DEF PetscInv, PetscTypes, HeldInv, WithPlan, WithObjects, Making
  <2>7. PetscPlanOutlivesSolve'
    <3> SUFFICES ASSUME NEW g \in DOMAIN plans
                 PROVE  g \in freed <=> g \notin live /\ \A u \in Solvers : target'[u] # g
        BY <2>1 DEF PetscPlanOutlivesSolve, Unused
    <3>1. g \in freed <=> g \notin live /\ \A u \in Solvers : target[u] # g
        BY DEF PetscInv, PetscPlanOutlivesSolve, Unused
    <3>2. g # 0
        BY DEF PetscInv, PetscTypes
    <3> QED
        BY <2>1, <2>2, <3>1, <3>2 DEF PetscInv, PetscTypes
  <2> QED
      BY <2>3, <2>5, <2>6, <2>7 DEF PetscInv
<1> QED
    BY <1>1, <1>2 DEF Lookup

LEMMA SolvingInv ==
    ASSUME PetscInv, NEW t \in Solvers,
           LockSolve(t) \/ Make(t) \/ PetscFails(t) \/ TaoSolve(t) \/ FreeObjects(t)
    PROVE  PetscInv'
<1> USE DEF PetscGoto
<1>1. PICK to \in PetscStages \ ({"create", "out"} \cup Initialisation) :
          petscPc' = [petscPc EXCEPT ![t] = to]
  <2>1. \A x \in Making : After(x) \in WithObjects
      BY DEF Making, After, WithObjects
  <2>2. "free" \in WithObjects /\ "leave" \in WithPlan /\ "lookup" \in WithMutex
      BY DEF WithObjects, WithPlan, WithMutex
  <2>3. WithObjects \subseteq WithPlan /\ WithPlan \subseteq WithMutex /\ WithMutex \subseteq PetscStages
      BY DEF WithPlan, WithMutex, PetscStages
  <2>4. WithMutex \cap ({"create", "out"} \cup Initialisation) = {}
      BY DEF WithMutex, WithPlan, WithObjects, Making, Initialisation
  <2>5. \E to \in WithMutex : petscPc' = [petscPc EXCEPT ![t] = to]
      BY <2>1, <2>2, <2>3 DEF LockSolve, Make, PetscFails, TaoSolve, FreeObjects
  <2> QED
      BY <2>3, <2>4, <2>5
<1>2. /\ UNCHANGED <<petscOnce, plans, live, freed, target, asked>>
      /\ LockSolve(t) \/ UNCHANGED solving
      /\ DOMAIN objects' = Solvers /\ \A u \in Solvers \ {t} : objects'[u] = objects[u]
    BY DEF LockSolve, Make, PetscFails, TaoSolve, FreeObjects, heldVars, planVars, PetscInv, PetscTypes
<1>3. \A u \in Solvers : petscPc'[u] \in {"create", "initCreate"} => asked'[u] \in DOMAIN Problems
    BY <1>1, <1>2 DEF PetscInv, PetscTypes, Initialisation
<1>4. petscOnce = "set" /\ solving' = t /\ (LockSolve(t) => solving = Nobody)
  <2>1. CASE LockSolve(t)
      BY <2>1 DEF LockSolve
  <2>2. CASE ~LockSolve(t)
    <3>1. petscPc[t] \in WithMutex
        BY <2>2 DEF Make, PetscFails, TaoSolve, FreeObjects, WithMutex, WithPlan, WithObjects
    <3> QED
        BY <1>2, <2>2, <3>1 DEF PetscInv, EntryInv
  <2> QED
      BY <2>1, <2>2
<1>5. EntryInv'
  <2>1. \A u \in Solvers \ {t} : petscPc[u] \in WithMutex => solving = u /\ ~LockSolve(t)
      BY <1>4, NobodyAssumption DEF PetscInv, EntryInv
  <2>2. \A u \in Solvers \ {t} : petscPc'[u] = petscPc[u] /\ petscPc'[t] = to
      BY <1>1 DEF PetscInv, PetscTypes
  <2>3. petscPc'[t] = to
      BY <1>1 DEF PetscInv, PetscTypes
  <2> QED
      BY <1>1, <1>2, <1>4, <2>1, <2>2, <2>3 DEF PetscInv, EntryInv
<1>6. (target[t] # 0 => to \in WithPlan) /\ (objects'[t] # {} => to \in WithObjects)
  <2>1. petscPc'[t] = to
      BY <1>1 DEF PetscInv, PetscTypes
  <2>2. CASE LockSolve(t)
      BY <2>2 DEF LockSolve, PetscInv, HeldInv, WithPlan, WithObjects, Making
  <2>3. CASE Make(t) \/ PetscFails(t) \/ TaoSolve(t)
    <3>1. \A x \in Making : After(x) \in WithObjects
        BY DEF Making, After, WithObjects
    <3> QED
        BY <2>1, <2>3, <3>1 DEF Make, PetscFails, TaoSolve, PetscInv, PetscTypes, WithPlan, WithObjects
  <2>4. CASE FreeObjects(t)
      BY <2>1, <2>4 DEF FreeObjects, PetscInv, PetscTypes, WithPlan
  <2> QED
      BY <2>2, <2>3, <2>4
<1> QED
    BY <1>1, <1>2, <1>3, <1>5, <1>6, MoveInv DEF planVars, PetscInv, PetscTypes

LEMMA LeaveInv == ASSUME PetscInv, NEW t \in Solvers, Leave(t) PROVE PetscInv'
<1>1. /\ petscPc[t] = "leave" /\ petscPc' = [petscPc EXCEPT ![t] = "out"]
      /\ freed' = IF target[t] \notin live /\ Unused(target[t], {t}) THEN freed \cup ({target[t]} \ {0}) ELSE freed
      /\ target' = [target EXCEPT ![t] = 0] /\ asked' = [asked EXCEPT ![t] = 0]
      /\ UNCHANGED <<petscOnce, plans, live, objects>>
    BY DEF Leave, PetscGoto
<1>2. solving = t /\ objects[t] = {}
    BY <1>1 DEF PetscInv, EntryInv, HeldInv, WithMutex, WithPlan, WithObjects, Making
<1>3. target[t] # 0 => target[t] \in DOMAIN plans
    BY DEF PetscInv, PetscTypes
<1>4. PetscTypes'
  <2>1. freed' \subseteq DOMAIN plans
      BY <1>1, <1>3 DEF PetscInv, PetscTypes
  <2>2. target' \in [Solvers -> 0..Len(plans)]
      BY <1>1 DEF PetscInv, PetscTypes
  <2> QED
      BY <1>1, <2>1, <2>2 DEF PetscInv, PetscTypes, PetscStages
<1>5. EntryInv'
  <2>1. \A u \in Solvers \ {t} : petscPc'[u] = petscPc[u] /\ petscPc[u] \notin WithMutex
      BY <1>1, <1>2 DEF PetscInv, PetscTypes, EntryInv
  <2>2. petscPc'[t] = "out"
      BY <1>1 DEF PetscInv, PetscTypes
  <2>3. "out" \notin WithMutex \cup Initialisation
      BY DEF WithMutex, WithPlan, WithObjects, Making, Initialisation
  <2> QED
      BY <1>1, <2>1, <2>2, <2>3 DEF PetscInv, EntryInv
<1>6. HeldInv'
    BY <1>1, <1>2 DEF PetscInv, PetscTypes, HeldInv
<1>7. PetscPlanOutlivesSolve'
  <2> SUFFICES ASSUME NEW h \in DOMAIN plans
               PROVE  h \in freed' <=> h \notin live /\ \A u \in Solvers : target'[u] # h
      BY <1>1 DEF PetscPlanOutlivesSolve, Unused
  <2>1. h \in freed <=> h \notin live /\ \A u \in Solvers : target[u] # h
      BY DEF PetscInv, PetscPlanOutlivesSolve, Unused
  <2>2. h # 0 /\ target'[t] = 0 /\ \A u \in Solvers \ {t} : target'[u] = target[u]
      BY <1>1 DEF PetscInv, PetscTypes
  <2>3. CASE target[t] = h
      BY <1>1, <2>1, <2>2, <2>3 DEF Unused
  <2>4. CASE target[t] # h
      BY <1>1, <2>1, <2>2, <2>4
  <2> QED
      BY <2>3, <2>4
<1> QED
    BY <1>4, <1>5, <1>6, <1>7 DEF PetscInv

LEMMA PetscNextInv == PetscInv /\ [PetscNext]_petscVars => PetscInv'
<1> SUFFICES ASSUME PetscInv, [PetscNext]_petscVars PROVE PetscInv'
    OBVIOUS
<1>1. ASSUME NEW t \in Solvers,
             \/ \E problem \in DOMAIN Problems : CreateCall(t, problem)
             \/ \E h \in DOMAIN plans : SolveCall(t, h)
             \/ EnterOnce(t) \/ PetscInitialize(t)
      PROVE  PetscInv'
    BY <1>1, EnteringInv
<1>2. ASSUME NEW t \in Solvers, RegisterPlan(t) PROVE PetscInv'
    BY <1>2, RegisterPlanInv
<1>3. ASSUME NEW t \in Solvers, Lookup(t) PROVE PetscInv'
    BY <1>3, LookupInv
<1>4. ASSUME NEW t \in Solvers, LockSolve(t) \/ Make(t) \/ PetscFails(t) \/ TaoSolve(t) \/ FreeObjects(t)
      PROVE  PetscInv'
    BY <1>4, SolvingInv
<1>5. ASSUME NEW t \in Solvers, Leave(t) PROVE PetscInv'
    BY <1>5, LeaveInv
<1>6. ASSUME NEW h \in live, DestroyPlan(h) PROVE PetscInv'
  <2>1. PetscTypes' /\ EntryInv' /\ HeldInv'
      BY <1>6 DEF DestroyPlan, heldVars, PetscInv, PetscTypes, EntryInv, HeldInv
  <2>2. PetscPlanOutlivesSolve'
      BY <1>6 DEF DestroyPlan, heldVars, PetscInv, PetscPlanOutlivesSolve, Unused
  <2> QED
      BY <2>1, <2>2 DEF PetscInv
<1>7. ASSUME UNCHANGED petscVars PROVE PetscInv'
    BY <1>7 DEF petscVars, PetscInv, PetscTypes, EntryInv, HeldInv, PetscPlanOutlivesSolve, Unused
<1> QED
    BY <1>1, <1>2, <1>3, <1>4, <1>5, <1>6, <1>7 DEF PetscNext

LEMMA PetscInvariant == PetscSpec => []PetscInv
<1>1. PetscInit => PetscInv
    BY PetscInitInv
<1>2. PetscInv /\ [PetscNext]_petscVars => PetscInv'
    BY PetscNextInv
<1> QED
    BY <1>1, <1>2, PTL DEF PetscSpec

\* PETSc never has two threads in it, from its initialisation on.
THEOREM PetscIsSerial == PetscSpec => []PetscCallsSerialized
<1>1. PetscInv => PetscCallsSerialized
  <2>1. \A t \in Solvers : InPetsc(t) => petscPc[t] \in WithMutex \cup Initialisation
      BY DEF InPetsc, WithMutex, WithPlan, WithObjects, Initialisation
  <2> QED
      BY <2>1 DEF PetscInv, EntryInv, PetscCallsSerialized
<1> QED
    BY <1>1, PetscInvariant, PTL

\* A plan lives exactly as long as the map or a solve has it.
LEMMA PetscPlanLifetime == PetscSpec => []PetscPlanOutlivesSolve
<1>1. PetscInv => PetscPlanOutlivesSolve
    BY DEF PetscInv
<1> QED
    BY <1>1, PetscInvariant, PTL

\* Objects exist only within a solve that has the mutex.
LEMMA PetscObjectsStayInside == PetscSpec => []PetscObjectsFreed
<1>1. PetscInv => PetscObjectsFreed
    BY DEF PetscInv, EntryInv, HeldInv, PetscObjectsFreed, WithMutex, WithPlan, WithObjects
<1> QED
    BY <1>1, PetscInvariant, PTL

\* Plans and objects are given back in time, for any number of threads and plans.
THEOREM PetscReleasesHold == PetscSpec => []PetscReleases
BY PetscPlanLifetime, PetscObjectsStayInside, PTL DEF PetscReleases

-----------------------------------------------------------------------------
(* PetscSolve, the callbacks.  The objective and the gradient are sums     *)
(* over the indices of a problem of any size, so what holds of them is     *)
(* shown by induction on the number of terms.                              *)

(* Sums of integers, found out one term at a time. *)

First(f, n) == [i \in 1..n |-> f[i]]

LEMMA SumStarts == \A f : Sum(First(f, 0)) = 0
<1> SUFFICES ASSUME NEW f PROVE Sum(First(f, 0)) = 0
    OBVIOUS
<1>1. First(f, 0) = <<>>
    BY DEF First
<1> QED
    BY <1>1, Summing!LoopEnds DEF Sum

LEMMA SumGoesOn ==
    ASSUME NEW f, NEW n \in Nat, \A i \in 1..n + 1 : f[i] \in Int
    PROVE  Sum(First(f, n + 1)) = Sum(First(f, n)) + f[n + 1]
<1> DEFINE s == First(f, n)
           x == f[n + 1]
<1>1. s \in [1..n -> Int] /\ x \in Int
    BY DEF First
<1>2. s \in Seq(Int) /\ Len(s) = n
    BY <1>1, SeqDef, LenProperties
<1>3. First(f, n + 1) = Append(s, x)
  <2>1. Append(s, x) \in Seq(Int) /\ Len(Append(s, x)) = n + 1 /\ Append(s, x)[n + 1] = x
        /\ \A i \in 1..n : Append(s, x)[i] = s[i]
      BY <1>1, <1>2, AppendProperties
  <2>2. Append(s, x) = [i \in 1..n + 1 |-> Append(s, x)[i]]
      BY <2>1, LenProperties
  <2>3. \A i \in 1..n + 1 : Append(s, x)[i] = f[i]
    <3>1. \A i \in 1..n : s[i] = f[i]
        BY DEF First
    <3> QED
        BY <2>1, <3>1
  <2> HIDE DEF s, x
  <2> QED
      BY <2>2, <2>3 DEF First
<1>4. Sum(Append(s, x)) = Plus(Sum(s), x)
  <2> HIDE DEF s, x
  <2> QED
      BY <1>1, <1>2, Summing!LoopGoesOn DEF Sum
<1> QED
    BY <1>3, <1>4 DEF Plus

LEMMA AllFirst == ASSUME NEW n \in Nat, NEW f \in [1..n -> Int] PROVE First(f, n) = f
BY DEF First

LEMMA SumInt == ASSUME NEW n \in Nat, NEW f \in [1..n -> Int] PROVE Sum(f) \in Int
<1> DEFINE T == {k \in Nat : k <= n => Sum(First(f, k)) \in Int}
<1>1. 0 \in T
    BY SumStarts
<1>2. ASSUME NEW k \in Nat, k \in T PROVE k + 1 \in T
  <2> SUFFICES ASSUME k + 1 <= n PROVE Sum(First(f, k + 1)) \in Int
      OBVIOUS
  <2>1. Sum(First(f, k)) \in Int /\ \A i \in 1..k + 1 : f[i] \in Int
      BY <1>2
  <2> QED
      BY <2>1, SumGoesOn
<1> HIDE DEF T
<1>3. n \in T
    BY <1>1, <1>2, Summing!Induction
<1> QED
    BY <1>3, AllFirst DEF T

LEMMA SumAdds ==
    ASSUME NEW n \in Nat, NEW f \in [1..n -> Int], NEW g \in [1..n -> Int], NEW h \in [1..n -> Int],
           \A i \in 1..n : h[i] = f[i] + g[i]
    PROVE  Sum(h) = Sum(f) + Sum(g)
<1> DEFINE S(t, k) == Sum(First(t, k))
           T == {k \in Nat : k <= n => S(f, k) \in Int /\ S(g, k) \in Int /\ S(h, k) = S(f, k) + S(g, k)}
<1>1. 0 \in T
    BY SumStarts
<1>2. ASSUME NEW k \in Nat, k \in T PROVE k + 1 \in T
  <2> SUFFICES ASSUME k + 1 <= n
               PROVE  S(f, k + 1) \in Int /\ S(g, k + 1) \in Int /\ S(h, k + 1) = S(f, k + 1) + S(g, k + 1)
      OBVIOUS
  <2>1. S(f, k) \in Int /\ S(g, k) \in Int /\ S(h, k) = S(f, k) + S(g, k)
      BY <1>2
  <2>2. \A i \in 1..k + 1 : i \in 1..n /\ f[i] \in Int /\ g[i] \in Int /\ h[i] \in Int
      OBVIOUS
  <2>3. /\ S(f, k + 1) = S(f, k) + f[k + 1] /\ S(g, k + 1) = S(g, k) + g[k + 1]
        /\ S(h, k + 1) = S(h, k) + h[k + 1]
      BY <2>2, SumGoesOn
  <2>4. f[k + 1] \in Int /\ g[k + 1] \in Int /\ h[k + 1] = f[k + 1] + g[k + 1]
      BY <2>2
  <2> HIDE DEF S
  <2> QED
      BY <2>1, <2>3, <2>4
<1> HIDE DEF T
<1>3. n \in T
    BY <1>1, <1>2, Summing!Induction
<1>4. First(f, n) = f /\ First(g, n) = g /\ First(h, n) = h
    BY AllFirst
<1> QED
    BY <1>3, <1>4 DEF T

LEMMA SumScales ==
    ASSUME NEW n \in Nat, NEW f \in [1..n -> Int], NEW c \in Int, NEW h \in [1..n -> Int],
           \A i \in 1..n : h[i] = c * f[i]
    PROVE  Sum(h) = c * Sum(f)
<1> DEFINE S(t, k) == Sum(First(t, k))
           T == {k \in Nat : k <= n => S(f, k) \in Int /\ S(h, k) = c * S(f, k)}
<1>1. 0 \in T
    BY SumStarts
<1>2. ASSUME NEW k \in Nat, k \in T PROVE k + 1 \in T
  <2> SUFFICES ASSUME k + 1 <= n
               PROVE  S(f, k + 1) \in Int /\ S(h, k + 1) = c * S(f, k + 1)
      OBVIOUS
  <2>1. S(f, k) \in Int /\ S(h, k) = c * S(f, k)
      BY <1>2
  <2>2. \A i \in 1..k + 1 : i \in 1..n /\ f[i] \in Int /\ h[i] \in Int
      OBVIOUS
  <2>3. S(f, k + 1) = S(f, k) + f[k + 1] /\ S(h, k + 1) = S(h, k) + h[k + 1]
      BY <2>2, SumGoesOn
  <2>4. f[k + 1] \in Int /\ h[k + 1] = c * f[k + 1]
      BY <2>2
  <2>5. \A a, b \in Int : c * (a + b) = c * a + c * b
      OBVIOUS
  <2> HIDE DEF S
  <2> QED
      BY <2>1, <2>3, <2>4, <2>5
<1> HIDE DEF T
<1>3. n \in T
    BY <1>1, <1>2, Summing!Induction
<1> QED
    BY <1>3, AllFirst DEF T

LEMMA SumNonnegative ==
    ASSUME NEW n \in Nat, NEW f \in [1..n -> Int], \A i \in 1..n : f[i] >= 0
    PROVE  Sum(f) >= 0
<1> DEFINE T == {k \in Nat : k <= n => Sum(First(f, k)) \in Int /\ Sum(First(f, k)) >= 0}
<1>1. 0 \in T
    BY SumStarts
<1>2. ASSUME NEW k \in Nat, k \in T PROVE k + 1 \in T
  <2> SUFFICES ASSUME k + 1 <= n PROVE Sum(First(f, k + 1)) \in Int /\ Sum(First(f, k + 1)) >= 0
      OBVIOUS
  <2>1. /\ Sum(First(f, k)) \in Int /\ Sum(First(f, k)) >= 0
        /\ \A i \in 1..k + 1 : f[i] \in Int /\ f[i] >= 0
      BY <1>2
  <2>2. Sum(First(f, k + 1)) = Sum(First(f, k)) + f[k + 1]
      BY <2>1, SumGoesOn
  <2> QED
      BY <2>1, <2>2
<1> HIDE DEF T
<1>3. n \in T
    BY <1>1, <1>2, Summing!Induction
<1> QED
    BY <1>3, AllFirst DEF T

\* The sum of a table by rows is its sum by columns.
LEMMA SumSwaps ==
    ASSUME NEW n \in Nat, NEW a \in [1..n -> [1..n -> Int]]
    PROVE  Sum([i \in 1..n |-> Sum([j \in 1..n |-> a[i][j]])]) = Sum([j \in 1..n |-> Sum([i \in 1..n |-> a[i][j]])])
<1> DEFINE rows == [i \in 1..n |-> Sum(a[i])]
           column(j) == [i \in 1..n |-> a[i][j]]
           columns(k) == [j \in 1..n |-> Sum(First(column(j), k))]
           T == {k \in Nat : k <= n => Sum(First(rows, k)) = Sum(columns(k))}
<1>1. rows \in [1..n -> Int]
    BY SumInt
<1>2. \A j \in 1..n : column(j) \in [1..n -> Int]
    OBVIOUS
<1>3. \A k \in 0..n : columns(k) \in [1..n -> Int]
  <2> SUFFICES ASSUME NEW k \in 0..n, NEW j \in 1..n PROVE Sum(First(column(j), k)) \in Int
      OBVIOUS
  <2>1. First(column(j), k) \in [1..k -> Int]
      BY DEF First
  <2> HIDE DEF column
  <2> QED
      BY <2>1, SumInt
<1>4. 0 \in T
  <2> DEFINE zeros == [j \in 1..n |-> 0]
  <2>1. columns(0) = zeros
      BY SumStarts
  <2>2. zeros \in [1..n -> Int] /\ \A i \in 1..n : zeros[i] = zeros[i] + zeros[i]
      OBVIOUS
  <2> HIDE DEF zeros, columns
  <2>3. Sum(zeros) = Sum(zeros) + Sum(zeros) /\ Sum(zeros) \in Int
      BY <2>2, SumAdds, SumInt
  <2>4. Sum(columns(0)) = 0
      BY <2>1, <2>3
  <2> QED
      BY <2>1, <2>4, SumStarts
<1>5. ASSUME NEW k \in Nat, k \in T PROVE k + 1 \in T
  <2> SUFFICES ASSUME k + 1 <= n PROVE Sum(First(rows, k + 1)) = Sum(columns(k + 1))
      OBVIOUS
  <2>1. Sum(First(rows, k)) = Sum(columns(k))
      BY <1>5
  <2>2. a[k + 1] \in [1..n -> Int] /\ k + 1 \in 1..n
      OBVIOUS
  <2>3. \A j \in 1..n : Sum(First(column(j), k + 1)) = Sum(First(column(j), k)) + a[k + 1][j]
    <3> SUFFICES ASSUME NEW j \in 1..n
                 PROVE  Sum(First(column(j), k + 1)) = Sum(First(column(j), k)) + a[k + 1][j]
        OBVIOUS
    <3>1. column(j)[k + 1] = a[k + 1][j] /\ \A i \in 1..k + 1 : column(j)[i] \in Int
        BY <1>2, <2>2
    <3> HIDE DEF column
    <3> QED
        BY <3>1, SumGoesOn
  <2>4. \A j \in 1..n : columns(k + 1)[j] = columns(k)[j] + a[k + 1][j]
      BY <2>3
  <2>5. columns(k) \in [1..n -> Int] /\ columns(k + 1) \in [1..n -> Int]
    <3>1. k \in 0..n /\ k + 1 \in 0..n
        OBVIOUS
    <3> HIDE DEF columns
    <3> QED
        BY <1>3, <3>1
  <2>6. Sum(First(rows, k + 1)) = Sum(First(rows, k)) + Sum(a[k + 1])
    <3>1. rows[k + 1] = Sum(a[k + 1]) /\ \A i \in 1..k + 1 : rows[i] \in Int
        BY <1>1, <2>2
    <3> HIDE DEF rows
    <3> QED
        BY <3>1, SumGoesOn
  <2> HIDE DEF columns, rows
  <2>7. Sum(columns(k + 1)) = Sum(columns(k)) + Sum(a[k + 1])
      BY ONLY <2>2, <2>4, <2>5, SumAdds
  <2> QED
      BY <2>1, <2>5, <2>6, <2>7
<1>6. n \in T
  <2> HIDE DEF T
  <2> QED
      BY <1>4, <1>5, Summing!Induction
<1>7. Sum(rows) = Sum([j \in 1..n |-> Sum(column(j))])
  <2>1. \A j \in 1..n : First(column(j), n) = column(j)
      BY <1>2, AllFirst
  <2>2. columns(n) = [j \in 1..n |-> Sum(column(j))]
      BY <2>1
  <2>3. First(rows, n) = rows
      BY <1>1, AllFirst
  <2>4. Sum(First(rows, n)) = Sum(columns(n))
      BY <1>6 DEF T
  <2> HIDE DEF rows, column, columns
  <2> QED
      BY <2>2, <2>3, <2>4
<1>8. \A i \in 1..n : [j \in 1..n |-> a[i][j]] = a[i]
    OBVIOUS
<1> QED
    BY <1>7, <1>8

(* The objective of a problem along the way from one point to another. *)

IsProblem(p) ==
    /\ p.linear \in Seq(Int) /\ p.hessian \in [Indices(p) -> [Indices(p) -> Int]]
    /\ p.lower \in [Indices(p) -> Int] /\ p.upper \in [Indices(p) -> Int]
    /\ \A i, j \in Indices(p) : p.hessian[i][j] = p.hessian[j][i]

LEMMA ProblemsAreProblems == \A k \in DOMAIN Problems : IsProblem(Problems[k])
<1> SUFFICES ASSUME NEW k \in DOMAIN Problems PROVE IsProblem(Problems[k])
    OBVIOUS
<1>1. Problems[k].linear \in Seq(Int)
    BY ProblemsAssumption
<1>2. Indices(Problems[k]) = 1..Len(Problems[k].linear)
    BY <1>1 DEF Indices
<1> QED
    BY <1>2, ProblemsAssumption DEF IsProblem

LEMMA IndicesOf == ASSUME NEW p, IsProblem(p) PROVE \E n \in Nat : Indices(p) = 1..n
BY DEF IsProblem, Indices

LEMMA RowInt ==
    ASSUME NEW p, IsProblem(p), NEW x \in [Indices(p) -> Int], NEW i \in Indices(p)
    PROVE  Row(p, x, i) \in Int
<1> DEFINE terms == [j \in Indices(p) |-> p.hessian[i][j] * x[j]]
<1>1. terms \in [Indices(p) -> Int]
    BY DEF IsProblem
<1>2. Sum(terms) \in Int
  <2> HIDE DEF terms
  <2> QED
      BY <1>1, IndicesOf, SumInt
<1> QED
    BY <1>2 DEF Row

LEMMA RowAdds ==
    ASSUME NEW p, IsProblem(p), NEW x \in [Indices(p) -> Int], NEW u \in [Indices(p) -> Int],
           NEW y \in [Indices(p) -> Int], \A i \in Indices(p) : y[i] = x[i] + u[i],
           NEW i \in Indices(p)
    PROVE  Row(p, y, i) = Row(p, x, i) + Row(p, u, i)
<1> DEFINE terms(z) == [j \in Indices(p) |-> p.hessian[i][j] * z[j]]
<1>1. /\ terms(x) \in [Indices(p) -> Int] /\ terms(u) \in [Indices(p) -> Int]
      /\ terms(y) \in [Indices(p) -> Int]
    BY DEF IsProblem
<1>2. \A j \in Indices(p) : terms(y)[j] = terms(x)[j] + terms(u)[j]
  <2> SUFFICES ASSUME NEW j \in Indices(p)
               PROVE  p.hessian[i][j] * y[j] = p.hessian[i][j] * x[j] + p.hessian[i][j] * u[j]
      OBVIOUS
  <2>1. p.hessian[i][j] \in Int /\ x[j] \in Int /\ u[j] \in Int /\ y[j] = x[j] + u[j]
      BY DEF IsProblem
  <2>2. \A c, a, b \in Int : c * (a + b) = c * a + c * b
      OBVIOUS
  <2> QED
      BY <2>1, <2>2
<1>3. Sum(terms(y)) = Sum(terms(x)) + Sum(terms(u))
  <2>1. PICK n \in Nat : Indices(p) = 1..n
      BY IndicesOf
  <2> DEFINE f == terms(x)
             g == terms(u)
             h == terms(y)
  <2>2. /\ f \in [1..n -> Int] /\ g \in [1..n -> Int] /\ h \in [1..n -> Int]
        /\ \A j \in 1..n : h[j] = f[j] + g[j]
      BY <1>1, <1>2, <2>1
  <2> HIDE DEF f, g, h
  <2>3. Sum(h) = Sum(f) + Sum(g)
      BY <2>2, SumAdds
  <2> QED
      BY <2>3 DEF f, g, h
<1> QED
    BY <1>3 DEF Row

\* The quadratic form of a symmetric matrix takes its arguments in any order.
LEMMA FormIsSymmetric ==
    ASSUME NEW p, IsProblem(p), NEW x \in [Indices(p) -> Int], NEW u \in [Indices(p) -> Int]
    PROVE  Sum([i \in Indices(p) |-> x[i] * Row(p, u, i)]) = Sum([i \in Indices(p) |-> u[i] * Row(p, x, i)])
<1> DEFINE I == Indices(p)
           a == [i \in I |-> [j \in I |-> x[i] * (p.hessian[i][j] * u[j])]]
<1>1. PICK n \in Nat : I = 1..n
    BY IndicesOf
<1>2. \A i, j \in I : p.hessian[i][j] \in Int /\ p.hessian[i][j] = p.hessian[j][i] /\ x[i] \in Int /\ u[i] \in Int
    BY DEF IsProblem
<1>3. a \in [I -> [I -> Int]]
    BY <1>2
<1>4. ASSUME NEW i \in I PROVE Sum([j \in I |-> a[i][j]]) = x[i] * Row(p, u, i)
  <2> DEFINE f == [j \in I |-> p.hessian[i][j] * u[j]]
             h == [j \in I |-> a[i][j]]
  <2>1. /\ f \in [I -> Int] /\ h \in [I -> Int] /\ x[i] \in Int
        /\ \A j \in I : h[j] = x[i] * f[j]
      BY <1>2, <1>3
  <2>2. Sum(h) = x[i] * Sum(f)
    <3> HIDE DEF f, h, I
    <3> QED
        BY <1>1, <2>1, SumScales
  <2> QED
      BY <2>2 DEF Row
<1>5. ASSUME NEW j \in I PROVE Sum([i \in I |-> a[i][j]]) = u[j] * Row(p, x, j)
  <2> DEFINE f == [i \in I |-> p.hessian[j][i] * x[i]]
             h == [i \in I |-> a[i][j]]
  <2>1. f \in [I -> Int] /\ h \in [I -> Int] /\ u[j] \in Int
      BY <1>2, <1>3
  <2>2. \A i \in I : h[i] = u[j] * f[i]
    <3> SUFFICES ASSUME NEW i \in I
                 PROVE  x[i] * (p.hessian[i][j] * u[j]) = u[j] * (p.hessian[j][i] * x[i])
        OBVIOUS
    <3>1. \A b, c, d \in Int : b * (c * d) = d * (c * b)
        OBVIOUS
    <3> QED
        BY <1>2, <3>1
  <2>3. Sum(h) = u[j] * Sum(f)
    <3> HIDE DEF f, h, I
    <3> QED
        BY <1>1, <2>1, <2>2, SumScales
  <2> QED
      BY <2>3 DEF Row
<1>6. Sum([i \in I |-> Sum([j \in I |-> a[i][j]])]) = Sum([j \in I |-> Sum([i \in I |-> a[i][j]])])
  <2> HIDE DEF a, I
  <2> QED
      BY <1>1, <1>3, SumSwaps
<1>7. [i \in I |-> Sum([j \in I |-> a[i][j]])] = [i \in I |-> x[i] * Row(p, u, i)]
  <2> HIDE DEF a, I
  <2> QED
      BY <1>4
<1>8. [j \in I |-> Sum([i \in I |-> a[i][j]])] = [i \in I |-> u[i] * Row(p, x, i)]
  <2> HIDE DEF a, I
  <2> QED
      BY <1>5
<1> HIDE DEF a
<1> QED
    BY <1>6, <1>7, <1>8

\* What is left between two points: the gradient at the first, and the curvature on the way.
LEMMA ObjectiveFrom ==
    ASSUME NEW p, IsProblem(p), NEW x \in [Indices(p) -> Int], NEW u \in [Indices(p) -> Int],
           NEW y \in [Indices(p) -> Int], \A i \in Indices(p) : y[i] = x[i] + u[i]
    PROVE  DoubledObjective(p, y) =
               DoubledObjective(p, x) + Sum([i \in Indices(p) |-> 2 * (u[i] * Gradient(p, x)[i])]) + Curvature(p, u)
<1> DEFINE I == Indices(p)
           c == p.linear
           A == [i \in I |-> x[i] * Row(p, x, i) + 2 * c[i] * x[i]]
           B == [i \in I |-> x[i] * Row(p, u, i)]
           C == [i \in I |-> u[i] * Row(p, x, i)]
           D == [i \in I |-> 2 * c[i] * u[i]]
           E == [i \in I |-> u[i] * Row(p, u, i)]
           AB == [i \in I |-> A[i] + B[i]]
           CD == [i \in I |-> C[i] + D[i]]
           CDE == [i \in I |-> CD[i] + E[i]]
           G == [i \in I |-> 2 * (u[i] * Gradient(p, x)[i])]
           Y == [i \in I |-> y[i] * Row(p, y, i) + 2 * c[i] * y[i]]
<1>1. PICK n \in Nat : I = 1..n
    BY IndicesOf
<1>2. \A i \in I : /\ x[i] \in Int /\ u[i] \in Int /\ c[i] \in Int /\ y[i] = x[i] + u[i] /\ y[i] \in Int
                   /\ Row(p, x, i) \in Int /\ Row(p, u, i) \in Int
                   /\ Row(p, y, i) = Row(p, x, i) + Row(p, u, i)
  <2>1. \A i \in I : c[i] \in Int
      BY DEF IsProblem, Indices
  <2> QED
      BY <2>1, RowInt, RowAdds
<1>3. /\ A \in [I -> Int] /\ B \in [I -> Int] /\ C \in [I -> Int] /\ D \in [I -> Int] /\ E \in [I -> Int]
  <2> HIDE DEF I, c
  <2> QED
      BY <1>2
<1>4. AB \in [I -> Int] /\ CD \in [I -> Int]
  <2> HIDE DEF I, A, B, C, D
  <2> QED
      BY <1>3
<1>5. CDE \in [I -> Int]
  <2> HIDE DEF I, CD, E
  <2> QED
      BY <1>3, <1>4
<1>6. G \in [I -> Int] /\ \A i \in I : G[i] = C[i] + CD[i]
  <2> SUFFICES ASSUME NEW i \in I
               PROVE  G[i] \in Int /\ G[i] = C[i] + CD[i]
      OBVIOUS
  <2> DEFINE r == Row(p, x, i)
  <2>1. G[i] = 2 * (u[i] * (r + c[i])) /\ C[i] = u[i] * r /\ CD[i] = u[i] * r + 2 * c[i] * u[i]
      BY DEF Gradient
  <2>2. u[i] \in Int /\ r \in Int /\ c[i] \in Int
      BY <1>2
  <2>3. \A v, s, d \in Int : 2 * (v * (s + d)) = v * s + (v * s + 2 * d * v)
      OBVIOUS
  <2> HIDE DEF G, C, CD, r, c
  <2> QED
      BY <2>1, <2>2, <2>3
<1>7. Y \in [I -> Int] /\ \A i \in I : Y[i] = AB[i] + CDE[i]
  <2> SUFFICES ASSUME NEW i \in I
               PROVE  Y[i] \in Int /\ Y[i] = AB[i] + CDE[i]
      OBVIOUS
  <2> DEFINE r == Row(p, x, i)
             q == Row(p, u, i)
  <2>1. /\ AB[i] = (x[i] * r + 2 * c[i] * x[i]) + x[i] * q
        /\ CDE[i] = (u[i] * r + 2 * c[i] * u[i]) + u[i] * q
      OBVIOUS
  <2>2. Y[i] = (x[i] + u[i]) * (r + q) + 2 * c[i] * (x[i] + u[i])
    <3>1. Y[i] = y[i] * Row(p, y, i) + 2 * c[i] * y[i]
        OBVIOUS
    <3> HIDE DEF Y
    <3> QED
        BY <1>2, <3>1
  <2>3. x[i] \in Int /\ u[i] \in Int /\ r \in Int /\ q \in Int /\ c[i] \in Int
      BY <1>2
  <2>4. \A v, w, s, t, d \in Int :
            (v + w) * (s + t) + 2 * d * (v + w) = ((v * s + 2 * d * v) + v * t) + ((w * s + 2 * d * w) + w * t)
      OBVIOUS
  <2> HIDE DEF Y, AB, CDE, r, q, c
  <2> QED
      BY <2>1, <2>2, <2>3, <2>4
<1>8. /\ \A i \in I : AB[i] = A[i] + B[i] /\ CD[i] = C[i] + D[i] /\ CDE[i] = CD[i] + E[i]
  <2> HIDE DEF A, B, C, D, E, I
  <2> QED
      OBVIOUS
<1>9. Sum(B) = Sum(C)
    BY FormIsSymmetric
<1>10. /\ DoubledObjective(p, y) = Sum(Y) /\ DoubledObjective(p, x) = Sum(A) /\ Curvature(p, u) = Sum(E)
    BY DEF DoubledObjective, Curvature
<1> HIDE DEF I, A, B, C, D, E, AB, CD, CDE, G, Y
<1>11. /\ Sum(Y) = Sum(AB) + Sum(CDE) /\ Sum(AB) = Sum(A) + Sum(B)
       /\ Sum(CDE) = Sum(CD) + Sum(E) /\ Sum(G) = Sum(C) + Sum(CD)
  <2>1. Sum(Y) = Sum(AB) + Sum(CDE)
    <3>1. AB \in [1..n -> Int] /\ CDE \in [1..n -> Int] /\ Y \in [1..n -> Int]
        BY <1>1, <1>4, <1>5, <1>7
    <3>2. \A i \in 1..n : Y[i] = AB[i] + CDE[i]
        BY <1>1, <1>7
    <3> QED
        BY ONLY <1>1, <3>1, <3>2, SumAdds
  <2>2. Sum(AB) = Sum(A) + Sum(B)
    <3>1. A \in [1..n -> Int] /\ B \in [1..n -> Int] /\ AB \in [1..n -> Int]
        BY <1>1, <1>3, <1>4
    <3>2. \A i \in 1..n : AB[i] = A[i] + B[i]
        BY <1>1, <1>8
    <3> QED
        BY ONLY <1>1, <3>1, <3>2, SumAdds
  <2>3. Sum(CDE) = Sum(CD) + Sum(E)
    <3>1. CD \in [1..n -> Int] /\ E \in [1..n -> Int] /\ CDE \in [1..n -> Int]
        BY <1>1, <1>3, <1>4, <1>5
    <3>2. \A i \in 1..n : CDE[i] = CD[i] + E[i]
        BY <1>1, <1>8
    <3> QED
        BY ONLY <1>1, <3>1, <3>2, SumAdds
  <2>4. Sum(G) = Sum(C) + Sum(CD)
    <3>1. C \in [1..n -> Int] /\ CD \in [1..n -> Int] /\ G \in [1..n -> Int]
        BY <1>1, <1>3, <1>4, <1>6
    <3>2. \A i \in 1..n : G[i] = C[i] + CD[i]
        BY <1>1, <1>6
    <3> QED
        BY ONLY <1>1, <3>1, <3>2, SumAdds
  <2> QED
      BY <2>1, <2>2, <2>3, <2>4
<1>12. /\ Sum(A) \in Int /\ Sum(B) \in Int /\ Sum(C) \in Int /\ Sum(CD) \in Int /\ Sum(E) \in Int
    BY <1>1, <1>3, <1>4, SumInt
<1>13. Sum(Y) = Sum(A) + Sum(G) + Sum(E)
    BY <1>9, <1>11, <1>12
<1> QED
    BY <1>10, <1>13 DEF G, I

\* Where no component of the gradient points into the box, a convex objective has its least value.
LEMMA StationaryIsLeast ==
    ASSUME NEW p, IsProblem(p), Convex(p), NEW x \in Box(p), Stationary(p, x), NEW y \in Box(p)
    PROVE  DoubledObjective(p, x) <= DoubledObjective(p, y)
<1> DEFINE I == Indices(p)
           u == [i \in I |-> y[i] - x[i]]
           G == [i \in I |-> 2 * (u[i] * Gradient(p, x)[i])]
<1>1. PICK n \in Nat : I = 1..n
    BY IndicesOf
<1>2. /\ x \in [I -> Int] /\ y \in [I -> Int]
      /\ \A i \in I : p.lower[i] <= y[i] /\ y[i] <= p.upper[i]
      /\ \A i \in I : p.lower[i] \in Int /\ p.upper[i] \in Int
  <2>1. \A i \in I : p.lower[i] \in Int /\ p.upper[i] \in Int
      BY DEF IsProblem
  <2>2. \A z \in Box(p) : \A i \in I : z[i] \in p.lower[i]..p.upper[i]
      BY DEF Box
  <2>3. \A z \in Box(p) : z = [i \in I |-> z[i]]
      BY DEF Box
  <2>4. \A z \in Box(p) : z \in [I -> Int]
      BY <2>1, <2>2, <2>3
  <2> QED
      BY <2>1, <2>2, <2>4
<1>3. u \in [I -> Int] /\ \A i \in I : y[i] = x[i] + u[i] /\ u[i] = y[i] - x[i]
    BY <1>2
<1>4. \A i \in I : p.linear[i] \in Int /\ Row(p, x, i) \in Int /\ Gradient(p, x)[i] \in Int
  <2>1. \A i \in I : p.linear[i] \in Int
      BY DEF IsProblem, Indices
  <2>2. \A i \in I : Row(p, x, i) \in Int
      BY <1>2, RowInt
  <2> QED
      BY <2>1, <2>2 DEF Gradient
<1>5. G \in [I -> Int] /\ \A i \in I : G[i] >= 0
  <2> SUFFICES ASSUME NEW i \in I PROVE G[i] \in Int /\ G[i] >= 0
      OBVIOUS
  <2> DEFINE g == Gradient(p, x)[i]
             v == u[i]
  <2>1. g \in Int /\ v \in Int /\ G[i] = 2 * (v * g)
      BY <1>3, <1>4
  <2>2. (v > 0 => g >= 0) /\ (v < 0 => g <= 0)
    <3>1. /\ x[i] < p.upper[i] => g >= 0
          /\ x[i] > p.lower[i] => g <= 0
        BY DEF Stationary
    <3>2. x[i] \in Int /\ y[i] \in Int /\ v = y[i] - x[i] /\ p.lower[i] <= y[i] /\ y[i] <= p.upper[i]
          /\ p.lower[i] \in Int /\ p.upper[i] \in Int
        BY <1>2
    <3> HIDE DEF g, v
    <3> QED
        BY <3>1, <3>2
  <2>3. \A a, b \in Int : (a > 0 => b >= 0) /\ (a < 0 => b <= 0) => 2 * (a * b) >= 0 /\ 2 * (a * b) \in Int
      OBVIOUS
  <2> HIDE DEF g, v, G
  <2> QED
      BY <2>1, <2>2, <2>3
<1>6. Sum(G) \in Int /\ Sum(G) >= 0
  <2> HIDE DEF G, I
  <2> QED
      BY <1>1, <1>5, SumInt, SumNonnegative
<1>7. Curvature(p, u) >= 0
    BY DEF Convex
<1>8. DoubledObjective(p, y) = DoubledObjective(p, x) + Sum(G) + Curvature(p, u)
  <2> HIDE DEF u
  <2> QED
      BY <1>2, <1>3, ObjectiveFrom
<1>9. DoubledObjective(p, x) \in Int /\ Curvature(p, u) \in Int
  <2> DEFINE A == [i \in I |-> x[i] * Row(p, x, i) + 2 * p.linear[i] * x[i]]
             E == [i \in I |-> u[i] * Row(p, u, i)]
  <2> HIDE DEF u
  <2>1. A \in [I -> Int] /\ E \in [I -> Int]
      BY <1>2, <1>3, <1>4, RowInt
  <2>2. DoubledObjective(p, x) = Sum(A) /\ Curvature(p, u) = Sum(E)
      BY DEF DoubledObjective, Curvature
  <2> HIDE DEF A, E, I
  <2> QED
      BY <1>1, <2>1, <2>2, SumInt
<1> HIDE DEF G, u
<1> QED
    BY <1>6, <1>7, <1>8, <1>9

-----------------------------------------------------------------------------
(* PetscSolve, what a solve answers.                                       *)

IsMinimum(result) ==
    /\ result.problem \in DOMAIN Problems
    /\ LET p == Problems[result.problem]
       IN  \E x \in Box(p) : Stationary(p, x) /\ result.objective = DoubledObjective(p, x)

\* A thread that works on a problem has the plan it comes from; what was answered last as converged
\* is the objective of a point TAO may stop at.
SolvedInv ==
    /\ \A t \in Solvers : petscPc[t] \in WithObjects => target[t] # 0
    /\ solved.converged => IsMinimum(solved)

LEMMA SolvedInitInv == PetscInit => SolvedInv
BY DEF PetscInit, SolvedInv, NoResult, WithObjects, Making

LEMMA TaoSolveInv == ASSUME PetscInv, SolvedInv, NEW t \in Solvers, TaoSolve(t) PROVE SolvedInv'
<1> DEFINE k == plans[target[t]]
           p == Problems[k]
<1>1. /\ petscPc[t] = "taoSolve" /\ petscPc' = [petscPc EXCEPT ![t] = "free"] /\ UNCHANGED target
    BY DEF TaoSolve, PetscGoto, heldVars
<1>2. PICK x \in Box(p), converged \in BOOLEAN :
          /\ converged => Stationary(p, x)
          /\ solved' = [problem |-> k, objective |-> DoubledObjective(p, x), converged |-> converged]
    BY DEF TaoSolve
<1>3. target[t] # 0
    BY <1>1 DEF SolvedInv, WithObjects
<1>4. k \in DOMAIN Problems
    BY <1>3 DEF PetscInv, PetscTypes
<1>5. solved'.problem = k /\ solved'.objective = DoubledObjective(p, x) /\ solved'.converged = converged
    BY <1>2
<1>6. solved'.converged => IsMinimum(solved')
    BY <1>2, <1>4, <1>5 DEF IsMinimum
<1>7. \A u \in Solvers : petscPc'[u] \in WithObjects => target'[u] # 0
    BY <1>1, <1>3 DEF SolvedInv, PetscInv, PetscTypes
<1> QED
    BY <1>6, <1>7 DEF SolvedInv

LEMMA SolvedNextInv == PetscInv /\ SolvedInv /\ [PetscNext]_petscVars => SolvedInv'
<1> SUFFICES ASSUME PetscInv, SolvedInv, [PetscNext]_petscVars PROVE SolvedInv'
    OBVIOUS
\* No other step answers: it is enough that a thread with a plan to work on has one.
<1>0. ASSUME UNCHANGED solved, \A u \in Solvers : petscPc'[u] \in WithObjects => target'[u] # 0
      PROVE  SolvedInv'
    BY <1>0 DEF SolvedInv
<1>1. ASSUME NEW t \in Solvers, NEW to, to \notin WithObjects, petscPc' = [petscPc EXCEPT ![t] = to],
             UNCHANGED solved, \A u \in Solvers \ {t} : target'[u] = target[u]
      PROVE  SolvedInv'
    BY <1>0, <1>1 DEF SolvedInv, PetscInv, PetscTypes
<1> USE DEF PetscGoto, heldVars, WithObjects, Making
<1>2. ASSUME NEW t \in Solvers,
             \/ \E problem \in DOMAIN Problems : CreateCall(t, problem)
             \/ \E h \in DOMAIN plans : SolveCall(t, h)
             \/ EnterOnce(t) \/ PetscInitialize(t) \/ RegisterPlan(t) \/ LockSolve(t)
      PROVE  SolvedInv'
  <2>1. UNCHANGED <<solved, target>>
      BY <1>2 DEF CreateCall, SolveCall, EnterCall, EnterOnce, PetscInitialize, RegisterPlan, LockSolve
  <2>2. PICK to \in {"create", "solve", "initCreate", "initSolve", "out", "lookup"} :
          petscPc' = [petscPc EXCEPT ![t] = to]
      BY <1>2 DEF CreateCall, SolveCall, EnterCall, EnterOnce, PetscInitialize, RegisterPlan, LockSolve
  <2> QED
      BY <1>1, <2>1, <2>2
<1>3. ASSUME NEW t \in Solvers, Lookup(t) PROVE SolvedInv'
  <2>1. CASE /\ asked[t] \in live
             /\ PetscGoto(t, "lookup", "solution")
             /\ target' = [target EXCEPT ![t] = asked[t]]
             /\ UNCHANGED <<petscOnce, petscUp, solving, planVars, asked, objects, solved>>
    <3>1. asked[t] # 0
        BY <2>1 DEF PetscInv, PetscTypes
    <3> QED
        BY <1>0, <2>1, <3>1 DEF SolvedInv, PetscInv, PetscTypes
  <2>2. CASE /\ asked[t] \notin live
             /\ PetscGoto(t, "lookup", "leave")
             /\ UNCHANGED <<petscOnce, petscUp, heldVars, planVars, asked, solved>>
      BY <1>1, <2>2
  <2> QED
      BY <1>3, <2>1, <2>2 DEF Lookup
<1>4. ASSUME NEW t \in Solvers, Make(t) \/ PetscFails(t) PROVE SolvedInv'
  <2>1. UNCHANGED <<solved, target>> /\ petscPc[t] \in WithObjects
      BY <1>4 DEF Make, PetscFails
  <2>2. \A u \in Solvers \ {t} : petscPc'[u] = petscPc[u]
    <3>1. petscPc' = [petscPc EXCEPT ![t] = petscPc'[t]]
        BY <1>4 DEF Make, PetscFails, PetscInv, PetscTypes
    <3> QED
        BY <3>1 DEF PetscInv, PetscTypes
  <2> QED
      BY <1>0, <2>1, <2>2 DEF SolvedInv
<1>5. ASSUME NEW t \in Solvers, TaoSolve(t) PROVE SolvedInv'
    BY <1>5, TaoSolveInv
<1>6. ASSUME NEW t \in Solvers, FreeObjects(t) PROVE SolvedInv'
    BY <1>1, <1>6 DEF FreeObjects
<1>7. ASSUME NEW t \in Solvers, Leave(t) PROVE SolvedInv'
  <2>1. \A u \in Solvers \ {t} : target'[u] = target[u]
      BY <1>7 DEF Leave
  <2> QED
      BY <1>1, <1>7, <2>1 DEF Leave
<1>8. ASSUME NEW h \in live, DestroyPlan(h) PROVE SolvedInv'
    BY <1>0, <1>8 DEF DestroyPlan, SolvedInv
<1>9. ASSUME UNCHANGED petscVars PROVE SolvedInv'
    BY <1>0, <1>9 DEF petscVars, SolvedInv
<1> QED
    BY <1>2, <1>3, <1>4, <1>5, <1>6, <1>7, <1>8, <1>9 DEF PetscNext

LEMMA SolvedInvariant == PetscSpec => []SolvedInv
<1>1. PetscInit => SolvedInv
    BY SolvedInitInv
<1>2. PetscInv /\ SolvedInv /\ [PetscNext]_petscVars => SolvedInv'
    BY SolvedNextInv
<1> QED
    BY <1>1, <1>2, PetscInvariant, PTL DEF PetscSpec

\* For problems of any dimension: what a converged solve of a convex problem answers is the least
\* value the objective has in the box.
THEOREM ConvexSolvesAreMinimal == PetscSpec => []ConvexProblemsMinimised
<1>1. SolvedInv => ConvexProblemsMinimised
  <2> SUFFICES ASSUME SolvedInv, solved.converged, Convex(Problems[solved.problem]),
                      NEW y \in Box(Problems[solved.problem])
               PROVE  solved.objective <= DoubledObjective(Problems[solved.problem], y)
      BY DEF ConvexProblemsMinimised
  <2>1. solved.problem \in DOMAIN Problems
      BY DEF SolvedInv, IsMinimum
  <2>2. PICK x \in Box(Problems[solved.problem]) :
          /\ Stationary(Problems[solved.problem], x)
          /\ solved.objective = DoubledObjective(Problems[solved.problem], x)
      BY DEF SolvedInv, IsMinimum
  <2> QED
      BY <2>1, <2>2, ProblemsAreProblems, StationaryIsLeast
<1> QED
    BY <1>1, SolvedInvariant, PTL

==============================================================================
