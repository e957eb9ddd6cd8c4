---------------------------- MODULE TorchTraining ----------------------------
(***************************************************************************)
(* Training on a native LibTorch plan: what the plan keeps between calls   *)
(* besides its program.  A run in training mode leaves its slots in        *)
(* last_slots; backward starts from one of them and gives gradients to the *)
(* parameters that flow into it; a step of the optimizer moves the         *)
(* parameters that have one and keeps its moments under the ADDRESS of the *)
(* parameter inside the operations vector.  The calls come one at a time,  *)
(* in any order: TrainingPlan is about the lock that sees to that.         *)
(*                                                                         *)
(* The numbers are left out: a gradient is undefined, zero or a sum.       *)
(* adamOnly remembers how the plan was trained and is read by no action.   *)
(***************************************************************************)
EXTENDS TorchProgram

CONSTANTS
    Additions,  \* the operations the callers add
    Slots, MaxOps, MaxSteps

ASSUME SlotsAssumption == Slots \subseteq Nat /\ 0 \in Slots
ASSUME BoundsAssumption == MaxOps \in Nat /\ MaxSteps \in Nat

VARIABLES
    training,   \* Plan::training
    kept,       \* Plan::last_slots, the batch they are of, and whether backward used up their graph
    grads,      \* the parameters whose grad() is defined: "zero" or "sum"
    storage,    \* where the operations vector has its elements
    moments,    \* adam_m and adam_v: the steps each address has seen
    velocity,   \* momentum_buffers: their addresses
    stepCount,  \* Plan::step_count
    adamOnly    \* all steps were Adam's, the first on a sealed plan with every gradient

trainingVars == <<training, kept, grads, storage, moments, velocity, stepCount, adamOnly>>
torchVars == <<programVars, trainingVars>>

NoRun == [slots |-> Thrown, batch |-> 0, spent |-> FALSE]

TrainingInit ==
    /\ ProgramInit(2)
    /\ training = FALSE /\ kept = NoRun
    /\ grads = <<>> /\ storage = 0
    /\ moments = <<>> /\ velocity = {} /\ stepCount = 0
    /\ adamOnly = TRUE

\* @@, with a definition to prove from.
Override(f, g) == [x \in DOMAIN f \cup DOMAIN g |-> IF x \in DOMAIN f THEN f[x] ELSE g[x]]

\* get_trainable_params: the k-th operation's own tensors, in this order.
Trainable == {"affine", "matrix_product", "layer_norm", "rms_norm"}
Params == {p \in (DOMAIN ops) \X {1, 2} : ops[p[1]].kind \in Trainable /\ p[2] \in DOMAIN ops[p[1]].own}
Address(p) == <<storage, p[1], p[2]>>

\* Any add_ function: emplace_back may move the operations, and is taken to.
Add(op) ==
    /\ Len(ops) < MaxOps
    /\ Emplace(op)
    /\ storage' = storage + 1
    /\ UNCHANGED <<training, kept, grads, moments, velocity, stepCount, adamOnly>>

\* Mutant of SealPlan: the operations are compacted, which moves them.
SealCompacting(slot) ==
    /\ Seal(slot, 2)
    /\ storage' = storage + 1
    /\ UNCHANGED <<training, kept, grads, moments, velocity, stepCount, adamOnly>>

SealPlan(slot) == Seal(slot, 2) /\ UNCHANGED trainingVars

\* requires_grad of the parameters follows; slots, gradients and moments stay.
SetTraining(on) ==
    /\ training' = on
    /\ UNCHANGED <<programVars, kept, grads, storage, moments, velocity, stepCount, adamOnly>>

\* execute in training mode.  last_slots are replaced when the run succeeds, even if the caller's
\* buffer then turns out too small.  Inference keeps nothing: it is no action.
ExecuteTraining(batch) ==
    /\ sealed /\ training /\ Run(batch) # Thrown
    /\ kept' = [slots |-> Run(batch), batch |-> batch, spent |-> FALSE]
    /\ UNCHANGED <<programVars, training, grads, storage, moments, velocity, stepCount, adamOnly>>

\* The operations a slot was computed from, by slot.
FeedersOf(k, feeders) == {k} \cup UNION {feeders[s] : s \in ToSet(ops[k].in)}
Feeders == FoldLeft(LAMBDA f, k : (ops[k].out :> FeedersOf(k, f)) @@ f,
                    0 :> {}, [k \in DOMAIN ops |-> k])
Reached(slot) == {p \in Params : p[1] \in Feeders[slot]}

\* Without a parameter there is nothing to differentiate, which is an error.  A parameter
\* accumulates while it requires a gradient.  A graph that was used up fails
\* somewhere on the way, or not at all when no operation needs what it had saved.
Backward(slot) ==
    /\ slot \in DOMAIN kept.slots /\ Reached(slot) # {}
    /\ kept' = [kept EXCEPT !.spent = TRUE]
    /\ \E got \in SUBSET Reached(slot) :
        /\ kept.spent \/ got = Reached(slot)
        /\ grads' = IF training THEN Override([p \in got |-> "sum"], grads) ELSE grads
    /\ UNCHANGED <<programVars, training, storage, moments, velocity, stepCount, adamOnly>>

Older(a) == IF a \in DOMAIN moments THEN moments[a] + 1 ELSE 1

\* Counts the call; a parameter without a gradient is left alone.
Step(optimizer) ==
    LET moved == {Address(p) : p \in DOMAIN grads} IN
    /\ stepCount < MaxSteps
    /\ stepCount' = stepCount + 1
    /\ moments' = IF optimizer = "adam" THEN Override([a \in moved |-> Older(a)], moments) ELSE moments
    /\ velocity' = IF optimizer = "momentum" THEN velocity \cup moved ELSE velocity
    /\ adamOnly' = (adamOnly /\ optimizer = "adam" /\ (stepCount = 0 => sealed /\ Params = DOMAIN grads))
    /\ UNCHANGED <<programVars, training, kept, grads, storage>>

\* Mutant of ZeroGrad: gradients become undefined, as optimizers elsewhere make them.
ZeroGradToNone ==
    /\ grads' = <<>>
    /\ UNCHANGED <<programVars, training, kept, storage, moments, velocity, stepCount, adamOnly>>

\* zero_ on each gradient: it stays defined, and a later step still applies it.
ZeroGrad ==
    /\ grads' = [p \in DOMAIN grads |-> "zero"]
    /\ UNCHANGED <<programVars, training, kept, storage, moments, velocity, stepCount, adamOnly>>

TrainingNext ==
    \/ \E op \in Additions : Add(op)
    \/ \E slot \in Slots : SealPlan(slot) \/ Backward(slot)
    \/ \E on \in BOOLEAN : SetTraining(on)
    \/ \E batch \in Batches : ExecuteTraining(batch)
    \/ \E optimizer \in {"sgd", "momentum", "adam"} : Step(optimizer)
    \/ ZeroGrad

TrainingSpec == TrainingInit /\ [][TrainingNext]_torchVars
-----------------------------------------------------------------------------
(* Properties *)

\* The types of what the plan keeps (TorchTraining's variables; ops are TorchProgram's).
TrainingTypeOK ==
    /\ training \in BOOLEAN /\ sealed \in BOOLEAN /\ adamOnly \in BOOLEAN
    /\ kept.batch \in Batches \cup {0} /\ kept.spent \in BOOLEAN
    /\ DOMAIN grads \subseteq Params
    /\ storage \in Nat /\ stepCount \in Nat
    /\ \A a \in DOMAIN moments : moments[a] \in Nat \ {0}

\* The optimizer's moments are kept under addresses into a vector that may move when an
\* operation is added.  No address is ever left behind, to be looked up for another
\* parameter: only a sealed plan runs, and a sealed plan gets no operations.
OptimizerKeysLive == DOMAIN moments \cup velocity \subseteq {Address(p) : p \in Params}

\* The slots backward starts from are those the present operations compute from the batch
\* they were left by, whatever was called since: sealed again, switched to inference, an
\* execution that failed.
KeptRunIsCurrent == kept # NoRun => kept.slots = SlotsAfter(kept.batch)

\* Adam's bias correction divides by 1 - beta^step_count, and step_count counts calls, not
\* updates.  It is right for every parameter when all steps were Adam's and the first found
\* every gradient: from then on no parameter misses a step, because zero_grad leaves the
\* gradients defined.  And never has a moment seen more steps than were counted.
AdamCountsEveryStep ==
    /\ \A a \in DOMAIN moments : moments[a] <= stepCount
    /\ adamOnly /\ stepCount > 0 =>
          \A p \in Params : Address(p) \in DOMAIN moments /\ moments[Address(p)] = stepCount
==============================================================================
