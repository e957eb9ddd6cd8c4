-------------------------- MODULE ProviderLowering ---------------------------
(***************************************************************************)
(* LibTorchProvider.compile, which JaxProvider runs too: it turns the      *)
(* declared transformations of a model, in their order, into the calls of  *)
(* TorchProgram or JaxProgram.  Here both plans are built from the same    *)
(* declarations.  compile gives every result a slot of its own, looks its  *)
(* operands up by id and keeps the width of the last result, with which it *)
(* seals the plan.  That width is read off the weights of an affine, a     *)
(* product or a mask; of any other operation it is what the model declares *)
(* of the result, or the width before it when the result is no declared    *)
(* tensor.  The shapes the operations make are not asked.                  *)
(*                                                                         *)
(* A transformation that reads an id nobody produced is refused and the    *)
(* plan destroyed; it is no action here.                                   *)
(***************************************************************************)
EXTENDS TorchProgram, JaxProgram, FiniteSets

CONSTANTS
    Input, Results,     \* ids of the model's input and of what the transformations produce
    InputWidth,         \* objectWidth of the input
    Widths,             \* the widths results are declared with
    WeightShapes, MaskShapes,
    Menus               \* the kinds a model is made of, and how many of them

ASSUME InputAssumption == Input \notin Results /\ InputWidth \in Nat \ {0}
\* objectWidth refuses a declaration without a positive last dimension.
ASSUME WidthsAssumption == Widths \subseteq Nat \ {0}
\* from_blob refuses negative extents; weights and masks without elements are left out.
ASSUME ShapesAssumption == WeightShapes \cup MaskShapes \subseteq (Nat \ {0}) \X (Nat \ {0})

VARIABLES
    menu,           \* the menu of this model; never changes
    tensorWidth,    \* objectWidth of each result that is a declared tensor; never changes
    slotOf,         \* slots: the slot that holds each id
    nextSlot,
    lastSlot,       \* outputSlot
    lastWidth,      \* outputWidth
    declared        \* the transformations so far, as the model declares them: ids in, id out

loweringVars == <<menu, tensorWidth, slotOf, nextSlot, lastSlot, lastWidth, declared>>
compileVars == <<programVars, jaxVars, loweringVars>>

\* The width of a result that is no tensor of the model, a matrix for instance.
Undeclared == 0

LoweringInit ==
    /\ ProgramInit(InputWidth) /\ JaxInit(InputWidth)
    /\ menu \in Menus /\ tensorWidth \in [Results -> Widths \cup {Undeclared}]
    /\ slotOf = [id \in {Input} |-> 0] /\ nextSlot = 1
    /\ lastSlot = 0 /\ lastWidth = InputWidth
    /\ declared = <<>>

\* The width after an operation that has no weights to read it off.
WidthKept(result) == IF tensorWidth[result] = Undeclared THEN lastWidth ELSE tensorWidth[result]

\* Mutant of Produce: the first result stays the output.
ProduceFirstOut(kind, sources, result, width) ==
    /\ ~sealed /\ kind \in menu.kinds /\ Len(ops) < menu.length
    /\ slotOf' = Put(slotOf, result, nextSlot)
    /\ nextSlot' = nextSlot + 1
    /\ lastSlot' = 1
    /\ lastWidth' = width
    /\ declared' = Append(declared, [from |-> sources, result |-> result])
    /\ UNCHANGED <<menu, tensorWidth>>

\* One turn of the loop, around the backend's call that appended an operation for result.
Produce(kind, sources, result, width) ==
    /\ ~sealed /\ kind \in menu.kinds /\ Len(ops) < menu.length
    /\ slotOf' = Put(slotOf, result, nextSlot)
    /\ nextSlot' = nextSlot + 1
    /\ lastSlot' = nextSlot
    /\ lastWidth' = width
    /\ declared' = Append(declared, [from |-> sources, result |-> result])
    /\ UNCHANGED <<menu, tensorWidth>>

\* Mutant of LowerAffine: the width of the input is taken for that of the output.
LowerAffineInputWidth(src, result, shape) ==
    /\ AddAffine(slotOf[src], nextSlot, shape[2], shape[1], <<"w">>, <<"b">>)
    /\ JaxAddAffine(slotOf[src], nextSlot, shape[2], shape[1], <<"w">>, <<"b">>)
    /\ Produce("affine", <<src>>, result, shape[2])

LowerAffine(src, result, shape) ==
    /\ AddAffine(slotOf[src], nextSlot, shape[2], shape[1], <<"w">>, <<"b">>)
    /\ JaxAddAffine(slotOf[src], nextSlot, shape[2], shape[1], <<"w">>, <<"b">>)
    /\ Produce("affine", <<src>>, result, shape[1])

LowerMatrixProduct(src, result, shape) ==
    /\ AddMatrixProduct(slotOf[src], nextSlot, shape[1], shape[2], <<"m">>)
    /\ JaxAddMatrixProduct(slotOf[src], nextSlot, shape[1], shape[2], <<"m">>)
    /\ Produce("matrix_product", <<src>>, result, shape[2])

LowerUnary(kind, src, result) ==
    LET i == slotOf[src]  o == nextSlot IN
    /\ \/ AddActivation(kind, i, o) /\ JaxAddActivation(kind, i, o)
       \/ AddSoftmax(kind, i, o, -1) /\ JaxAddSoftmax(kind, i, o, -1)
       \/ AddUnaryMath(kind, i, o) /\ JaxAddUnaryMath(kind, i, o)
       \/ kind \in {"sum", "mean"} /\ AddReduction(kind, i, o, -1) /\ JaxAddReduction(kind, i, o, -1)
    /\ Produce(kind, <<src>>, result, WidthKept(result))

LowerNorm(kind, src, result) ==
    LET i == slotOf[src]  o == nextSlot
        width == WidthKept(result)
    IN
    /\ \/ kind = "layer_norm" /\ AddLayerNorm(i, o, width, NoTensor, NoTensor)
                              /\ JaxAddLayerNorm(i, o, width, NoTensor, NoTensor)
       \/ kind = "rms_norm" /\ AddRMSNorm(i, o, width, NoTensor) /\ JaxAddRMSNorm(i, o, width, NoTensor)
    /\ Produce(kind, <<src>>, result, width)

LowerMask(src, result, shape) ==
    /\ AddAttentionMask(slotOf[src], nextSlot, shape[1], shape[2], <<"mask">>)
    /\ JaxAddAttentionMask(slotOf[src], nextSlot, shape[1], shape[2], <<"mask">>)
    /\ Produce("attention_mask", <<src>>, result, shape[2])

LowerAttention(q, k, v, result) ==
    /\ AddAttention(slotOf[q], slotOf[k], slotOf[v], nextSlot)
    /\ JaxAddAttention(slotOf[q], slotOf[k], slotOf[v], nextSlot)
    /\ Produce("attention", <<q, k, v>>, result, WidthKept(result))

LowerBinary(kind, a, b, result) ==
    LET i == slotOf[a]  j == slotOf[b]  o == nextSlot IN
    /\ \/ AddBinaryOp(kind, i, j, o) /\ JaxAddBinaryOp(kind, i, j, o)
       \/ kind \in {"mse", "cross_entropy"} /\ AddLoss(kind, i, j, o) /\ JaxAddLoss(kind, i, j, o)
    /\ Produce(kind, <<a, b>>, result, WidthKept(result))

\* A model without transformations is refused.
SealBoth ==
    /\ ~sealed
    /\ Seal(lastSlot, lastWidth) /\ JaxSeal(lastSlot, lastWidth)
    /\ UNCHANGED loweringVars

LoweringNext ==
    \/ \E src \in DOMAIN slotOf, result \in Results :
        \/ \E shape \in WeightShapes : LowerAffine(src, result, shape) \/ LowerMatrixProduct(src, result, shape)
        \/ \E shape \in MaskShapes : LowerMask(src, result, shape)
        \/ \E kind \in menu.kinds : LowerUnary(kind, src, result) \/ LowerNorm(kind, src, result)
        \/ \E b \in DOMAIN slotOf, kind \in menu.kinds : LowerBinary(kind, src, b, result)
        \/ \E k, v \in DOMAIN slotOf : LowerAttention(src, k, v, result)
    \/ SealBoth

LoweringSpec == LoweringInit /\ [][LoweringNext]_compileVars
-----------------------------------------------------------------------------
(* Properties *)

Compiled == sealed /\ jaxSealed

\* What the model means, without slots: each transformation takes the values its operand ids
\* have at that point and gives its result id a value; <<>> once a transformation has none.
Meant(env, done) ==
    LET value == Value(done.op, [i \in DOMAIN done.by.from |-> env[done.by.from[i]]])
    IN  IF env # <<>> /\ Exists(value) THEN Put(env, done.by.result, value) ELSE <<>>
Meanings == INSTANCE Loops WITH Turn <- Meant
Meaning(batch) ==
    Meanings!Loop([id \in {Input} |-> InputSlots(batch)[0]],
                  [k \in DOMAIN declared |-> [op |-> ops[k], by |-> declared[k]]])

\* The slots compile hands out carry the values the ids stand for, whatever ids are declared
\* again or used as their own operands: a batch runs exactly when the model has a meaning, and
\* what comes out is the value of the last result.
PlanComputesModel ==
    Compiled => \A b \in Batches : LET meaning == Meaning(b)  slots == Run(b) IN
        IF meaning = <<>> THEN slots = Thrown
        ELSE slots # Thrown /\ slots[outputSlot] = meaning[Last(declared).result]

\* A mask that has fewer columns than its input, or not one row per example, is broadcast.
MaskBroadcasts(b) ==
    \E k \in DOMAIN ops : ops[k].kind = "attention_mask" /\ ops[k].own[1].shape # SlotsAfter(b)[ops[k].in[1]].shape

\* The operations whose width compile reads off the weights.
Weighted == {"affine", "matrix_product", "attention_mask"}
LastAxis(x) == x.shape[Len(x.shape)]

\* The model declares its results as the operations make them: where compile takes the declared width
\* the value is as wide, and where nothing is declared it is as wide as the value before it.  Operation
\* k writes slot k.  Nothing in compile asks for this.
Truthful(b) == LET slots == SlotsAfter(b) IN
    \A k \in DOMAIN ops : ops[k].kind \notin Weighted =>
        LET width == tensorWidth[declared[k].result]
        IN  LastAxis(slots[k]) = IF width = Undeclared THEN LastAxis(slots[k - 1]) ELSE width

WithoutLosses == \A k \in DOMAIN ops : ops[k].kind \notin Losses

\* execute copies batch * outputWidth numbers without asking how many the tensor has.  Whatever the
\* model declares, the tensor has one row per example.  The rows are as wide as outputWidth if the
\* model declares its results truthfully, since the widths compile reads off the weights are those the
\* operations make; otherwise execute copies too few numbers, or reads past the end of the tensor.  Not
\* so after a loss, one number for the whole batch, and where a mask is broadcast.
ResultComplete ==
    Compiled /\ WithoutLosses => \A b \in Batches :
        Run(b) # Thrown /\ ~MaskBroadcasts(b) =>
            /\ Numel(Result(b)) = b * LastAxis(Result(b))
            /\ Truthful(b) => Numel(Result(b)) = Copied(b)

AlongAxis == Softmaxes \cup {"rms_norm"}
\* An operation along an axis of a scalar: LibTorch takes the scalar for its own axis, JAX fails.
ScalarAlongAxis(b) ==
    \E k \in DOMAIN ops : ops[k].kind \in AlongAxis /\ SlotsAfter(b)[ops[k].in[1]].shape = <<>>

\* "Strict numerical parity between LibTorch C++ and JAX C++": what LibTorch computes, JAX computes
\* from the same model.
SameResult(b) == Run(b) # Thrown /\ ~ScalarAlongAxis(b) => JaxResult(b) = Result(b)
StrictParity == Compiled => \A b \in Batches : SameResult(b)

\* Parity of all models without sums and means: the broadcasting rules, the ranks the weights are
\* wrapped with and the single calls JAX composes an operation of make no difference, and no step
\* of a model that LibTorch runs is passed over or fails in JAX.  The calls without a plan agree as
\* well, for every operation number and any two matrices among the weights' shapes: where LibTorch
\* returns an error, JAX leaves the buffer alone.
JaxAgrees ==
    /\ (\A k \in DOMAIN ops : ops[k].kind \notin Reductions) => StrictParity
    /\ Compiled => \A b \in Batches : LET slots == Run(b)  x == slots[outputSlot] IN
          slots # Thrown => \A id \in 0..10 : TorchTensorOp(id, x) = JaxTensorOp(id, x)
    /\ \A s, t \in WeightShapes : LET a == Tensor(s, <<"a">>)  b == Tensor(t, <<"b">>) IN
          TorchMatmul(a, b) = JaxMatmul(a, b)
==============================================================================
