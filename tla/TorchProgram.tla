---------------------------- MODULE TorchProgram -----------------------------
(***************************************************************************)
(* The native LibTorch plan as a program: a list of operations that read   *)
(* and write numbered slots, built by the add_ functions, sealed with the  *)
(* slot and the width of its result, and run by run_plan on a batch that   *)
(* it puts into slot 0.  A call the code refuses changes nothing and       *)
(* reports an error; it is no action here.                                 *)
(***************************************************************************)
EXTENDS Operations, SequencesExt

CONSTANT Batches    \* the sizes of the batches that are run

ASSUME BatchesAssumption == Batches \subseteq Nat \ {0}

VARIABLES
    inputWidth,     \* Plan::input_width
    ops,            \* Plan::operations
    sealed,         \* Plan::sealed
    outputSlot,     \* Plan::output_slot
    outputWidth     \* Plan::output_width

programVars == <<inputWidth, ops, sealed, outputSlot, outputWidth>>

\* create_plan refuses widths that are not positive.
ProgramInit(width) ==
    /\ width > 0 /\ inputWidth = width
    /\ ops = <<>> /\ sealed = FALSE
    /\ outputSlot = -1 /\ outputWidth = -1

-----------------------------------------------------------------------------
(* Building. *)

\* Mutant of Emplace: a sealed plan takes operations.
EmplaceAlways(op) ==
    /\ ops' = Append(ops, op)
    /\ UNCHANGED <<inputWidth, sealed, outputSlot, outputWidth>>

\* What all add_ functions do: a sealed plan is refused, an open one gets the operation.
Emplace(op) ==
    /\ ~sealed
    /\ ops' = Append(ops, op)
    /\ UNCHANGED <<inputWidth, sealed, outputSlot, outputWidth>>

\* weight is out x in, bias has out elements; neither may be missing.
AddAffine(i, o, inW, outW, weight, bias) ==
    /\ weight # <<"none">> /\ bias # <<"none">>
    /\ Emplace(Op("affine", <<i>>, o, <<Tensor(<<outW, inW>>, weight), Tensor(<<outW>>, bias)>>, 0))
AddActivation(f, i, o) == f \in Activations /\ Emplace(Op(f, <<i>>, o, <<>>, 0))
AddSoftmax(f, i, o, dim) == f \in Softmaxes /\ Emplace(Op(f, <<i>>, o, <<>>, dim))
\* Weights that are not given are ones, a bias that is not given zeros.
AddLayerNorm(i, o, width, weight, bias) ==
    Emplace(Op("layer_norm", <<i>>, o, <<Given(weight, Ones(width)), Given(bias, Zeros(width))>>, 0))
AddRMSNorm(i, o, width, weight) ==
    Emplace(Op("rms_norm", <<i>>, o, <<Given(weight, Ones(width))>>, 0))
AddMatrixProduct(i, o, inW, outW, right) ==
    /\ right # <<"none">>
    /\ Emplace(Op("matrix_product", <<i>>, o, <<Tensor(<<inW, outW>>, right)>>, 0))
AddAttentionMask(i, o, rows, cols, mask) ==
    /\ mask # <<"none">>
    /\ Emplace(Op("attention_mask", <<i>>, o, <<Tensor(<<rows, cols>>, mask)>>, 0))
AddAttention(q, k, v, o) == Emplace(Op("attention", <<q, k, v>>, o, <<>>, 0))
AddBinaryOp(f, a, b, o) == f \in BinaryOps /\ Emplace(Op(f, <<a, b>>, o, <<>>, 0))
AddUnaryMath(f, i, o) == f \in UnaryOps /\ Emplace(Op(f, <<i>>, o, <<>>, 0))
AddReduction(f, i, o, dim) == f \in Reductions /\ Emplace(Op(f, <<i>>, o, <<>>, dim))
Losses == {"mse", "cross_entropy", "bce_with_logits"}
AddLoss(f, pred, target, o) == f \in Losses /\ Emplace(Op(f, <<pred, target>>, o, <<>>, 0))

\* Neither the slot nor the width is compared with the operations.  A sealed plan may be sealed again.
Seal(slot, width) ==
    /\ ops # <<>> /\ width > 0
    /\ sealed' = TRUE /\ outputSlot' = slot /\ outputWidth' = width
    /\ UNCHANGED <<inputWidth, ops>>

-----------------------------------------------------------------------------
(* Running. *)

AffineValue(x, w, b) == Both("add", Product(x, Transposed(w)), b)
\* at::layer_norm checks the trailing axis; run_plan's own rms_norm only broadcasts.
LayerNormValue(x, w, b) ==
    IF x.shape # <<>> /\ x.shape[Len(x.shape)] = w.shape[1]
    THEN Both("add", Both("mul", Each("layer_normalised", x), w), b)
    ELSE NoTensor
RMSNormValue(x, w) == Both("mul", Each("rms_normalised", x), w)
AttentionValue(q, k, v) ==
    Product(Along("softmax", {2}, Each("scaled", Product(q, Transposed(k)))), v)
\* The last axis of a scalar is the scalar itself.
ReductionValue(f, x, dim) == Reduced(f, {Axis(x, dim)}, x)
\* Classes are given as probabilities, so the cross entropy wants two equal shapes.
LossValue(f, x, t) ==
    IF IF f = "cross_entropy" THEN x.shape = t.shape /\ x.shape # <<>>
                              ELSE Exists(Both(f, x, t))
    THEN Scalar(f, x, t)
    ELSE NoTensor

\* What an operation makes of the tensors in the slots it reads.
Value(op, x) ==
    CASE op.kind = "affine" -> AffineValue(x[1], op.own[1], op.own[2])
      [] op.kind \in Activations \cup UnaryOps -> Each(op.kind, x[1])
      [] op.kind \in Softmaxes -> Along(op.kind, {Axis(x[1], op.dim)}, x[1])
      [] op.kind = "layer_norm" -> LayerNormValue(x[1], op.own[1], op.own[2])
      [] op.kind = "rms_norm" -> RMSNormValue(x[1], op.own[1])
      [] op.kind = "matrix_product" -> Product(x[1], op.own[1])
      [] op.kind = "attention_mask" -> Both("add", x[1], op.own[1])
      [] op.kind = "attention" -> AttentionValue(x[1], x[2], x[3])
      [] op.kind \in BinaryOps -> Both(op.kind, x[1], x[2])
      [] op.kind \in Reductions -> ReductionValue(op.kind, x[1], op.dim)
      [] op.kind \in Losses -> LossValue(op.kind, x[1], x[2])

\* The slots after a run that threw.
Thrown == <<>>
FirstSlots(batch, width) == [s \in {0} |-> Tensor(<<batch, width>>, <<"input">>)]
InputSlots(batch) == FirstSlots(batch, inputWidth)

\* One operation: a slot that was never written, or shapes ATen rejects, end the run.
RunOp(slots, op) ==
    IF slots = Thrown \/ ~(ToSet(op.in) \subseteq DOMAIN slots) THEN Thrown
    ELSE LET value == Value(op, [i \in DOMAIN op.in |-> slots[op.in[i]]])
         IN  IF Exists(value) THEN Put(slots, op.out, value) ELSE Thrown

\* What a program makes of a batch; a plan runs its own.
Operating == INSTANCE Loops WITH Turn <- RunOp
SlotsOf(program, first) == Operating!Loop(first, program)
SlotsAfter(batch) == SlotsOf(ops, InputSlots(batch))

\* The slots a batch leaves, Thrown when an operation fails or nothing is in the output slot.
Run(batch) == LET slots == SlotsAfter(batch) IN IF outputSlot \in DOMAIN slots THEN slots ELSE Thrown

\* execute answers an error instead of running a batch of no rows or an open plan, when the run
\* throws, and when the caller's buffer is too small, which it finds out after the run.  A
\* capacity that is not positive says nothing of the buffer, and is not looked at.
Executes(batch, capacity) ==
    /\ sealed /\ batch > 0
    /\ Run(batch) # Thrown
    /\ capacity > 0 => capacity >= batch * outputWidth
\* It then copies batch * outputWidth numbers from the tensor in the output slot.
Result(batch) == Run(batch)[outputSlot]
Copied(batch) == batch * outputWidth

-----------------------------------------------------------------------------
(* Without a plan: matmul and tensor_op on plain buffers; NoTensor is an error. *)

TorchMatmul(a, b) == IF a.shape[2] = b.shape[1] THEN Product(a, b) ELSE NoTensor

TorchTensorOps == <<"gelu", "silu", "tanh", "sigmoid", "leaky_relu", "elu", "exp", "log", "sqrt">>
TorchTensorOp(id, x) ==
    IF Numel(x) <= 0 THEN NoTensor
    ELSE Each(IF id \in DOMAIN TorchTensorOps THEN TorchTensorOps[id] ELSE "relu", x)
==============================================================================
