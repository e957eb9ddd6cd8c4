----------------------------- MODULE JaxProgram ------------------------------
(***************************************************************************)
(* The native JAX plan as a program, next to TorchProgram: the same calls  *)
(* build it, and execute interprets it with one or more calls of jax.numpy *)
(* per operation.  Three things differ from LibTorch.  The add_ functions  *)
(* do not ask whether the plan is sealed.  An operation whose inputs are   *)
(* not there is passed over.  A Python call that fails ends nothing: the   *)
(* run goes on with the exception set, or with a null object handed to the *)
(* next call, which leaves open what becomes of the rest (Broken).         *)
(***************************************************************************)
EXTENDS Operations, SequencesExt

VARIABLES
    jaxInputWidth,  \* Plan::input_width
    jaxOps,         \* Plan::operations
    jaxSealed,      \* Plan::sealed
    jaxOutputSlot,  \* Plan::output_slot
    jaxOutputWidth  \* Plan::output_width

jaxVars == <<jaxInputWidth, jaxOps, jaxSealed, jaxOutputSlot, jaxOutputWidth>>

JaxInit(width) ==
    /\ width > 0 /\ jaxInputWidth = width
    /\ jaxOps = <<>> /\ jaxSealed = FALSE
    /\ jaxOutputSlot = -1 /\ jaxOutputWidth = -1

-----------------------------------------------------------------------------
(* Building. *)

JaxEmplace(op) ==
    /\ jaxOps' = Append(jaxOps, op)
    /\ UNCHANGED <<jaxInputWidth, jaxSealed, jaxOutputSlot, jaxOutputWidth>>

\* Weights that are missing: the call returns without a word, here as in the other operations.
JaxAddAffine(i, o, inW, outW, weight, bias) ==
    IF <<"none">> \in {weight, bias} THEN UNCHANGED jaxVars
    ELSE JaxEmplace(Op("affine", <<i>>, o, <<Tensor(<<outW, inW>>, weight), Tensor(<<1, outW>>, bias)>>, 0))
JaxAddMatrixProduct(i, o, inW, outW, right) ==
    IF right = <<"none">> THEN UNCHANGED jaxVars
    ELSE JaxEmplace(Op("matrix_product", <<i>>, o, <<Tensor(<<inW, outW>>, right)>>, 0))
JaxAddActivation(f, i, o) == f \in Activations /\ JaxEmplace(Op(f, <<i>>, o, <<>>, 0))
JaxAddSoftmax(f, i, o, dim) == f \in Softmaxes /\ JaxEmplace(Op(f, <<i>>, o, <<>>, dim))
\* The weights of a norm become one row.
JaxRow(x) == Tensor(<<1, x.shape[1]>>, x.term)
JaxAddLayerNorm(i, o, width, weight, bias) ==
    JaxEmplace(Op("layer_norm", <<i>>, o,
                  <<JaxRow(Given(weight, Ones(width))), JaxRow(Given(bias, Zeros(width)))>>, 0))
JaxAddRMSNorm(i, o, width, weight) ==
    JaxEmplace(Op("rms_norm", <<i>>, o, <<JaxRow(Given(weight, Ones(width)))>>, 0))
JaxAddAttentionMask(i, o, rows, cols, mask) ==
    IF mask = <<"none">> THEN UNCHANGED jaxVars
    ELSE JaxEmplace(Op("attention_mask", <<i>>, o, <<Tensor(<<rows, cols>>, mask)>>, 0))
JaxAddAttention(q, k, v, o) == JaxEmplace(Op("attention", <<q, k, v>>, o, <<>>, 0))
JaxAddBinaryOp(f, a, b, o) == f \in BinaryOps /\ JaxEmplace(Op(f, <<a, b>>, o, <<>>, 0))
JaxAddUnaryMath(f, i, o) == f \in UnaryOps /\ JaxEmplace(Op(f, <<i>>, o, <<>>, 0))
JaxAddReduction(f, i, o, dim) == f \in Reductions /\ JaxEmplace(Op(f, <<i>>, o, <<>>, dim))
\* A type of loss the switch does not list leaves the operation's type unset: no caller asks for one.
JaxAddLoss(f, pred, target, o) ==
    f \in {"mse", "cross_entropy"} /\ JaxEmplace(Op(f, <<pred, target>>, o, <<>>, 0))

JaxSeal(slot, width) ==
    /\ jaxOps # <<>> /\ width > 0
    /\ jaxSealed' = TRUE /\ jaxOutputSlot' = slot /\ jaxOutputWidth' = width
    /\ UNCHANGED <<jaxInputWidth, jaxOps>>

-----------------------------------------------------------------------------
(* Running. *)

\* Mutant of JaxAffineValue: the weight is used as it is stored.
JaxAffineUntransposed(x, w, b) == Both("add", Product(x, w), b)

JaxAffineValue(x, w, b) == Both("add", Product(x, Transposed(w)), b)
JaxLayerNormValue(x, w, b) ==
    IF x.shape = <<>> THEN NoTensor
    ELSE Both("add", Both("mul", Each("layer_normalised", x), w), b)
JaxRMSNormValue(x, w) ==
    IF x.shape = <<>> THEN NoTensor ELSE Both("mul", Each("rms_normalised", x), w)
\* jax.numpy has no axis to go along in a scalar.
JaxSoftmaxValue(f, x, dim) == IF x.shape = <<>> THEN NoTensor ELSE Along(f, {Axis(x, dim)}, x)
JaxAttentionValue(q, k, v) ==
    Product(JaxSoftmaxValue("softmax", Each("scaled", Product(q, Transposed(k))), -1), v)
\* An axis is passed on only when it is counted from the front.
JaxReductionValue(f, x, dim) ==
    Reduced(f, IF dim >= 0 THEN {Axis(x, dim)} ELSE DOMAIN x.shape, x)
JaxMseValue(x, t) == IF Exists(Both("mse", x, t)) THEN Scalar("mse", x, t) ELSE NoTensor
\* Minus the mean of the sums along the last axis of t * log_softmax(x).
JaxCrossEntropyValue(x, t) ==
    IF x.shape # <<>> /\ Exists(Both("mul", t, x)) THEN Scalar("cross_entropy", x, t) ELSE NoTensor

JaxValue(op, x) ==
    CASE op.kind = "affine" -> JaxAffineValue(x[1], op.own[1], op.own[2])
      [] op.kind = "matrix_product" -> Product(x[1], op.own[1])
      [] op.kind \in Activations \cup UnaryOps -> Each(op.kind, x[1])
      [] op.kind \in Softmaxes -> JaxSoftmaxValue(op.kind, x[1], op.dim)
      [] op.kind = "layer_norm" -> JaxLayerNormValue(x[1], op.own[1], op.own[2])
      [] op.kind = "rms_norm" -> JaxRMSNormValue(x[1], op.own[1])
      [] op.kind = "attention_mask" -> Both("add", x[1], op.own[1])
      [] op.kind = "attention" -> JaxAttentionValue(x[1], x[2], x[3])
      [] op.kind \in BinaryOps -> Both(op.kind, x[1], x[2])
      [] op.kind \in {"sum", "mean"} -> JaxReductionValue(op.kind, x[1], op.dim)
      [] op.kind = "mse" -> JaxMseValue(x[1], x[2])
      [] op.kind = "cross_entropy" -> JaxCrossEntropyValue(x[1], x[2])

\* The slots once a Python call has failed.
Broken == <<>>
JaxInputSlots(batch) == [s \in {0} |-> Tensor(<<batch, jaxInputWidth>>, <<"input">>)]

\* One operation.  It is passed over when a slot it reads was never written, and execute
\* has no case for max and min.
RunJaxOp(slots, op) ==
    IF slots = Broken \/ ~(ToSet(op.in) \subseteq DOMAIN slots) \/ op.kind \in {"max", "min"} THEN slots
    ELSE LET value == JaxValue(op, [i \in DOMAIN op.in |-> slots[op.in[i]]])
         IN  IF Exists(value) THEN Put(slots, op.out, value) ELSE Broken

JaxOperating == INSTANCE Loops WITH Turn <- RunJaxOp
JaxRun(batch) == JaxOperating!Loop(JaxInputSlots(batch), jaxOps)

\* What execute copies from; NoTensor when the caller's buffer stays as it was, which is all it says
\* of a run that broke, of an open plan and of an output slot without a tensor.
JaxResult(batch) ==
    LET slots == JaxRun(batch)
    IN  IF jaxSealed /\ batch > 0 /\ jaxOutputSlot \in DOMAIN slots THEN slots[jaxOutputSlot] ELSE NoTensor
JaxCopied(batch) == batch * jaxOutputWidth

-----------------------------------------------------------------------------
(* Without a plan; NoTensor leaves the caller's buffer as it was. *)

\* Any two matrices are given to jax.numpy, which refuses what does not fit.
JaxMatmul(a, b) == Product(a, b)

JaxTensorOps == <<"gelu", "silu", "tanh", "sigmoid", "leaky_relu", "elu", "exp", "log", "sqrt">>
JaxTensorOp(id, x) == Each(IF id \in DOMAIN JaxTensorOps THEN JaxTensorOps[id] ELSE "relu", x)
==============================================================================
