----------------------------- MODULE Operations ------------------------------
(***************************************************************************)
(* The operations of a native plan, as both backends keep them: the kind,  *)
(* the slots read in order, the slot written, the tensors the operation    *)
(* owns (its weights), and for the operations along an axis the dimension  *)
(* argument.  Reductions keep their dimension, as all callers ask for;     *)
(* slopes, epsilons and scales are the same constants on both sides.       *)
(***************************************************************************)
EXTENDS Tensors

Op(kind, in, out, own, dim) == [kind |-> kind, in |-> in, out |-> out, own |-> own, dim |-> dim]

Activations == {"relu", "sigmoid", "gelu", "silu", "tanh", "leaky_relu", "elu"}
Softmaxes == {"softmax", "log_softmax"}
BinaryOps == {"add", "sub", "mul", "div"}
UnaryOps == {"exp", "log", "sqrt", "pow"}
Reductions == {"sum", "mean", "max", "min"}

\* slots[out] = value.
Put(slots, out, value) == [s \in DOMAIN slots \cup {out} |-> IF s = out THEN value ELSE slots[s]]

Ones(n) == Tensor(<<n>>, <<"ones">>)
Zeros(n) == Tensor(<<n>>, <<"zeros">>)
Given(x, default) == IF Exists(x) THEN x ELSE default
==============================================================================
