------------------------------- MODULE Tensors -------------------------------
(***************************************************************************)
(* What the two tensor libraries below the plans have in common, as far as *)
(* the plans depend on it: a tensor is its shape and a term that says how  *)
(* its elements were computed.  Two tensors with one term hold the same    *)
(* numbers up to rounding.  A combination the libraries reject is          *)
(* NoTensor.  Weights are leaves: two backends that get the same array get *)
(* the same term whatever the rank they wrap it with.                      *)
(***************************************************************************)
EXTENDS Integers, Sequences

Tensor(shape, term) == [shape |-> shape, term |-> term]
NoTensor == Tensor(<<0>>, <<"none">>)
Exists(x) == x.shape # <<0>>

\* The length of shape s along axis i, counted as if s had rank n.
Extent(s, n, i) == IF i > n - Len(s) THEN s[i - (n - Len(s))] ELSE 1

\* Broadcasting: shapes are aligned on the right, and extents agree or are 1.
Broadcast(s, t) ==
    LET n == IF Len(s) > Len(t) THEN Len(s) ELSE Len(t)
        fits == \A i \in 1..n : Extent(s, n, i) = Extent(t, n, i) \/ 1 \in {Extent(s, n, i), Extent(t, n, i)}
    IN  IF fits
        THEN [i \in 1..n |-> IF Extent(s, n, i) = 1 THEN Extent(t, n, i) ELSE Extent(s, n, i)]
        ELSE NoTensor.shape

Each(f, x) == IF Exists(x) THEN Tensor(x.shape, <<f, x.term>>) ELSE NoTensor
Both(f, x, y) ==
    LET shape == Broadcast(x.shape, y.shape)
    IN  IF Exists(x) /\ Exists(y) /\ shape # NoTensor.shape
        THEN Tensor(shape, <<f, x.term, y.term>>)
        ELSE NoTensor

\* Both of matrices; the last axis of one meets the first of the other.  matmul takes a single axis
\* too: a plan only makes one by the rms_norm of a scalar, which LibTorch alone computes, and what
\* it would go on to multiply is not followed.
Product(x, y) ==
    IF Len(x.shape) = 2 /\ Len(y.shape) = 2 /\ x.shape[2] = y.shape[1]
    THEN Tensor(<<x.shape[1], y.shape[2]>>, <<"product", x.term, y.term>>)
    ELSE NoTensor
Transposed(x) ==
    IF Len(x.shape) = 2
    THEN Tensor(<<x.shape[2], x.shape[1]>>, <<"transposed", x.term>>)
    ELSE NoTensor

\* An operation along some axes, which keeps the shape or shortens these axes to 1.
Along(f, axes, x) == IF Exists(x) THEN Tensor(x.shape, <<f, axes, x.term>>) ELSE NoTensor
Reduced(f, axes, x) ==
    IF Exists(x)
    THEN Tensor([i \in DOMAIN x.shape |-> IF i \in axes THEN 1 ELSE x.shape[i]], <<f, axes, x.term>>)
    ELSE NoTensor
\* To one number: a tensor without axes.
Scalar(f, x, y) == Tensor(<<>>, <<f, x.term, y.term>>)

\* The axis a dimension argument names: from the front, or from the back when negative.
Axis(x, dim) == IF dim < 0 THEN Len(x.shape) + dim + 1 ELSE dim + 1

\* How many numbers a tensor holds.
Times(m, n) == m * n
Factors == INSTANCE Loops WITH Turn <- Times
Numel(x) == Factors!Loop(1, x.shape)
==============================================================================
