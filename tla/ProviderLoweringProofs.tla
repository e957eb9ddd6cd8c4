---------------------- MODULE ProviderLoweringProofs -----------------------
(***************************************************************************)
(* What compile lowers a model to is what the model means, fills the       *)
(* result it was sealed with, and is the same program in both backends:    *)
(* for models of any length over any ids, weights, masks and batches.      *)
(*                                                                         *)
(* A run is a loop over the operations, so all of this is induction over   *)
(* the program.  compile appends one operation at a time, which makes it   *)
(* an invariant of compile: LoweringInv speaks of the run of the program   *)
(* so far, and one action more is one turn of each loop more (LoopGoesOn). *)
(* First come the values: what each kind of operation makes of shapes,     *)
(* in LibTorch and in JAX (Lowered); then the actions, all of which are    *)
(* Extended steps; then the parts of the invariant.                        *)
(***************************************************************************)
EXTENDS ProviderLowering, SequenceTheorems, TLAPS

-----------------------------------------------------------------------------
(* Lists, and the shapes of tensors. *)

IsList(s) == s \in Seq({s[k] : k \in DOMAIN s})

\* A list with one element more.
LEMMA ListAppends ==
    ASSUME NEW s, IsList(s), NEW x
    PROVE  /\ IsList(Append(s, x)) /\ Len(s) \in Nat /\ DOMAIN s = 1..Len(s)
           /\ Len(Append(s, x)) = Len(s) + 1 /\ DOMAIN Append(s, x) = 1..Len(s) + 1
           /\ Append(s, x)[Len(s) + 1] = x
           /\ \A k \in 1..Len(s) : Append(s, x)[k] = s[k]
<1> DEFINE S == {s[k] : k \in DOMAIN s}
           t == Append(s, x)
<1>1. s \in Seq(S \cup {x}) /\ x \in S \cup {x}
    BY SeqMonotonic DEF IsList
<1>2. /\ t \in Seq(S \cup {x}) /\ Len(t) = Len(s) + 1 /\ t[Len(s) + 1] = x
      /\ \A k \in 1..Len(s) : t[k] = s[k]
  <2> HIDE DEF S
  <2> QED
      BY <1>1, AppendProperties
<1>3. Len(s) \in Nat /\ DOMAIN s = 1..Len(s) /\ DOMAIN t = 1..Len(s) + 1
  <2> HIDE DEF S, t
  <2> QED
      BY <1>1, <1>2, LenProperties
<1>4. t = [k \in 1..Len(s) + 1 |-> t[k]]
  <2> HIDE DEF S, t
  <2> QED
      BY <1>2, LenProperties
<1>5. t \in [1..Len(s) + 1 -> {t[k] : k \in DOMAIN t}]
  <2> HIDE DEF S, t
  <2> QED
      BY <1>3, <1>4
<1>6. IsList(t)
  <2> HIDE DEF S, t
  <2> QED
      BY <1>3, <1>5, SeqDef DEF IsList
<1> HIDE DEF S, t
<1> QED
    BY <1>2, <1>3, <1>6 DEF t

\* Two lists of one length with the same elements are one list.
LEMMA SameList ==
    ASSUME NEW s, IsList(s), NEW t, IsList(t), Len(s) = Len(t), \A k \in 1..Len(s) : s[k] = t[k]
    PROVE  s = t
<1> DEFINE S == {s[k] : k \in DOMAIN s}
           T == {t[k] : k \in DOMAIN t}
<1>1. s \in Seq(S \cup T) /\ t \in Seq(S \cup T)
    BY SeqMonotonic DEF IsList
<1> HIDE DEF S, T
<1> QED
    BY <1>1, SeqEqual

Pos == Nat \ {0}
Shapes == Seq(Pos)

\* What is used of shapes: their extents are positive, and equal extents make equal shapes.
LEMMA ShapesAre ==
    /\ \A s \in Shapes : /\ Len(s) \in Nat /\ DOMAIN s = 1..Len(s) /\ s # NoTensor.shape
                         /\ s = [i \in 1..Len(s) |-> s[i]] /\ \A i \in 1..Len(s) : s[i] \in Pos
    /\ \A n \in Nat : \A f \in [1..n -> Pos] : f \in Shapes /\ Len(f) = n
    /\ \A s, t \in Shapes : Len(s) = Len(t) /\ (\A i \in 1..Len(s) : s[i] = t[i]) => s = t
<1>1. \A s \in Shapes : Len(s) \in Nat /\ s \in [1..Len(s) -> Pos] /\ DOMAIN s = 1..Len(s)
    BY LenProperties DEF Shapes
<1>2. \A s \in Shapes : s = [i \in 1..Len(s) |-> s[i]]
    BY <1>1
<1>3. ASSUME NEW s \in Shapes PROVE s # NoTensor.shape
  <2>1. NoTensor.shape = <<0>>
      BY DEF NoTensor, Tensor
  <2>2. s = <<0>> => Len(s) = 1 /\ s[1] = 0
      OBVIOUS
  <2> QED
      BY <1>1, <2>1, <2>2 DEF Pos
<1>4. \A n \in Nat : \A f \in [1..n -> Pos] : f \in Shapes /\ Len(f) = n
    BY SeqDef, LenProperties DEF Shapes
<1>5. \A s, t \in Shapes : Len(s) = Len(t) /\ (\A i \in 1..Len(s) : s[i] = t[i]) => s = t
    BY SeqEqual DEF Shapes
<1> QED
    BY <1>1, <1>3, <1>4, <1>5, <1>2

\* Shapes of up to two extents.
LEMMA Tuples ==
    /\ <<>> \in Shapes /\ Len(<<>>) = 0
    /\ \A a \in Pos : <<a>> \in Shapes /\ Len(<<a>>) = 1
    /\ \A a, b \in Pos : <<a, b>> \in Shapes /\ Len(<<a, b>>) = 2
    /\ \A s \in Shapes : Len(s) = 2 => s = <<s[1], s[2]>>
    /\ \A s \in Shapes : Len(s) = 0 => s = <<>>
<1>1. /\ <<>> \in Shapes /\ Len(<<>>) = 0
      /\ \A a \in Pos : <<a>> \in Shapes /\ Len(<<a>>) = 1
      /\ \A a, b \in Pos : <<a, b>> \in Shapes /\ Len(<<a, b>>) = 2
    BY DEF Shapes
<1>2. ASSUME NEW s \in Shapes, Len(s) = 2 PROVE s = <<s[1], s[2]>>
  <2>1. s[1] \in Pos /\ s[2] \in Pos
      BY <1>2, ShapesAre
  <2>2. <<s[1], s[2]>> \in Shapes
      BY <1>1, <2>1
  <2>3. \A i \in 1..2 : s[i] = <<s[1], s[2]>>[i]
      OBVIOUS
  <2> QED
      BY <1>2, <2>2, <2>3, ShapesAre
<1>3. \A s \in Shapes : Len(s) = 0 => s = <<>>
    BY <1>1, ShapesAre
<1> QED
    BY <1>1, <1>2, <1>3

\* How many numbers a tensor holds: at least one, and rows times columns in a matrix.
LEMMA NumelPositive == ASSUME NEW x, x.shape \in Shapes PROVE Numel(x) \in Pos
<1> DEFINE s == x.shape
           Initial(n) == [i \in 1..n |-> s[i]]
           T == {n \in Nat : n <= Len(s) => Factors!Loop(1, Initial(n)) \in Pos}
<1>1. Len(s) \in Nat /\ \A i \in 1..Len(s) : s[i] \in Pos
    BY ShapesAre
<1>2. 0 \in T
  <2>1. Initial(0) = <<>>
      OBVIOUS
  <2>2. Factors!Loop(1, <<>>) = 1
      BY Factors!LoopEnds
  <2> QED
      BY <2>1, <2>2 DEF Pos
<1>3. ASSUME NEW n \in Nat, n \in T PROVE n + 1 \in T
  <2> SUFFICES ASSUME n + 1 <= Len(s) PROVE Factors!Loop(1, Initial(n + 1)) \in Pos
      OBVIOUS
  <2> DEFINE f == Initial(n)
             e == s[n + 1]
  <2>1. Factors!Loop(1, f) \in Pos /\ e \in Pos
      BY <1>1, <1>3
  <2>2. f \in [1..n -> Pos] /\ f \in Seq(Pos) /\ Len(f) = n
    <3>1. f \in [1..n -> Pos]
        BY <1>1
    <3> HIDE DEF f
    <3> QED
        BY <3>1, ShapesAre DEF Shapes
  <2>3. Initial(n + 1) = Append(f, e)
    <3>1. Initial(n + 1) \in [1..n + 1 -> Pos]
        BY <1>1
    <3>2. Initial(n + 1) \in Shapes /\ Len(Initial(n + 1)) = n + 1
      <4> HIDE DEF Initial
      <4> QED
          BY <3>1, ShapesAre
    <3>3. Append(f, e) \in Shapes /\ Len(Append(f, e)) = n + 1
          /\ Append(f, e)[n + 1] = e /\ \A i \in 1..n : Append(f, e)[i] = f[i]
      <4> HIDE DEF f, e
      <4> QED
          BY <2>1, <2>2, AppendProperties DEF Shapes
    <3>4. /\ \A i \in 1..n : f[i] = s[i]
          /\ \A i \in 1..n + 1 : Initial(n + 1)[i] = s[i]
        OBVIOUS
    <3>5. \A i \in 1..n + 1 : Initial(n + 1)[i] = Append(f, e)[i]
      <4> HIDE DEF f, Initial
      <4> QED
          BY <3>3, <3>4
    <3> HIDE DEF f, Initial, e
    <3> QED
        BY <3>2, <3>3, <3>5, ShapesAre
  <2>4. Factors!Loop(1, Append(f, e)) = Times(Factors!Loop(1, f), e)
    <3> HIDE DEF f, e
    <3> QED
        BY <2>1, <2>2, Factors!LoopGoesOn
  <2>5. \A a, b \in Pos : a * b \in Pos
      BY DEF Pos
  <2> HIDE DEF f, e
  <2> QED
      BY <2>1, <2>3, <2>4, <2>5 DEF Times
<1>4. Len(s) \in T
  <2> HIDE DEF T
  <2> QED
      BY <1>1, <1>2, <1>3, Factors!Induction
<1>5. Initial(Len(s)) = s
    BY ShapesAre
<1> QED
    BY <1>4, <1>5 DEF Numel

\* A matrix holds rows times columns numbers.
LEMMA NumelOfMatrix == ASSUME NEW x, NEW a \in Pos, NEW b \in Pos, x.shape = <<a, b>> PROVE Numel(x) = a * b
<1> DEFINE none == <<>>
           row == <<a>>
           both == <<a, b>>
<1>1. none \in Seq(Pos) /\ row \in Seq(Pos) /\ row = Append(none, a) /\ both = Append(row, b)
    OBVIOUS
<1>2. Factors!Loop(1, none) = 1
    BY Factors!LoopEnds
<1> HIDE DEF none, row, both
<1>3. Factors!Loop(1, Append(none, a)) = Times(Factors!Loop(1, none), a)
    BY <1>1, Factors!LoopGoesOn
<1>4. Factors!Loop(1, Append(row, b)) = Times(Factors!Loop(1, row), b)
    BY <1>1, Factors!LoopGoesOn
<1>5. Numel(x) = Times(Times(1, a), b)
    BY <1>1, <1>2, <1>3, <1>4 DEF Numel, both
<1> QED
    BY <1>5 DEF Times, Pos

-----------------------------------------------------------------------------
(* Broadcasting. *)

\* What two shapes broadcast to is a shape, of the higher rank.
LEMMA BroadcastIsShape ==
    ASSUME NEW s \in Shapes, NEW t \in Shapes, Broadcast(s, t) # NoTensor.shape
    PROVE  Broadcast(s, t) \in Shapes /\ Len(Broadcast(s, t)) = IF Len(s) > Len(t) THEN Len(s) ELSE Len(t)
<1> DEFINE n == IF Len(s) > Len(t) THEN Len(s) ELSE Len(t)
           f == [i \in 1..n |-> IF Extent(s, n, i) = 1 THEN Extent(t, n, i) ELSE Extent(s, n, i)]
<1>1. n \in Nat /\ n >= Len(s) /\ n >= Len(t)
    BY ShapesAre
<1>2. ASSUME NEW i \in 1..n PROVE Extent(s, n, i) \in Pos /\ Extent(t, n, i) \in Pos
  <2>1. ASSUME NEW u \in Shapes, Len(u) <= n PROVE Extent(u, n, i) \in Pos
    <3>1. Len(u) \in Nat /\ \A k \in 1..Len(u) : u[k] \in Pos
        BY ShapesAre
    <3>2. i > n - Len(u) => i - (n - Len(u)) \in 1..Len(u)
        BY <1>1, <2>1, <3>1
    <3> HIDE DEF n
    <3> QED
        BY <3>1, <3>2 DEF Extent, Pos
  <2> QED
      BY <1>1, <2>1
<1>3. f \in [1..n -> Pos]
  <2> HIDE DEF n
  <2> QED
      BY <1>2
<1>4. f \in Shapes /\ Len(f) = n
  <2> HIDE DEF n, f
  <2> QED
      BY <1>1, <1>3, ShapesAre
<1>5. Broadcast(s, t) = f
    BY DEF Broadcast
<1> QED
    BY <1>4, <1>5

\* A row of weights counts as a matrix of one row.
LEMMA BroadcastRow ==
    ASSUME NEW s \in Shapes, Len(s) = 2, NEW n \in Pos
    PROVE  Broadcast(s, <<n>>) = Broadcast(s, <<1, n>>)
<1>1. \A i \in 1..2 : Extent(<<n>>, 2, i) = Extent(<<1, n>>, 2, i)
    BY DEF Extent
<1>2. Len(<<n>>) = 1 /\ Len(<<1, n>>) = 2
    OBVIOUS
<1> DEFINE row == <<n>>
           matrix == <<1, n>>
<1>3. \A i \in 1..2 : Extent(row, 2, i) = Extent(matrix, 2, i)
    BY <1>1
<1> HIDE DEF row, matrix
<1>4. Len(row) = 1 /\ Len(matrix) = 2
    BY <1>2 DEF row, matrix
<1>5. Broadcast(s, row) = Broadcast(s, matrix)
    BY <1>3, <1>4 DEF Broadcast
<1> QED
    BY <1>5 DEF row, matrix

\* Two matrices broadcast extent by extent, where one of the extents is 1 or both are the same.
LEMMA BroadcastMatrices ==
    ASSUME NEW a \in Pos, NEW b \in Pos, NEW c \in Pos, NEW d \in Pos,
           Broadcast(<<a, b>>, <<c, d>>) # NoTensor.shape
    PROVE  /\ Broadcast(<<a, b>>, <<c, d>>) = <<IF a = 1 THEN c ELSE a, IF b = 1 THEN d ELSE b>>
           /\ (a = c \/ a = 1 \/ c = 1) /\ (b = d \/ b = 1 \/ d = 1)
<1> DEFINE s == <<a, b>>
           t == <<c, d>>
           r == <<IF a = 1 THEN c ELSE a, IF b = 1 THEN d ELSE b>>
<1>1. /\ Extent(s, 2, 1) = a /\ Extent(s, 2, 2) = b /\ Extent(t, 2, 1) = c /\ Extent(t, 2, 2) = d
      /\ Len(s) = 2 /\ Len(t) = 2
    BY DEF Extent
<1>2. s \in Shapes /\ t \in Shapes /\ r \in Shapes /\ Len(r) = 2
  <2>1. (IF a = 1 THEN c ELSE a) \in Pos /\ (IF b = 1 THEN d ELSE b) \in Pos
      OBVIOUS
  <2> QED
      BY <2>1, Tuples
<1>3. r[1] = (IF a = 1 THEN c ELSE a) /\ r[2] = IF b = 1 THEN d ELSE b
    OBVIOUS
<1> HIDE DEF s, t, r
<1>4. Broadcast(s, t) # NoTensor.shape
    BY DEF s, t
<1>5. Broadcast(s, t) \in Shapes /\ Len(Broadcast(s, t)) = 2
    BY <1>1, <1>2, <1>4, BroadcastIsShape
<1>6. /\ \A i \in 1..2 : Extent(s, 2, i) = Extent(t, 2, i) \/ 1 \in {Extent(s, 2, i), Extent(t, 2, i)}
      /\ Broadcast(s, t) = [i \in 1..2 |-> IF Extent(s, 2, i) = 1 THEN Extent(t, 2, i) ELSE Extent(s, 2, i)]
    BY <1>1, <1>4 DEF Broadcast
<1>7. \A i \in 1..2 : Broadcast(s, t)[i] = r[i]
    BY <1>1, <1>3, <1>6
<1>8. Broadcast(s, t) = r
    BY <1>2, <1>5, <1>7, ShapesAre
<1> QED
    BY <1>1, <1>6, <1>8 DEF s, t, r

\* A bias fits under the rows of its matrix.
LEMMA BroadcastBias ==
    ASSUME NEW a \in Pos, NEW n \in Pos
    PROVE  Broadcast(<<a, n>>, <<n>>) = <<a, n>>
<1> DEFINE s == <<a, n>>
           t == <<1, n>>
<1>1. s \in Shapes /\ Len(s) = 2 /\ t \in Shapes /\ Len(t) = 2
    BY Tuples DEF Pos
<1>2. \A i \in 1..2 : Extent(s, 2, i) = Extent(t, 2, i) \/ 1 \in {Extent(s, 2, i), Extent(t, 2, i)}
    BY DEF Extent
<1>3. \A i \in 1..2 : s[i] = IF Extent(s, 2, i) = 1 THEN Extent(t, 2, i) ELSE Extent(s, 2, i)
    BY DEF Extent
<1> HIDE DEF s, t
<1>4. Broadcast(s, t) = [i \in 1..2 |-> IF Extent(s, 2, i) = 1 THEN Extent(t, 2, i) ELSE Extent(s, 2, i)]
    BY <1>1, <1>2 DEF Broadcast
<1>5. Broadcast(s, t) = s
  <2>1. s = [i \in 1..2 |-> s[i]]
      BY <1>1, ShapesAre
  <2> QED
      BY <1>3, <1>4, <2>1
<1> QED
    BY <1>1, <1>5, BroadcastRow DEF s, t

\* A shape broadcasts to itself.
LEMMA BroadcastSame == ASSUME NEW s \in Shapes PROVE Broadcast(s, s) = s
<1>1. Len(s) \in Nat /\ s = [i \in 1..Len(s) |-> s[i]]
    BY ShapesAre
<1>2. \A i \in 1..Len(s) : Extent(s, Len(s), i) = s[i]
    BY <1>1 DEF Extent
<1>3. Broadcast(s, s) = [i \in 1..Len(s) |-> Extent(s, Len(s), i)]
    BY <1>1 DEF Broadcast
<1> QED
    BY <1>1, <1>2, <1>3

\* An operation on two tensors has a value exactly when their shapes broadcast.
LEMMA BothIs ==
    ASSUME NEW f, NEW x, NEW y, x.shape \in Shapes, y.shape \in Shapes
    PROVE  /\ Both(f, x, y).shape = Broadcast(x.shape, y.shape)
           /\ Exists(Both(f, x, y)) <=> Broadcast(x.shape, y.shape) # NoTensor.shape
<1>1. NoTensor.shape = <<0>> /\ Exists(x) /\ Exists(y)
  <2>1. NoTensor.shape = <<0>>
      BY DEF NoTensor, Tensor
  <2> QED
      BY <2>1, ShapesAre DEF Exists
<1> QED
    BY <1>1 DEF Both, Tensor, Exists

\* What both make depends on the shape they have together and on the terms.
LEMMA BothAgree ==
    ASSUME NEW f, NEW x, NEW y, NEW z, y.shape \in Shapes, z.shape \in Shapes, y.term = z.term,
           Broadcast(x.shape, y.shape) = Broadcast(x.shape, z.shape)
    PROVE  Both(f, x, y) = Both(f, x, z)
<1>1. NoTensor.shape = <<0>> /\ Exists(y) /\ Exists(z)
  <2>1. NoTensor.shape = <<0>>
      BY DEF NoTensor, Tensor
  <2> QED
      BY <2>1, ShapesAre DEF Exists
<1> QED
    BY <1>1 DEF Both

-----------------------------------------------------------------------------
(* What compile makes of one transformation: the operation op for LibTorch and the operation jop  *)
(* for JAX, how many operands they read, and the width compile keeps.                              *)

Elementwise == Activations \cup UnaryOps
Kinds ==
    Elementwise \cup Softmaxes \cup BinaryOps \cup
    {"affine", "matrix_product", "sum", "mean", "layer_norm", "rms_norm", "attention_mask", "attention",
     "mse", "cross_entropy"}

OfOneOperand(op, jop, arity, width) ==
    /\ arity = 1
    /\ \/ /\ op.kind = "affine"
          /\ \E n, m \in Pos :
                /\ op.own = <<Tensor(<<n, m>>, <<"w">>), Tensor(<<n>>, <<"b">>)>>
                /\ jop.own = <<Tensor(<<n, m>>, <<"w">>), Tensor(<<1, n>>, <<"b">>)>>
                /\ width = n
       \/ /\ op.kind = "matrix_product" /\ jop.own = op.own
          /\ \E n, m \in Pos : op.own = <<Tensor(<<m, n>>, <<"m">>)>> /\ width = n
       \/ op.kind \in Elementwise \cup Softmaxes
       \/ op.kind \in {"sum", "mean"} /\ op.dim = -1
       \/ /\ op.kind = "layer_norm"
          /\ op.own = <<Ones(width), Zeros(width)>> /\ jop.own = <<JaxRow(Ones(width)), JaxRow(Zeros(width))>>
       \/ op.kind = "rms_norm" /\ op.own = <<Ones(width)>> /\ jop.own = <<JaxRow(Ones(width))>>
       \/ /\ op.kind = "attention_mask" /\ jop.own = op.own
          /\ \E m, n \in Pos : op.own = <<Tensor(<<m, n>>, <<"mask">>)>> /\ width = n

OfMoreOperands(op, arity) ==
    \/ op.kind = "attention" /\ arity = 3
    \/ op.kind \in BinaryOps /\ arity = 2
    \/ op.kind \in {"mse", "cross_entropy"} /\ arity = 2

Lowered(op, jop, arity, width) ==
    /\ arity \in 1..3 /\ width \in Pos
    /\ jop.kind = op.kind /\ jop.in = op.in /\ jop.out = op.out /\ jop.dim = op.dim
    /\ OfOneOperand(op, jop, arity, width) \/ OfMoreOperands(op, arity)

\* The branches of Value, for the kinds compile uses.
LEMMA ValueIs ==
    ASSUME NEW op, NEW x, op.kind \in Kinds
    PROVE  /\ op.kind = "affine" => Value(op, x) = AffineValue(x[1], op.own[1], op.own[2])
           /\ op.kind = "matrix_product" => Value(op, x) = Product(x[1], op.own[1])
           /\ op.kind \in Elementwise => Value(op, x) = Each(op.kind, x[1])
           /\ op.kind \in Softmaxes => Value(op, x) = Along(op.kind, {Axis(x[1], op.dim)}, x[1])
           /\ op.kind = "layer_norm" => Value(op, x) = LayerNormValue(x[1], op.own[1], op.own[2])
           /\ op.kind = "rms_norm" => Value(op, x) = RMSNormValue(x[1], op.own[1])
           /\ op.kind = "attention_mask" => Value(op, x) = Both("add", x[1], op.own[1])
           /\ op.kind = "attention" => Value(op, x) = AttentionValue(x[1], x[2], x[3])
           /\ op.kind \in BinaryOps => Value(op, x) = Both(op.kind, x[1], x[2])
           /\ op.kind \in {"sum", "mean"} => Value(op, x) = ReductionValue(op.kind, x[1], op.dim)
           /\ op.kind \in {"mse", "cross_entropy"} => Value(op, x) = LossValue(op.kind, x[1], x[2])
BY DEF Value, Kinds, Elementwise, Activations, UnaryOps, Softmaxes, BinaryOps, Reductions, Losses

\* The branches of JaxValue.
LEMMA JaxValueIs ==
    ASSUME NEW op, NEW x, op.kind \in Kinds
    PROVE  /\ op.kind = "affine" => JaxValue(op, x) = JaxAffineValue(x[1], op.own[1], op.own[2])
           /\ op.kind = "matrix_product" => JaxValue(op, x) = Product(x[1], op.own[1])
           /\ op.kind \in Elementwise => JaxValue(op, x) = Each(op.kind, x[1])
           /\ op.kind \in Softmaxes => JaxValue(op, x) = JaxSoftmaxValue(op.kind, x[1], op.dim)
           /\ op.kind = "layer_norm" => JaxValue(op, x) = JaxLayerNormValue(x[1], op.own[1], op.own[2])
           /\ op.kind = "rms_norm" => JaxValue(op, x) = JaxRMSNormValue(x[1], op.own[1])
           /\ op.kind = "attention_mask" => JaxValue(op, x) = Both("add", x[1], op.own[1])
           /\ op.kind = "attention" => JaxValue(op, x) = JaxAttentionValue(x[1], x[2], x[3])
           /\ op.kind \in BinaryOps => JaxValue(op, x) = Both(op.kind, x[1], x[2])
           /\ op.kind = "mse" => JaxValue(op, x) = JaxMseValue(x[1], x[2])
           /\ op.kind = "cross_entropy" => JaxValue(op, x) = JaxCrossEntropyValue(x[1], x[2])
BY DEF JaxValue, Kinds, Elementwise, Activations, UnaryOps, Softmaxes, BinaryOps

\* No kind is in two of the groups.
LEMMA KindsApart ==
    ASSUME NEW kind
    PROVE  /\ kind \in {"affine", "matrix_product", "sum", "mean", "layer_norm", "rms_norm", "attention_mask"} =>
                  kind \notin Elementwise \cup Softmaxes
           /\ kind \in {"attention", "mse", "cross_entropy"} => kind \notin BinaryOps
           /\ kind \in Elementwise => kind \notin Softmaxes
           /\ kind \in Elementwise \cup Softmaxes \cup
                      {"affine", "matrix_product", "sum", "mean", "layer_norm", "rms_norm", "attention_mask"} =>
                  kind \notin BinaryOps \cup {"attention", "mse", "cross_entropy"}
BY DEF Elementwise, Activations, UnaryOps, Softmaxes, BinaryOps

\* What an operation of each kind owns, and the widths.
LEMMA OwnMatrix ==
    ASSUME NEW op, NEW jop, NEW arity, NEW width, OfOneOperand(op, jop, arity, width)
    PROVE  /\ op.kind = "matrix_product" =>
                  /\ jop.own = op.own
                  /\ \E n, m \in Pos : op.own = <<Tensor(<<m, n>>, <<"m">>)>> /\ width = n
           /\ op.kind = "attention_mask" =>
                  /\ jop.own = op.own
                  /\ \E m, n \in Pos : op.own = <<Tensor(<<m, n>>, <<"mask">>)>> /\ width = n
<1>1. op.kind \in {"attention_mask", "matrix_product"} => op.kind \notin Elementwise \cup Softmaxes
    BY KindsApart
<1> QED
    BY <1>1 DEF OfOneOperand

\* The weights of a norm, as the two backends wrap them.
LEMMA OwnNorm ==
    ASSUME NEW op, NEW jop, NEW arity, NEW width, OfOneOperand(op, jop, arity, width)
    PROVE  /\ op.kind = "layer_norm" =>
                  /\ op.own[1] = Ones(width) /\ op.own[2] = Zeros(width)
                  /\ jop.own[1] = JaxRow(Ones(width)) /\ jop.own[2] = JaxRow(Zeros(width))
           /\ op.kind = "rms_norm" => op.own[1] = Ones(width) /\ jop.own[1] = JaxRow(Ones(width))
           /\ op.kind \in {"sum", "mean"} => op.dim = -1
<1>1. op.kind \in {"sum", "mean", "layer_norm", "rms_norm"} => op.kind \notin Elementwise \cup Softmaxes
    BY KindsApart
<1>2. op.kind \in Elementwise \cup Softmaxes =>
          op.kind \notin {"affine", "matrix_product", "sum", "mean", "layer_norm", "rms_norm", "attention_mask"}
    BY KindsApart
<1> QED
    BY <1>1, <1>2 DEF OfOneOperand

-----------------------------------------------------------------------------
(* The values, kind by kind: shapes, and what JAX makes of the same operands. *)

\* NoTensor is told from a tensor by its extent 0.
LEMMA NothingIs == NoTensor.shape = <<0>> /\ Len(NoTensor.shape) = 1 /\ ~Exists(NoTensor)
BY DEF NoTensor, Tensor, Exists

\* A tensor with positive extents exists.
LEMMA ShapedExists == ASSUME NEW x, x.shape \in Shapes PROVE Exists(x)
BY NothingIs, ShapesAre DEF Exists

\* A product has the rows of the one and the columns of the other.
LEMMA ProductIs ==
    ASSUME NEW x, NEW y, Exists(Product(x, y))
    PROVE  /\ Len(x.shape) = 2 /\ Len(y.shape) = 2 /\ x.shape[2] = y.shape[1]
           /\ Product(x, y).shape = <<x.shape[1], y.shape[2]>>
BY NothingIs DEF Product, Tensor

\* An affine layer: its value has one column per bias, and JAX, which wraps the bias as a row, computes the same.
LEMMA AffineIs ==
    ASSUME NEW x, x.shape \in Shapes, NEW n \in Pos, NEW m \in Pos,
           NEW w, w = Tensor(<<n, m>>, <<"w">>),
           NEW b, b = Tensor(<<n>>, <<"b">>), NEW jb, jb = Tensor(<<1, n>>, <<"b">>),
           Exists(AffineValue(x, w, b))
    PROVE  /\ Len(x.shape) = 2 /\ x.shape[1] \in Pos
           /\ AffineValue(x, w, b).shape = <<x.shape[1], n>>
           /\ JaxAffineValue(x, w, jb) = AffineValue(x, w, b)
<1> DEFINE t == Transposed(w)
           p == Product(x, t)
<1>1. t = Tensor(<<m, n>>, <<"transposed", w.term>>) /\ t.shape = <<m, n>>
    BY DEF Transposed, Tensor
<1>2. b.shape = <<n>> /\ jb.shape = <<1, n>> /\ b.term = jb.term /\ b.shape \in Shapes /\ jb.shape \in Shapes
    BY Tuples DEF Tensor, Pos
<1> HIDE DEF t, p
<1>3. Exists(p)
    BY NothingIs DEF AffineValue, Both, p, t
<1>4. Len(x.shape) = 2 /\ p.shape = <<x.shape[1], n>>
    BY <1>1, <1>3, ProductIs DEF p
<1>5. x.shape[1] \in Pos
    BY <1>4, ShapesAre
<1>6. p.shape \in Shapes /\ Len(p.shape) = 2
    BY <1>4, <1>5, Tuples
<1>7. Broadcast(p.shape, b.shape) = p.shape /\ Broadcast(p.shape, jb.shape) = p.shape
    BY <1>2, <1>4, <1>5, <1>6, BroadcastBias, BroadcastRow
<1>8. Both("add", p, b) = Both("add", p, jb) /\ Both("add", p, b).shape = p.shape
  <2>1. Both("add", p, b) = Both("add", p, jb)
      BY <1>2, <1>7, BothAgree
  <2>2. Both("add", p, b).shape = p.shape
      BY <1>2, <1>6, <1>7, BothIs
  <2> QED
      BY <2>1, <2>2
<1> QED
    BY <1>4, <1>5, <1>8 DEF AffineValue, JaxAffineValue, p, t

\* Both of two tensors of the ranks 0 and 2.
LEMMA BothOf ==
    ASSUME NEW f, NEW x, NEW y, x.shape \in Shapes, y.shape \in Shapes, Exists(Both(f, x, y))
    PROVE  /\ Both(f, x, y).shape \in Shapes
           /\ Len(x.shape) \in {0, 2} /\ Len(y.shape) \in {0, 2} => Len(Both(f, x, y).shape) \in {0, 2}
<1>1. Broadcast(x.shape, y.shape) # NoTensor.shape /\ Both(f, x, y).shape = Broadcast(x.shape, y.shape)
    BY BothIs
<1> QED
    BY <1>1, BroadcastIsShape

\* The norms multiply by a row of weights: the shape stays when it has as many columns.
LEMMA ScaledIs ==
    ASSUME NEW f, NEW x, x.shape \in Shapes, Len(x.shape) = 2, NEW n \in Pos, NEW w, w.shape = <<n>>
    PROVE  /\ Both(f, x, JaxRow(w)) = Both(f, x, w)
           /\ x.shape[2] = n => Both(f, x, w).shape = x.shape
           /\ Exists(Both(f, x, w)) =>
                  /\ Both(f, x, w).shape \in Shapes /\ Len(Both(f, x, w).shape) = 2
                  /\ Both(f, x, w).shape = <<x.shape[1], IF x.shape[2] = 1 THEN n ELSE x.shape[2]>>
<1>1. w.shape \in Shapes /\ Len(w.shape) = 1 /\ <<1, n>> \in Shapes
    BY Tuples DEF Pos
<1>2. JaxRow(w).shape = <<1, n>> /\ JaxRow(w).term = w.term
    BY DEF JaxRow, Tensor
<1>3. Broadcast(x.shape, <<1, n>>) = Broadcast(x.shape, w.shape)
    BY BroadcastRow
<1>4. Both(f, x, JaxRow(w)) = Both(f, x, w)
  <2> DEFINE row == JaxRow(w)
  <2>1. row.shape = <<1, n>> /\ row.shape \in Shapes /\ row.term = w.term
      BY <1>1, <1>2
  <2> HIDE DEF row
  <2>2. Both(f, x, row) = Both(f, x, w)
      BY <1>1, <1>3, <2>1, BothAgree
  <2> QED
      BY <2>2 DEF row
<1>5. ASSUME x.shape[2] = n PROVE Both(f, x, w).shape = x.shape
  <2>1. x.shape = <<x.shape[1], n>> /\ x.shape[1] \in Pos
      BY <1>5, Tuples, ShapesAre
  <2>2. Broadcast(x.shape, w.shape) = x.shape
      BY <2>1, BroadcastBias
  <2> QED
      BY <1>1, <2>2, BothIs
<1>6. ASSUME Exists(Both(f, x, w))
      PROVE  /\ Both(f, x, w).shape \in Shapes /\ Len(Both(f, x, w).shape) = 2
             /\ Both(f, x, w).shape = <<x.shape[1], IF x.shape[2] = 1 THEN n ELSE x.shape[2]>>
  <2>1. Both(f, x, w).shape = Broadcast(x.shape, w.shape) /\ Broadcast(x.shape, w.shape) # NoTensor.shape
      BY <1>1, <1>6, BothIs
  <2>2. Both(f, x, w).shape \in Shapes /\ Len(Both(f, x, w).shape) = 2
      BY <1>1, <2>1, BroadcastIsShape
  <2> DEFINE a == x.shape[1]
             c == x.shape[2]
             one == 1
  <2>3. x.shape = <<a, c>> /\ a \in Pos /\ c \in Pos /\ one \in Pos
      BY Tuples, ShapesAre DEF Pos
  <2>4. Broadcast(x.shape, w.shape) = Broadcast(<<a, c>>, <<one, n>>)
      BY <1>3, <2>3
  <2> HIDE DEF a, c, one
  <2>5. Broadcast(<<a, c>>, <<one, n>>) # NoTensor.shape
      BY <2>1, <2>4
  <2>6. Broadcast(<<a, c>>, <<one, n>>) = <<IF a = 1 THEN one ELSE a, IF c = 1 THEN n ELSE c>>
      BY <2>3, <2>5, BroadcastMatrices
  <2>7. (IF a = 1 THEN one ELSE a) = a
      BY DEF one
  <2>8. Both(f, x, w).shape = <<a, IF c = 1 THEN n ELSE c>>
      BY <2>1, <2>4, <2>6, <2>7
  <2> QED
      BY <2>2, <2>8 DEF a, c
<1> QED
    BY <1>4, <1>5, <1>6

\* An elementwise operation keeps the shape.
LEMMA EachIs ==
    ASSUME NEW f, NEW x, x.shape \in Shapes
    PROVE  Each(f, x) = Tensor(x.shape, <<f, x.term>>) /\ Each(f, x).shape = x.shape
BY ShapedExists DEF Each, Tensor

\* An operation along an axis keeps the shape.
LEMMA AlongIs ==
    ASSUME NEW f, NEW axes, NEW x, x.shape \in Shapes
    PROVE  Along(f, axes, x).shape = x.shape
BY ShapedExists DEF Along, Tensor

\* A reduction of the last axis; its result is a shape again.
LEMMA ReducedIs ==
    ASSUME NEW f, NEW axes, NEW x, x.shape \in Shapes
    PROVE  /\ Reduced(f, axes, x).shape \in Shapes /\ Len(Reduced(f, axes, x).shape) = Len(x.shape)
           /\ Len(x.shape) = 2 /\ axes = {2} => Reduced(f, axes, x).shape = <<x.shape[1], 1>>
<1> DEFINE s == x.shape
           r == [i \in DOMAIN s |-> IF i \in axes THEN 1 ELSE s[i]]
<1>1. Reduced(f, axes, x).shape = r
    BY ShapedExists DEF Reduced, Tensor
<1>2. Len(s) \in Nat /\ DOMAIN s = 1..Len(s) /\ r \in [1..Len(s) -> Pos]
  <2>1. Len(s) \in Nat /\ DOMAIN s = 1..Len(s) /\ \A i \in 1..Len(s) : s[i] \in Pos
      BY ShapesAre
  <2> HIDE DEF s
  <2> QED
      BY <2>1 DEF Pos
<1>3. r \in Shapes /\ Len(r) = Len(s)
  <2> HIDE DEF s, r
  <2> QED
      BY <1>2, ShapesAre
<1>4. ASSUME Len(s) = 2, axes = {2} PROVE r = <<s[1], 1>>
  <2>1. r[1] = s[1] /\ r[2] = 1
      BY <1>2, <1>4
  <2> HIDE DEF s, r
  <2> QED
      BY <1>3, <1>4, <2>1, Tuples
<1> QED
    BY <1>1, <1>3, <1>4

\* Layer normalisation keeps the shape of a matrix, in both backends.
LEMMA LayerNormIs ==
    ASSUME NEW x, x.shape \in Shapes, NEW n \in Pos, Exists(LayerNormValue(x, Ones(n), Zeros(n)))
    PROVE  /\ LayerNormValue(x, Ones(n), Zeros(n)).shape \in Shapes
           /\ Len(x.shape) = 2 => /\ LayerNormValue(x, Ones(n), Zeros(n)).shape = x.shape
                                  /\ JaxLayerNormValue(x, JaxRow(Ones(n)), JaxRow(Zeros(n))) =
                                         LayerNormValue(x, Ones(n), Zeros(n))
           /\ Len(x.shape) # 0
<1> DEFINE w == Ones(n)
           b == Zeros(n)
           e == Each("layer_normalised", x)
           m == Both("mul", e, w)
<1>1. w.shape = <<n>> /\ b.shape = <<n>>
    BY DEF Ones, Zeros, Tensor
<1> HIDE DEF w, b
<1>2. x.shape # <<>> /\ x.shape[Len(x.shape)] = n /\ LayerNormValue(x, w, b) = Both("add", m, b)
    BY <1>1, NothingIs DEF LayerNormValue, w, b
<1>3. e.shape = x.shape
    BY EachIs
<1> HIDE DEF e, m
<1>4. Exists(m)
    BY <1>2, NothingIs DEF Both, w, b
<1>5. w.shape \in Shapes /\ b.shape \in Shapes
    BY <1>1, Tuples
<1>6. m.shape \in Shapes
    BY <1>3, <1>4, <1>5, BothOf DEF m
<1>7. LayerNormValue(x, w, b).shape \in Shapes
    BY <1>2, <1>5, <1>6, BothOf DEF w, b
<1>8. Len(x.shape) # 0
    BY <1>2, Tuples
<1>9. ASSUME Len(x.shape) = 2
      PROVE  /\ LayerNormValue(x, w, b).shape = x.shape
             /\ JaxLayerNormValue(x, JaxRow(w), JaxRow(b)) = LayerNormValue(x, w, b)
  <2>1. m.shape = x.shape /\ Both("mul", e, JaxRow(w)) = m
    <3>1. e.shape \in Shapes /\ Len(e.shape) = 2 /\ e.shape[2] = n
        BY <1>2, <1>3, <1>9
    <3>2. Both("mul", e, w).shape = e.shape /\ Both("mul", e, JaxRow(w)) = Both("mul", e, w)
        BY <1>1, <3>1, ScaledIs
    <3> QED
        BY <1>3, <3>2 DEF m
  <2>2. Both("add", m, b).shape = x.shape /\ Both("add", m, JaxRow(b)) = Both("add", m, b)
    <3>1. m.shape \in Shapes /\ Len(m.shape) = 2 /\ m.shape[2] = n
        BY <1>2, <1>6, <1>9, <2>1
    <3>2. Both("add", m, b).shape = m.shape /\ Both("add", m, JaxRow(b)) = Both("add", m, b)
        BY <1>1, <3>1, ScaledIs
    <3> QED
        BY <2>1, <3>2
  <2>3. JaxLayerNormValue(x, JaxRow(w), JaxRow(b)) = Both("add", Both("mul", e, JaxRow(w)), JaxRow(b))
      BY <1>2 DEF JaxLayerNormValue, e
  <2> QED
      BY <1>2, <2>1, <2>2, <2>3
<1> QED
    BY <1>7, <1>8, <1>9 DEF w, b

\* RMS normalisation, in both backends.
LEMMA RMSNormIs ==
    ASSUME NEW x, x.shape \in Shapes, NEW n \in Pos, Exists(RMSNormValue(x, Ones(n)))
    PROVE  /\ RMSNormValue(x, Ones(n)).shape \in Shapes
           /\ Len(x.shape) = 2 => /\ Len(RMSNormValue(x, Ones(n)).shape) = 2
                                  /\ RMSNormValue(x, Ones(n)).shape =
                                         <<x.shape[1], IF x.shape[2] = 1 THEN n ELSE x.shape[2]>>
                                  /\ JaxRMSNormValue(x, JaxRow(Ones(n))) = RMSNormValue(x, Ones(n))
<1> DEFINE w == Ones(n)
           e == Each("rms_normalised", x)
<1>1. w.shape = <<n>> /\ w.shape \in Shapes
    BY Tuples DEF Ones, Tensor
<1> HIDE DEF w
<1>2. e.shape = x.shape
    BY EachIs
<1> HIDE DEF e
<1>3. RMSNormValue(x, w) = Both("mul", e, w)
    BY DEF RMSNormValue, e
<1>4. RMSNormValue(x, w).shape \in Shapes
    BY <1>1, <1>2, <1>3, BothOf DEF w
<1>5. ASSUME Len(x.shape) = 2
      PROVE  /\ Len(RMSNormValue(x, w).shape) = 2
             /\ RMSNormValue(x, w).shape = <<x.shape[1], IF x.shape[2] = 1 THEN n ELSE x.shape[2]>>
             /\ JaxRMSNormValue(x, JaxRow(w)) = RMSNormValue(x, w)
  <2>1. /\ Both("mul", e, JaxRow(w)) = Both("mul", e, w)
        /\ Exists(Both("mul", e, w)) =>
              /\ Len(Both("mul", e, w).shape) = 2
              /\ Both("mul", e, w).shape = <<x.shape[1], IF x.shape[2] = 1 THEN n ELSE x.shape[2]>>
      BY <1>1, <1>2, <1>5, ScaledIs
  <2>2. x.shape # <<>>
      BY <1>5, Tuples
  <2>3. JaxRMSNormValue(x, JaxRow(w)) = Both("mul", e, JaxRow(w))
      BY <2>2 DEF JaxRMSNormValue, e
  <2> QED
      BY <1>3, <2>1, <2>3 DEF w
<1> QED
    BY <1>4, <1>5 DEF w

\* Attention: the rows of the query and the columns of the values, in both backends.
LEMMA AttentionIs ==
    ASSUME NEW q, NEW k, NEW v, q.shape \in Shapes, k.shape \in Shapes, v.shape \in Shapes,
           Exists(AttentionValue(q, k, v))
    PROVE  /\ AttentionValue(q, k, v).shape \in Shapes /\ Len(AttentionValue(q, k, v).shape) = 2
           /\ AttentionValue(q, k, v).shape = <<q.shape[1], v.shape[2]>>
           /\ JaxAttentionValue(q, k, v) = AttentionValue(q, k, v)
<1> DEFINE p == Product(q, Transposed(k))
           e == Each("scaled", p)
           a == Along("softmax", {2}, e)
<1>1. AttentionValue(q, k, v) = Product(a, v)
    BY DEF AttentionValue
<1>2. Len(a.shape) = 2 /\ Len(v.shape) = 2 /\ Product(a, v).shape = <<a.shape[1], v.shape[2]>>
    BY <1>1, ProductIs
<1>3. Exists(e) /\ a.shape = e.shape
  <2> HIDE DEF e
  <2>1. Exists(e)
      BY <1>2, NothingIs DEF Along
  <2> QED
      BY <2>1 DEF Along, Tensor
<1>4. Exists(p) /\ e.shape = p.shape
  <2> HIDE DEF p
  <2>1. Exists(p)
      BY <1>3, NothingIs DEF Each
  <2> QED
      BY <2>1 DEF Each, Tensor
<1>5. Len(q.shape) = 2 /\ p.shape = <<q.shape[1], Transposed(k).shape[2]>>
    BY <1>4, ProductIs
<1> HIDE DEF p, e, a
<1>6. a.shape[1] = q.shape[1] /\ Len(e.shape) = 2
    BY <1>2, <1>3, <1>4, <1>5
<1>7. q.shape[1] \in Pos /\ v.shape[2] \in Pos
    BY <1>2, <1>5, ShapesAre
<1>8. AttentionValue(q, k, v).shape = <<q.shape[1], v.shape[2]>>
    BY <1>1, <1>2, <1>6
<1>9. JaxSoftmaxValue("softmax", e, -1) = a
  <2>1. e.shape # <<>>
      BY <1>6, Tuples
  <2>2. Axis(e, -1) = 2
      BY <1>6 DEF Axis
  <2> QED
      BY <2>1, <2>2 DEF JaxSoftmaxValue, a
<1>10. JaxAttentionValue(q, k, v) = Product(a, v)
    BY <1>9 DEF JaxAttentionValue, e, p
<1> QED
    BY <1>1, <1>7, <1>8, <1>10, Tuples

\* A loss is a scalar, in both backends.
LEMMA LossIs ==
    ASSUME NEW x, NEW t, x.shape \in Shapes, t.shape \in Shapes, NEW f \in {"mse", "cross_entropy"},
           Exists(LossValue(f, x, t))
    PROVE  /\ LossValue(f, x, t).shape = <<>>
           /\ f = "mse" => JaxMseValue(x, t) = LossValue(f, x, t)
           /\ f = "cross_entropy" => JaxCrossEntropyValue(x, t) = LossValue(f, x, t)
<1>1. LossValue(f, x, t) = Scalar(f, x, t)
    BY NothingIs DEF LossValue
<1>2. Scalar(f, x, t).shape = <<>>
    BY DEF Scalar, Tensor
<1>3. ASSUME f = "mse" PROVE JaxMseValue(x, t) = LossValue(f, x, t)
    BY <1>3, NothingIs DEF LossValue, JaxMseValue
<1>4. ASSUME f = "cross_entropy" PROVE JaxCrossEntropyValue(x, t) = LossValue(f, x, t)
  <2>1. x.shape = t.shape /\ x.shape # <<>>
      BY <1>4, NothingIs DEF LossValue
  <2>2. Broadcast(t.shape, x.shape) # NoTensor.shape
      BY <2>1, BroadcastSame, ShapesAre
  <2>3. Exists(Both("mul", t, x))
      BY <2>2, BothIs
  <2> QED
      BY <1>1, <1>4, <2>1, <2>3 DEF JaxCrossEntropyValue
<1> QED
    BY <1>1, <1>2, <1>3, <1>4

-----------------------------------------------------------------------------
(* What a lowered operation makes of operands that are there, kind by kind. *)

\* compile uses the kinds listed, and each has an operand.
LEMMA LoweredKinds ==
    ASSUME NEW op, NEW jop, NEW arity, NEW width, Lowered(op, jop, arity, width)
    PROVE  /\ op.kind \in Kinds /\ jop.kind = op.kind /\ arity \in 1..3 /\ arity \in Nat /\ width \in Pos
           /\ op.kind \notin {"attention", "mse", "cross_entropy"} \cup BinaryOps =>
                  OfOneOperand(op, jop, arity, width)
           /\ op.kind \in {"attention", "mse", "cross_entropy"} \cup BinaryOps => OfMoreOperands(op, arity)
           /\ 1 \in 1..arity
<1>1. CASE OfOneOperand(op, jop, arity, width)
  <2>1. op.kind \in Elementwise \cup Softmaxes \cup
                    {"affine", "matrix_product", "sum", "mean", "layer_norm", "rms_norm", "attention_mask"}
      BY <1>1 DEF OfOneOperand
  <2>2. op.kind \in Kinds /\ op.kind \notin {"attention", "mse", "cross_entropy"} \cup BinaryOps
      BY <2>1, KindsApart DEF Kinds
  <2> QED
      BY <1>1, <2>2 DEF Lowered
<1>2. CASE OfMoreOperands(op, arity)
  <2>1. op.kind \in Kinds /\ op.kind \in {"attention", "mse", "cross_entropy"} \cup BinaryOps
      BY <1>2 DEF OfMoreOperands, Kinds
  <2>2. jop.kind = op.kind /\ arity \in 1..3 /\ width \in Pos
      BY DEF Lowered
  <2>3. arity \in Nat /\ 1 \in 1..arity
      BY <2>2
  <2> QED
      BY <1>2, <2>1, <2>2, <2>3, Zenon
<1> QED
    BY <1>1, <1>2 DEF Lowered

\* The lemmas of this section say, of one kind each, what shape its value has, that JAX makes the
\* same of matrices, and which width compile read off the weights.
LEMMA LoweredAffine ==
    ASSUME NEW op, NEW jop, NEW arity, NEW width, Lowered(op, jop, arity, width),
           NEW x, x[1].shape \in Shapes, op.kind = "affine", Exists(Value(op, x))
    PROVE  /\ Len(x[1].shape) = 2 /\ x[1].shape[1] \in Pos /\ width \in Pos
           /\ Value(op, x).shape = <<x[1].shape[1], width>> /\ JaxValue(jop, x) = Value(op, x)
<1>1. op.kind \in Kinds /\ jop.kind \in Kinds /\ jop.kind = "affine" /\ OfOneOperand(op, jop, arity, width)
  <2>1. op.kind \notin {"attention", "mse", "cross_entropy"} \cup BinaryOps
      BY DEF BinaryOps
  <2> QED
      BY <2>1, LoweredKinds
<1>0. op.kind \notin Elementwise \cup Softmaxes
    BY KindsApart
<1>2. PICK n \in Pos, m \in Pos :
          /\ op.own = <<Tensor(<<n, m>>, <<"w">>), Tensor(<<n>>, <<"b">>)>>
          /\ jop.own = <<Tensor(<<n, m>>, <<"w">>), Tensor(<<1, n>>, <<"b">>)>>
          /\ width = n
    BY <1>0, <1>1 DEF OfOneOperand
<1> DEFINE w == Tensor(<<n, m>>, <<"w">>)
           b == Tensor(<<n>>, <<"b">>)
           jb == Tensor(<<1, n>>, <<"b">>)
           y == x[1]
<1>3. op.own[1] = w /\ op.own[2] = b /\ jop.own[1] = w /\ jop.own[2] = jb
    BY <1>2
<1>4. Value(op, x) = AffineValue(y, op.own[1], op.own[2])
    BY <1>1, ValueIs
<1>5. JaxValue(jop, x) = JaxAffineValue(y, jop.own[1], jop.own[2])
    BY <1>1, JaxValueIs
<1>6. y.shape \in Shapes
    OBVIOUS
<1>7. Exists(AffineValue(y, w, b))
    BY <1>3, <1>4
<1>8. /\ Len(y.shape) = 2 /\ y.shape[1] \in Pos
      /\ AffineValue(y, w, b).shape = <<y.shape[1], n>>
      /\ JaxAffineValue(y, w, jb) = AffineValue(y, w, b)
  <2> HIDE DEF y
  <2> QED
      BY <1>6, <1>7, AffineIs
<1> HIDE DEF w, b, jb
<1> QED
    BY <1>2, <1>3, <1>4, <1>5, <1>8 DEF y

\* The same for products with a matrix of the plan.
LEMMA LoweredProduct ==
    ASSUME NEW op, NEW jop, NEW arity, NEW width, Lowered(op, jop, arity, width),
           NEW x, x[1].shape \in Shapes, op.kind = "matrix_product", Exists(Value(op, x))
    PROVE  /\ Len(x[1].shape) = 2 /\ x[1].shape[1] \in Pos /\ width \in Pos
           /\ Value(op, x).shape = <<x[1].shape[1], width>> /\ JaxValue(jop, x) = Value(op, x)
<1>1. op.kind \in Kinds /\ jop.kind \in Kinds /\ jop.kind = "matrix_product" /\ OfOneOperand(op, jop, arity, width)
  <2>1. op.kind \notin {"attention", "mse", "cross_entropy"} \cup BinaryOps
      BY DEF BinaryOps
  <2> QED
      BY <2>1, LoweredKinds
<1>2. /\ jop.own = op.own
      /\ \E n, m \in Pos : op.own = <<Tensor(<<m, n>>, <<"m">>)>> /\ width = n
    BY <1>1, OwnMatrix
<1>3. PICK n \in Pos, m \in Pos : op.own = <<Tensor(<<m, n>>, <<"m">>)>> /\ width = n
    BY <1>2
<1>4. op.own[1].shape[2] = n
    BY <1>3 DEF Tensor
<1>5. Value(op, x) = Product(x[1], op.own[1])
    BY <1>1, ValueIs
<1>6. JaxValue(jop, x) = Product(x[1], jop.own[1])
    BY <1>1, JaxValueIs
<1> DEFINE y == x[1]
           z == op.own[1]
<1>7. y.shape \in Shapes /\ Exists(Product(y, z)) /\ z.shape[2] = n
    BY <1>4, <1>5
<1>8. Len(y.shape) = 2 /\ Product(y, z).shape = <<y.shape[1], n>>
  <2> HIDE DEF y, z
  <2> QED
      BY <1>7, ProductIs
<1>9. y.shape[1] \in Pos
  <2> HIDE DEF y
  <2> QED
      BY <1>7, <1>8, ShapesAre
<1> QED
    BY <1>2, <1>3, <1>5, <1>6, <1>8, <1>9

\* The same for elementwise operations.
LEMMA LoweredEach ==
    ASSUME NEW op, NEW jop, NEW arity, NEW width, Lowered(op, jop, arity, width),
           NEW x, x[1].shape \in Shapes, op.kind \in Elementwise
    PROVE  Value(op, x).shape = x[1].shape /\ JaxValue(jop, x) = Value(op, x)
<1>1. op.kind \in Kinds /\ jop.kind = op.kind /\ OfOneOperand(op, jop, arity, width)
  <2>1. op.kind \notin {"attention", "mse", "cross_entropy"} \cup BinaryOps
      BY KindsApart
  <2> QED
      BY <2>1, LoweredKinds
<1> DEFINE y == x[1]
           f == op.kind
<1>3. Value(op, x) = Each(f, y)
    BY <1>1, ValueIs
<1>4. JaxValue(jop, x) = Each(jop.kind, y)
    BY <1>1, JaxValueIs
<1>5. y.shape \in Shapes
    OBVIOUS
<1>6. Each(f, y).shape = y.shape
  <2> HIDE DEF y, f
  <2> QED
      BY <1>5, EachIs
<1> QED
    BY <1>1, <1>3, <1>4, <1>6

\* The same for the softmaxes.
LEMMA LoweredAlong ==
    ASSUME NEW op, NEW jop, NEW arity, NEW width, Lowered(op, jop, arity, width),
           NEW x, x[1].shape \in Shapes, op.kind \in Softmaxes
    PROVE  /\ Value(op, x).shape = x[1].shape
           /\ x[1].shape # <<>> => JaxValue(jop, x) = Value(op, x)
<1>1. op.kind \in Kinds /\ jop.kind = op.kind /\ jop.dim = op.dim /\ OfOneOperand(op, jop, arity, width)
  <2>1. op.kind \notin {"attention", "mse", "cross_entropy"} \cup BinaryOps
      BY KindsApart
  <2> QED
      BY <2>1, LoweredKinds DEF Lowered
<1> DEFINE y == x[1]
           f == op.kind
           axes == {Axis(y, op.dim)}
<1>3. Value(op, x) = Along(f, axes, y)
    BY <1>1, ValueIs
<1>4. JaxValue(jop, x) = JaxSoftmaxValue(jop.kind, y, jop.dim)
    BY <1>1, JaxValueIs
<1>5. y.shape # <<>> => JaxValue(jop, x) = Along(f, axes, y)
    BY <1>1, <1>4 DEF JaxSoftmaxValue
<1>6. y.shape \in Shapes
    OBVIOUS
<1>7. Along(f, axes, y).shape = y.shape
  <2> HIDE DEF y, f, axes
  <2> QED
      BY <1>6, AlongIs
<1> QED
    BY <1>3, <1>5, <1>7

\* The same for sums and means.
LEMMA LoweredReduced ==
    ASSUME NEW op, NEW jop, NEW arity, NEW width, Lowered(op, jop, arity, width),
           NEW x, x[1].shape \in Shapes, op.kind \in {"sum", "mean"}
    PROVE  /\ Value(op, x).shape \in Shapes
           /\ Len(x[1].shape) = 2 => Value(op, x).shape = <<x[1].shape[1], 1>>
<1>1. op.kind \in Kinds /\ OfOneOperand(op, jop, arity, width)
  <2>1. op.kind \notin {"attention", "mse", "cross_entropy"} \cup BinaryOps
      BY DEF BinaryOps
  <2> QED
      BY <2>1, LoweredKinds
<1>2. op.dim = -1
    BY <1>1, OwnNorm
<1> DEFINE y == x[1]
           f == op.kind
           axes == {Axis(y, op.dim)}
<1>3. Value(op, x) = Reduced(f, axes, y)
  <2>1. Value(op, x) = ReductionValue(f, y, op.dim)
      BY <1>1, ValueIs
  <2> QED
      BY <2>1 DEF ReductionValue
<1>4. Len(y.shape) = 2 => axes = {2}
    BY <1>2 DEF Axis
<1>5. y.shape \in Shapes
    OBVIOUS
<1>6. /\ Reduced(f, axes, y).shape \in Shapes
      /\ Len(y.shape) = 2 => Reduced(f, axes, y).shape = <<y.shape[1], 1>>
  <2> HIDE DEF y, f, axes
  <2> QED
      BY <1>4, <1>5, ReducedIs
<1> HIDE DEF f, axes
<1> QED
    BY <1>2, <1>3, <1>6

\* The same for layer normalisation.
LEMMA LoweredLayerNorm ==
    ASSUME NEW op, NEW jop, NEW arity, NEW width, Lowered(op, jop, arity, width),
           NEW x, x[1].shape \in Shapes, op.kind = "layer_norm", Exists(Value(op, x))
    PROVE  /\ Value(op, x).shape \in Shapes /\ Len(x[1].shape) # 0
           /\ Len(x[1].shape) = 2 => Value(op, x).shape = x[1].shape /\ JaxValue(jop, x) = Value(op, x)
<1>1. op.kind \in Kinds /\ jop.kind \in Kinds /\ jop.kind = "layer_norm" /\ OfOneOperand(op, jop, arity, width)
  <2>1. op.kind \notin {"attention", "mse", "cross_entropy"} \cup BinaryOps
      BY DEF BinaryOps
  <2> QED
      BY <2>1, LoweredKinds
<1>2. /\ op.own[1] = Ones(width) /\ op.own[2] = Zeros(width)
      /\ jop.own[1] = JaxRow(Ones(width)) /\ jop.own[2] = JaxRow(Zeros(width))
    BY <1>1, OwnNorm
<1> DEFINE y == x[1]
           n == width
<1>3. Value(op, x) = LayerNormValue(y, op.own[1], op.own[2])
    BY <1>1, ValueIs
<1>4. JaxValue(jop, x) = JaxLayerNormValue(y, jop.own[1], jop.own[2])
    BY <1>1, JaxValueIs
<1>5. y.shape \in Shapes /\ n \in Pos
    BY LoweredKinds
<1>6. /\ Value(op, x) = LayerNormValue(y, Ones(n), Zeros(n))
      /\ JaxValue(jop, x) = JaxLayerNormValue(y, JaxRow(Ones(n)), JaxRow(Zeros(n)))
    BY <1>2, <1>3, <1>4
<1> HIDE DEF y, n
<1>7. Exists(LayerNormValue(y, Ones(n), Zeros(n)))
    BY <1>6
<1>8. /\ LayerNormValue(y, Ones(n), Zeros(n)).shape \in Shapes /\ Len(y.shape) # 0
      /\ Len(y.shape) = 2 => /\ LayerNormValue(y, Ones(n), Zeros(n)).shape = y.shape
                             /\ JaxLayerNormValue(y, JaxRow(Ones(n)), JaxRow(Zeros(n))) =
                                    LayerNormValue(y, Ones(n), Zeros(n))
    BY <1>5, <1>7, LayerNormIs
<1> QED
    BY <1>2, <1>6, <1>8 DEF y

\* The same for RMS normalisation.
LEMMA LoweredRMSNorm ==
    ASSUME NEW op, NEW jop, NEW arity, NEW width, Lowered(op, jop, arity, width),
           NEW x, x[1].shape \in Shapes, op.kind = "rms_norm", Exists(Value(op, x))
    PROVE  /\ Value(op, x).shape \in Shapes
           /\ Len(x[1].shape) = 2 => /\ Len(Value(op, x).shape) = 2 /\ JaxValue(jop, x) = Value(op, x)
                                     /\ Value(op, x).shape =
                                            <<x[1].shape[1], IF x[1].shape[2] = 1 THEN width ELSE x[1].shape[2]>>
<1>1. op.kind \in Kinds /\ jop.kind \in Kinds /\ jop.kind = "rms_norm" /\ OfOneOperand(op, jop, arity, width)
  <2>1. op.kind \notin {"attention", "mse", "cross_entropy"} \cup BinaryOps
      BY DEF BinaryOps
  <2> QED
      BY <2>1, LoweredKinds
<1>2. op.own[1] = Ones(width) /\ jop.own[1] = JaxRow(Ones(width))
    BY <1>1, OwnNorm
<1> DEFINE y == x[1]
           n == width
<1>3. Value(op, x) = RMSNormValue(y, op.own[1])
    BY <1>1, ValueIs
<1>4. JaxValue(jop, x) = JaxRMSNormValue(y, jop.own[1])
    BY <1>1, JaxValueIs
<1>5. y.shape \in Shapes /\ n \in Pos
    BY LoweredKinds
<1>6. Value(op, x) = RMSNormValue(y, Ones(n)) /\ JaxValue(jop, x) = JaxRMSNormValue(y, JaxRow(Ones(n)))
    BY <1>2, <1>3, <1>4
<1> HIDE DEF y, n
<1>7. Exists(RMSNormValue(y, Ones(n)))
    BY <1>6
<1>8. /\ RMSNormValue(y, Ones(n)).shape \in Shapes
      /\ Len(y.shape) = 2 => /\ Len(RMSNormValue(y, Ones(n)).shape) = 2
                             /\ RMSNormValue(y, Ones(n)).shape =
                                    <<y.shape[1], IF y.shape[2] = 1 THEN n ELSE y.shape[2]>>
                             /\ JaxRMSNormValue(y, JaxRow(Ones(n))) = RMSNormValue(y, Ones(n))
    BY <1>5, <1>7, RMSNormIs
<1> QED
    BY <1>2, <1>6, <1>8 DEF y, n

\* The same for masks.
LEMMA LoweredMask ==
    ASSUME NEW op, NEW jop, NEW arity, NEW width, Lowered(op, jop, arity, width),
           NEW x, x[1].shape \in Shapes, op.kind = "attention_mask", Exists(Value(op, x))
    PROVE  /\ op.own[1].shape \in Shapes /\ JaxValue(jop, x) = Value(op, x) /\ Value(op, x).shape \in Shapes
           /\ Len(x[1].shape) \in {0, 2} => Len(Value(op, x).shape) \in {0, 2}
           /\ op.own[1].shape = x[1].shape => Value(op, x).shape = x[1].shape
           /\ op.own[1].shape[2] = width
<1>1. op.kind \in Kinds /\ jop.kind \in Kinds /\ jop.kind = "attention_mask" /\ OfOneOperand(op, jop, arity, width)
  <2>1. op.kind \notin {"attention", "mse", "cross_entropy"} \cup BinaryOps
      BY DEF BinaryOps
  <2> QED
      BY <2>1, LoweredKinds
<1>2. /\ jop.own = op.own
      /\ \E m, n \in Pos : op.own = <<Tensor(<<m, n>>, <<"mask">>)>> /\ width = n
  <2>1. OfOneOperand(op, jop, arity, width)
      BY <1>1
  <2>2. op.kind = "attention_mask" =>
            /\ jop.own = op.own
            /\ \E m, n \in Pos : op.own = <<Tensor(<<m, n>>, <<"mask">>)>> /\ width = n
      BY ONLY <2>1, OwnMatrix
  <2> QED
      BY <2>2
<1>3. PICK r \in Pos, c \in Pos :
          /\ op.own = <<Tensor(<<r, c>>, <<"mask">>)>>
          /\ width = c
    BY <1>2
<1> DEFINE y == x[1]
           z == op.own[1]
<1>4. z.shape = <<r, c>> /\ z.shape[2] = c
    BY <1>3 DEF Tensor
<1>5. z.shape \in Shapes /\ Len(z.shape) = 2
  <2> HIDE DEF z
  <2> QED
      BY <1>4, Tuples
<1>6. Value(op, x) = Both("add", y, z)
    BY <1>1, ValueIs
<1>7. JaxValue(jop, x) = Both("add", y, jop.own[1])
    BY <1>1, JaxValueIs
<1>8. y.shape \in Shapes /\ Exists(Both("add", y, z))
    BY <1>6
<1> HIDE DEF y, z
<1>10. /\ Both("add", y, z).shape \in Shapes
       /\ Len(y.shape) \in {0, 2} => Len(Both("add", y, z).shape) \in {0, 2}
    BY <1>5, <1>8, BothOf
<1>11. z.shape = y.shape => Both("add", y, z).shape = y.shape
    BY <1>5, <1>8, BothIs, BroadcastSame
<1>12. JaxValue(jop, x) = Value(op, x)
    BY <1>2, <1>6, <1>7 DEF y, z
<1> QED
    BY <1>3, <1>4, <1>5, <1>6, <1>10, <1>11, <1>12 DEF y, z

-----------------------------------------------------------------------------
\* The same for attention.
LEMMA LoweredAttention ==
    ASSUME NEW op, NEW jop, NEW arity, NEW width, Lowered(op, jop, arity, width),
           NEW x, \A i \in 1..arity : x[i].shape \in Shapes, op.kind = "attention", Exists(Value(op, x))
    PROVE  /\ arity = 3
           /\ Value(op, x).shape \in Shapes /\ Len(Value(op, x).shape) = 2
           /\ Value(op, x).shape = <<x[1].shape[1], x[3].shape[2]>> /\ JaxValue(jop, x) = Value(op, x)
<1>1. op.kind \in Kinds /\ jop.kind \in Kinds /\ jop.kind = op.kind /\ OfMoreOperands(op, arity)
  <2>1. op.kind \in {"attention", "mse", "cross_entropy"} \cup BinaryOps
      OBVIOUS
  <2> QED
      BY <2>1, LoweredKinds
<1>2. arity = 3
  <2>1. op.kind \notin BinaryOps
      BY KindsApart
  <2> QED
      BY <1>1, <2>1 DEF OfMoreOperands
<1> DEFINE q == x[1]
           k == x[2]
           v == x[3]
<1>3. q.shape \in Shapes /\ k.shape \in Shapes /\ v.shape \in Shapes
    BY <1>2
<1>4. Value(op, x) = AttentionValue(q, k, v)
    BY <1>1, ValueIs
<1>5. JaxValue(jop, x) = JaxAttentionValue(q, k, v)
    BY <1>1, JaxValueIs
<1> HIDE DEF q, k, v
<1>6. Exists(AttentionValue(q, k, v))
    BY <1>4
<1>7. /\ AttentionValue(q, k, v).shape \in Shapes /\ Len(AttentionValue(q, k, v).shape) = 2
      /\ AttentionValue(q, k, v).shape = <<q.shape[1], v.shape[2]>>
      /\ JaxAttentionValue(q, k, v) = AttentionValue(q, k, v)
    BY <1>3, <1>6, AttentionIs
<1> QED
    BY <1>2, <1>4, <1>5, <1>7 DEF q, v

\* The same for sums, differences, products and quotients of two operands.
LEMMA LoweredBinary ==
    ASSUME NEW op, NEW jop, NEW arity, NEW width, Lowered(op, jop, arity, width),
           NEW x, \A i \in 1..arity : x[i].shape \in Shapes, op.kind \in BinaryOps, Exists(Value(op, x))
    PROVE  /\ arity = 2
           /\ Value(op, x).shape \in Shapes /\ JaxValue(jop, x) = Value(op, x)
           /\ Len(x[1].shape) \in {0, 2} /\ Len(x[2].shape) \in {0, 2} => Len(Value(op, x).shape) \in {0, 2}
           /\ Value(op, x).shape = Broadcast(x[1].shape, x[2].shape)
           /\ Broadcast(x[1].shape, x[2].shape) # NoTensor.shape
<1>1. op.kind \in Kinds /\ jop.kind \in Kinds /\ jop.kind = op.kind /\ OfMoreOperands(op, arity)
  <2>1. op.kind \in {"attention", "mse", "cross_entropy"} \cup BinaryOps
      OBVIOUS
  <2> QED
      BY <2>1, LoweredKinds
<1>2. arity = 2
  <2>1. op.kind \notin {"attention", "mse", "cross_entropy"}
      BY KindsApart
  <2> QED
      BY <1>1, <2>1 DEF OfMoreOperands
<1> DEFINE y == x[1]
           z == x[2]
           f == op.kind
<1>3. y.shape \in Shapes /\ z.shape \in Shapes
    BY <1>2
<1>4. Value(op, x) = Both(f, y, z)
    BY <1>1, ValueIs
<1>5. JaxValue(jop, x) = Both(jop.kind, y, z)
    BY <1>1, JaxValueIs
<1>6. JaxValue(jop, x) = Both(f, y, z)
    BY <1>1, <1>5
<1> HIDE DEF y, z, f
<1>7. Exists(Both(f, y, z))
    BY <1>4
<1>8. /\ Both(f, y, z).shape \in Shapes
      /\ Len(y.shape) \in {0, 2} /\ Len(z.shape) \in {0, 2} => Len(Both(f, y, z).shape) \in {0, 2}
    BY <1>3, <1>7, BothOf
<1>9. Both(f, y, z).shape = Broadcast(y.shape, z.shape) /\ Broadcast(y.shape, z.shape) # NoTensor.shape
    BY <1>3, <1>7, BothIs
<1> QED
    BY <1>2, <1>4, <1>6, <1>8, <1>9 DEF y, z

\* The same for losses.
LEMMA LoweredLoss ==
    ASSUME NEW op, NEW jop, NEW arity, NEW width, Lowered(op, jop, arity, width),
           NEW x, \A i \in 1..arity : x[i].shape \in Shapes, op.kind \in {"mse", "cross_entropy"},
           Exists(Value(op, x))
    PROVE  Value(op, x).shape = <<>> /\ JaxValue(jop, x) = Value(op, x)
<1>1. op.kind \in Kinds /\ jop.kind \in Kinds /\ jop.kind = op.kind /\ OfMoreOperands(op, arity)
  <2>1. op.kind \in {"attention", "mse", "cross_entropy"} \cup BinaryOps
      OBVIOUS
  <2> QED
      BY <2>1, LoweredKinds
<1>2. arity = 2
  <2>1. op.kind \notin BinaryOps
      BY KindsApart
  <2> QED
      BY <1>1, <2>1 DEF OfMoreOperands
<1> DEFINE y == x[1]
           z == x[2]
           f == op.kind
<1>3. y.shape \in Shapes /\ z.shape \in Shapes
    BY <1>2
<1>4. Value(op, x) = LossValue(f, y, z)
    BY <1>1, ValueIs
<1>5. /\ f = "mse" => JaxValue(jop, x) = JaxMseValue(y, z)
      /\ f = "cross_entropy" => JaxValue(jop, x) = JaxCrossEntropyValue(y, z)
    BY <1>1, JaxValueIs
<1>6. f \in {"mse", "cross_entropy"}
    OBVIOUS
<1> HIDE DEF y, z, f
<1>7. Exists(LossValue(f, y, z))
    BY <1>4
<1>8. /\ LossValue(f, y, z).shape = <<>>
      /\ f = "mse" => JaxMseValue(y, z) = LossValue(f, y, z)
      /\ f = "cross_entropy" => JaxCrossEntropyValue(y, z) = LossValue(f, y, z)
    BY <1>3, <1>6, <1>7, LossIs
<1> QED
    BY <1>4, <1>5, <1>6, <1>8

(* All kinds together. *)

\* The kinds, for a case split: one of the lemmas above applies.
LEMMA KindsAre ==
    ASSUME NEW kind \in Kinds
    PROVE  \/ kind = "affine" \/ kind = "matrix_product" \/ kind \in Elementwise \/ kind \in Softmaxes
           \/ kind \in {"sum", "mean"} \/ kind = "layer_norm" \/ kind = "rms_norm" \/ kind = "attention_mask"
           \/ kind = "attention" \/ kind \in BinaryOps \/ kind \in {"mse", "cross_entropy"}
BY DEF Kinds

\* The value has positive extents.
LEMMA LoweredShape ==
    ASSUME NEW op, NEW jop, NEW arity, NEW width, Lowered(op, jop, arity, width),
           NEW x, \A i \in 1..arity : x[i].shape \in Shapes, Exists(Value(op, x))
    PROVE  Value(op, x).shape \in Shapes
<1> DEFINE s == Value(op, x).shape
<1>1. op.kind \in Kinds /\ 1 \in 1..arity
    BY LoweredKinds
<1>2. x[1].shape \in Shapes
    BY <1>1
<1>3. ASSUME op.kind = "affine" \/ op.kind = "matrix_product" PROVE s \in Shapes
  <2>1. x[1].shape[1] \in Pos /\ width \in Pos /\ s = <<x[1].shape[1], width>>
    <3>1. CASE op.kind = "affine"
        BY <1>2, <3>1, LoweredAffine
    <3>2. CASE op.kind = "matrix_product"
        BY <1>2, <3>2, LoweredProduct
    <3> QED
        BY <1>3, <3>1, <3>2
  <2> HIDE DEF s
  <2> QED
      BY <2>1, Tuples
<1>4. ASSUME op.kind \in Elementwise PROVE s \in Shapes
    BY <1>2, <1>4, LoweredEach
<1>5. ASSUME op.kind \in Softmaxes PROVE s \in Shapes
    BY <1>2, <1>5, LoweredAlong
<1>6. ASSUME op.kind \in {"sum", "mean"} PROVE s \in Shapes
    BY <1>2, <1>6, LoweredReduced
<1>7. ASSUME op.kind = "layer_norm" PROVE s \in Shapes
    BY <1>2, <1>7, LoweredLayerNorm
<1>8. ASSUME op.kind = "rms_norm" PROVE s \in Shapes
    BY <1>2, <1>8, LoweredRMSNorm
<1>9. ASSUME op.kind = "attention_mask" PROVE s \in Shapes
    BY <1>2, <1>9, LoweredMask
<1>10. ASSUME op.kind = "attention" PROVE s \in Shapes
    BY <1>10, LoweredAttention
<1>11. ASSUME op.kind \in BinaryOps PROVE s \in Shapes
    BY <1>11, LoweredBinary
<1>12. ASSUME op.kind \in {"mse", "cross_entropy"} PROVE s \in Shapes
    BY <1>12, LoweredLoss, Tuples
<1> HIDE DEF s
<1>13. s \in Shapes
    BY <1>1, <1>3, <1>4, <1>5, <1>6, <1>7, <1>8, <1>9, <1>10, <1>11, <1>12, KindsAre
<1> QED
    BY <1>13 DEF s

\* JAX makes the same of them, and ranks stay such that JAX finds the axes LibTorch finds.
LEMMA LoweredAgrees ==
    ASSUME NEW op, NEW jop, NEW arity, NEW width, Lowered(op, jop, arity, width),
           NEW x, \A i \in 1..arity : x[i].shape \in Shapes /\ Len(x[i].shape) \in {0, 2},
           Exists(Value(op, x)), op.kind \notin Reductions, op.kind \in AlongAxis => x[1].shape # <<>>
    PROVE  Len(Value(op, x).shape) \in {0, 2} /\ JaxValue(jop, x) = Value(op, x)
<1> DEFINE r == Len(Value(op, x).shape)
           same == JaxValue(jop, x) = Value(op, x)
<1>1. op.kind \in Kinds /\ 1 \in 1..arity /\ \A i \in 1..arity : x[i].shape \in Shapes
    BY LoweredKinds
<1>2. x[1].shape \in Shapes /\ Len(x[1].shape) \in {0, 2}
    BY <1>1
<1>3. ASSUME op.kind = "affine" \/ op.kind = "matrix_product" PROVE r \in {0, 2} /\ same
  <2>1. Value(op, x).shape = <<x[1].shape[1], width>> /\ same
    <3>1. CASE op.kind = "affine"
        BY <1>2, <3>1, LoweredAffine
    <3>2. CASE op.kind = "matrix_product"
        BY <1>2, <3>2, LoweredProduct
    <3> QED
        BY <1>3, <3>1, <3>2
  <2>2. \A a, c : Len(<<a, c>>) = 2
      OBVIOUS
  <2> QED
      BY <2>1, <2>2
<1>4. ASSUME op.kind \in Elementwise PROVE r \in {0, 2} /\ same
    BY <1>2, <1>4, LoweredEach
<1>5. ASSUME op.kind \in Softmaxes PROVE r \in {0, 2} /\ same
  <2>1. x[1].shape # <<>>
      BY <1>5 DEF AlongAxis
  <2> QED
      BY <1>2, <1>5, <2>1, LoweredAlong
<1>6. op.kind \notin {"sum", "mean"}
    BY DEF Reductions
<1>7. ASSUME op.kind = "layer_norm" PROVE r \in {0, 2} /\ same
    BY <1>2, <1>7, LoweredLayerNorm
<1>8. ASSUME op.kind = "rms_norm" PROVE r \in {0, 2} /\ same
  <2>1. x[1].shape # <<>>
      BY <1>8 DEF AlongAxis
  <2>2. Len(x[1].shape) = 2
      BY <1>2, <2>1, Tuples
  <2> QED
      BY <1>2, <1>8, <2>2, LoweredRMSNorm
<1>9. ASSUME op.kind = "attention_mask" PROVE r \in {0, 2} /\ same
    BY <1>2, <1>9, LoweredMask
<1>10. ASSUME op.kind = "attention" PROVE r \in {0, 2} /\ same
    BY <1>1, <1>10, LoweredAttention
<1>11. ASSUME op.kind \in BinaryOps PROVE r \in {0, 2} /\ same
  <2>1. arity = 2 /\ same /\ (Len(x[1].shape) \in {0, 2} /\ Len(x[2].shape) \in {0, 2} => r \in {0, 2})
      BY <1>1, <1>11, LoweredBinary
  <2>2. Len(x[2].shape) \in {0, 2}
      BY <2>1
  <2> QED
      BY <1>2, <2>1, <2>2
<1>12. ASSUME op.kind \in {"mse", "cross_entropy"} PROVE r \in {0, 2} /\ same
    BY <1>1, <1>12, LoweredLoss, Tuples
<1> HIDE DEF r, same
<1>13. r \in {0, 2} /\ same
    BY <1>1, <1>3, <1>4, <1>5, <1>6, <1>7, <1>8, <1>9, <1>10, <1>11, <1>12, KindsAre
<1> QED
    BY <1>13 DEF r, same

\* A matrix with one row per example.
Rows(x, b) == x.shape \in Shapes /\ Len(x.shape) = 2 /\ x.shape[1] = b

\* What a shape says of it.
LEMMA RowsAre ==
    /\ \A x : \A b, w \in Pos : x.shape = <<b, w>> => Rows(x, b) /\ x.shape[2] = w
    /\ \A x, b : Rows(x, b) => x.shape = <<b, x.shape[2]>> /\ x.shape[2] \in Pos
<1>1. ASSUME NEW x, NEW b \in Pos, NEW w \in Pos, x.shape = <<b, w>> PROVE Rows(x, b) /\ x.shape[2] = w
  <2> DEFINE s == x.shape
  <2>1. s = <<b, w>>
      BY <1>1
  <2> HIDE DEF s
  <2>2. s \in Shapes /\ Len(s) = 2 /\ s[1] = b /\ s[2] = w
      BY <2>1, Tuples
  <2> QED
      BY <2>2 DEF s, Rows
<1>2. ASSUME NEW x, NEW b, Rows(x, b) PROVE x.shape = <<b, x.shape[2]>> /\ x.shape[2] \in Pos
    BY <1>2, Tuples, ShapesAre DEF Rows
<1> QED
    BY <1>1, <1>2

\* From one row per example in every operand they make one row per example, and of the width compile
\* read off the weights where it did; but for losses, and for masks that are broadcast.
LEMMA LoweredRows ==
    ASSUME NEW op, NEW jop, NEW arity, NEW width, Lowered(op, jop, arity, width),
           NEW b \in Pos, NEW x, \A i \in 1..arity : Rows(x[i], b),
           Exists(Value(op, x)), op.kind \notin Losses,
           op.kind = "attention_mask" => op.own[1].shape = x[1].shape
    PROVE  Rows(Value(op, x), b) /\ (op.kind \in Weighted => Value(op, x).shape[2] = width)
<1> DEFINE good == Rows(Value(op, x), b) /\ (op.kind \in Weighted => Value(op, x).shape[2] = width)
<1>1. op.kind \in Kinds /\ 1 \in 1..arity /\ width \in Pos
    BY LoweredKinds
<1>2. \A i \in 1..arity : x[i].shape \in Shapes /\ Rows(x[i], b)
    BY DEF Rows
<1>3. /\ x[1].shape \in Shapes /\ Len(x[1].shape) = 2 /\ x[1].shape[1] = b /\ x[1].shape[2] \in Pos
      /\ \A i \in 1..arity : x[i].shape \in Shapes
    BY <1>1, <1>2, RowsAre DEF Rows
<1>4. ASSUME NEW w \in Pos, Value(op, x).shape = <<b, w>>, op.kind \in Weighted => w = width PROVE good
    BY <1>4, RowsAre
<1>5. ASSUME Value(op, x).shape = x[1].shape, op.kind \notin Weighted PROVE good
    BY <1>3, <1>5 DEF Rows
<1>6. ASSUME op.kind = "affine" \/ op.kind = "matrix_product" PROVE good
  <2>1. Value(op, x).shape = <<b, width>>
      BY <1>3, <1>6, LoweredAffine, LoweredProduct
  <2> HIDE DEF good
  <2> QED
      BY <1>1, <1>4, <2>1
<1>7. ASSUME op.kind \in Elementwise \cup Softmaxes PROVE good
  <2>1. op.kind \notin Weighted
      BY <1>7, KindsApart DEF Weighted
  <2>2. Value(op, x).shape = x[1].shape
      BY <1>3, <1>7, LoweredEach, LoweredAlong
  <2> HIDE DEF good
  <2> QED
      BY <1>5, <2>1, <2>2
<1>8. ASSUME op.kind \in {"sum", "mean"} PROVE good
  <2>1. Value(op, x).shape = <<b, 1>> /\ 1 \in Pos /\ op.kind \notin Weighted
      BY <1>3, <1>8, LoweredReduced DEF Weighted, Pos
  <2> HIDE DEF good
  <2> QED
      BY <1>4, <2>1
<1>9. ASSUME op.kind = "layer_norm" PROVE good
  <2>1. Value(op, x).shape = x[1].shape /\ op.kind \notin Weighted
      BY <1>3, <1>9, LoweredLayerNorm DEF Weighted
  <2> HIDE DEF good
  <2> QED
      BY <1>5, <2>1
<1>10. ASSUME op.kind = "rms_norm" PROVE good
  <2> DEFINE w == IF x[1].shape[2] = 1 THEN width ELSE x[1].shape[2]
  <2>1. Value(op, x).shape = <<b, w>> /\ w \in Pos /\ op.kind \notin Weighted
      BY <1>1, <1>3, <1>10, LoweredRMSNorm DEF Weighted
  <2> HIDE DEF good, w
  <2> QED
      BY <1>4, <2>1
<1>11. ASSUME op.kind = "attention_mask" PROVE good
  <2>1. Value(op, x).shape = x[1].shape /\ op.own[1].shape[2] = width
      BY <1>3, <1>11, LoweredMask
  <2>2. x[1].shape[2] = width
      BY <1>11, <2>1
  <2> QED
      BY <1>3, <2>1, <2>2 DEF Rows
<1>12. ASSUME op.kind = "attention" PROVE good
  <2>1. arity = 3 /\ Value(op, x).shape = <<x[1].shape[1], x[3].shape[2]>>
      BY <1>3, <1>12, LoweredAttention
  <2> DEFINE w == x[3].shape[2]
  <2>2. w \in Pos
      BY <1>2, <2>1, RowsAre
  <2>3. Value(op, x).shape = <<b, w>> /\ op.kind \notin Weighted
      BY <1>3, <1>12, <2>1 DEF Weighted
  <2> HIDE DEF good, w
  <2> QED
      BY <1>4, <2>2, <2>3
<1>13. ASSUME op.kind \in BinaryOps PROVE good
  <2>1. /\ arity = 2 /\ op.kind \notin Weighted
        /\ Value(op, x).shape = Broadcast(x[1].shape, x[2].shape)
        /\ Broadcast(x[1].shape, x[2].shape) # NoTensor.shape
      BY <1>3, <1>13, LoweredBinary DEF Weighted, BinaryOps
  <2> DEFINE m == x[1].shape[2]
             n == x[2].shape[2]
             w == IF m = 1 THEN n ELSE m
  <2>2. x[1].shape = <<b, m>> /\ x[2].shape = <<b, n>> /\ m \in Pos /\ n \in Pos
      BY <1>1, <1>2, <2>1, RowsAre
  <2> HIDE DEF m, n
  <2>3. Broadcast(<<b, m>>, <<b, n>>) # NoTensor.shape
      BY <2>1, <2>2
  <2>4. Broadcast(<<b, m>>, <<b, n>>) = <<IF b = 1 THEN b ELSE b, IF m = 1 THEN n ELSE m>>
      BY <2>2, <2>3, BroadcastMatrices
  <2>5. Value(op, x).shape = <<b, w>> /\ w \in Pos
      BY <2>1, <2>2, <2>4
  <2> HIDE DEF good, w
  <2> QED
      BY <1>4, <2>1, <2>5
<1>14. op.kind \notin {"mse", "cross_entropy"}
    BY DEF Losses
<1> HIDE DEF good
<1>15. good
    BY <1>1, <1>6, <1>7, <1>8, <1>9, <1>10, <1>11, <1>12, <1>13, <1>14, KindsAre
<1> QED
    BY <1>15 DEF good

-----------------------------------------------------------------------------
(* The steps of compile: an operation for both plans and the bookkeeping around it. *)

\* The lists grow together, and the slot of an id is the place of the last declaration of it.
Lists ==
    /\ IsList(ops) /\ IsList(jaxOps) /\ IsList(declared)
    /\ Len(jaxOps) = Len(ops) /\ Len(declared) = Len(ops)
    /\ nextSlot = Len(ops) + 1 /\ lastSlot = Len(ops)
Named ==
    /\ Input \in DOMAIN slotOf /\ DOMAIN slotOf \subseteq {Input} \cup Results /\ slotOf[Input] = 0
    /\ \A id \in DOMAIN slotOf \ {Input} :
          /\ slotOf[id] \in 1..Len(ops) /\ declared[slotOf[id]].result = id
          /\ \A j \in 1..Len(ops) : declared[j].result = id => j <= slotOf[id]
    /\ \A j \in 1..Len(ops) : declared[j].result \in DOMAIN slotOf \ {Input}
Wired == \A k \in 1..Len(ops) : ops[k].in[1] \in 0..Len(ops)
SealedAlike ==
    /\ lastWidth \in Pos /\ tensorWidth \in [Results -> Widths \cup {Undeclared}]
    /\ inputWidth \in Pos /\ jaxInputWidth = inputWidth /\ sealed \in BOOLEAN /\ jaxSealed = sealed
    /\ sealed => Len(ops) > 0 /\ outputSlot = lastSlot /\ jaxOutputSlot = lastSlot /\ outputWidth = lastWidth
CompileInv == Lists /\ Named /\ Wired /\ SealedAlike

Extended(op, jop, from, result, width) ==
    /\ ~sealed /\ result \in Results
    /\ from # <<>> /\ DOMAIN from = 1..Len(from) /\ Len(from) \in Nat
    /\ \A i \in 1..Len(from) : from[i] \in DOMAIN slotOf
    /\ DOMAIN op.in = 1..Len(from) /\ op.out = nextSlot
    /\ \A i \in 1..Len(from) : op.in[i] = slotOf[from[i]]
    /\ ops' = Append(ops, op) /\ jaxOps' = Append(jaxOps, jop)
    /\ slotOf' = Put(slotOf, result, nextSlot) /\ nextSlot' = nextSlot + 1
    /\ lastSlot' = nextSlot /\ lastWidth' = width
    /\ declared' = Append(declared, [from |-> from, result |-> result])
    /\ UNCHANGED <<inputWidth, sealed, outputSlot, outputWidth, tensorWidth>>
    /\ UNCHANGED <<jaxInputWidth, jaxSealed, jaxOutputSlot, jaxOutputWidth>>
    /\ Lowered(op, jop, Len(from), width)
    /\ op.kind \notin Weighted => width = WidthKept(result)

\* The width that is kept or declared is positive.
LEMMA KeptIs == ASSUME CompileInv, NEW result \in Results PROVE WidthKept(result) \in Pos
BY WidthsAssumption DEF WidthKept, CompileInv, SealedAlike, Pos, Undeclared

-----------------------------------------------------------------------------
\* A call of both plans with one Produce is an Extended step.
LEMMA Extends ==
    ASSUME CompileInv, NEW op, NEW jop, NEW from, NEW result \in Results, NEW width, NEW kind,
           Emplace(op), JaxEmplace(jop), Produce(kind, from, result, width),
           from # <<>>, DOMAIN from = 1..Len(from), Len(from) \in Nat,
           \A i \in 1..Len(from) : from[i] \in DOMAIN slotOf,
           DOMAIN op.in = 1..Len(from), op.out = nextSlot,
           \A i \in 1..Len(from) : op.in[i] = slotOf[from[i]],
           Lowered(op, jop, Len(from), width), op.kind \notin Weighted => width = WidthKept(result)
    PROVE  Extended(op, jop, from, result, width)
BY DEF Extended, Emplace, JaxEmplace, Produce

\* Shapes declared for weights and masks are pairs of positive extents.
LEMMA ShapeOf ==
    ASSUME NEW shape \in WeightShapes \cup MaskShapes
    PROVE  shape[1] \in Pos /\ shape[2] \in Pos
<1>1. shape \in (Nat \ {0}) \X (Nat \ {0})
    BY ShapesAssumption
<1> QED
    BY <1>1 DEF Pos

\* An operation with one operand.
LEMMA OneExtends ==
    ASSUME CompileInv, NEW src \in DOMAIN slotOf, NEW result \in Results,
           NEW op, NEW jop, NEW width, NEW kind,
           Emplace(op), JaxEmplace(jop), Produce(kind, <<src>>, result, width),
           op.in = <<slotOf[src]>>, op.out = nextSlot, width \in Pos,
           jop.kind = op.kind, jop.in = op.in, jop.out = op.out, jop.dim = op.dim,
           OfOneOperand(op, jop, 1, width), op.kind \notin Weighted => width = WidthKept(result)
    PROVE  \E from : Extended(op, jop, from, result, width)
<1> DEFINE from == <<src>>
<1>1. from # <<>> /\ DOMAIN from = 1..Len(from) /\ Len(from) = 1 /\ from[1] = src
    OBVIOUS
<1>2. DOMAIN op.in = 1..1 /\ op.in[1] = slotOf[src]
    OBVIOUS
<1>3. Produce(kind, from, result, width)
    OBVIOUS
<1> HIDE DEF from
<1>4. Lowered(op, jop, Len(from), width)
    BY <1>1 DEF Lowered
<1>5. /\ Len(from) \in Nat /\ DOMAIN op.in = 1..Len(from)
      /\ \A i \in 1..Len(from) : from[i] \in DOMAIN slotOf /\ op.in[i] = slotOf[from[i]]
    BY <1>1, <1>2
<1>6. Extended(op, jop, from, result, width)
    BY <1>1, <1>3, <1>4, <1>5, Extends
<1> QED
    BY <1>6

\* With two operands.
LEMMA TwoExtend ==
    ASSUME CompileInv, NEW a \in DOMAIN slotOf, NEW b \in DOMAIN slotOf, NEW result \in Results,
           NEW op, NEW width, NEW kind,
           Emplace(op), JaxEmplace(op), Produce(kind, <<a, b>>, result, width),
           op.in = <<slotOf[a], slotOf[b]>>, op.out = nextSlot, width \in Pos,
           OfMoreOperands(op, 2), width = WidthKept(result)
    PROVE  \E from : Extended(op, op, from, result, width)
<1> DEFINE from == <<a, b>>
<1>1. from # <<>> /\ DOMAIN from = 1..Len(from) /\ Len(from) = 2 /\ from[1] = a /\ from[2] = b
    OBVIOUS
<1>2. DOMAIN op.in = 1..2 /\ op.in[1] = slotOf[a] /\ op.in[2] = slotOf[b]
    OBVIOUS
<1>3. Produce(kind, from, result, width)
    OBVIOUS
<1> HIDE DEF from
<1>4. Lowered(op, op, Len(from), width)
    BY <1>1 DEF Lowered
<1>5. /\ Len(from) \in Nat /\ DOMAIN op.in = 1..Len(from)
      /\ \A i \in 1..Len(from) : from[i] \in DOMAIN slotOf /\ op.in[i] = slotOf[from[i]]
    BY <1>1, <1>2
<1>6. Extended(op, op, from, result, width)
    BY <1>1, <1>3, <1>4, <1>5, Extends
<1> QED
    BY <1>6

\* The actions of compile, one lemma each.
LEMMA AffineExtends ==
    ASSUME CompileInv, NEW src \in DOMAIN slotOf, NEW result \in Results, NEW shape \in WeightShapes,
           LowerAffine(src, result, shape)
    PROVE  \E op, jop, from, width : Extended(op, jop, from, result, width)
<1> DEFINE n == shape[1]
           m == shape[2]
           op == Op("affine", <<slotOf[src]>>, nextSlot, <<Tensor(<<n, m>>, <<"w">>), Tensor(<<n>>, <<"b">>)>>, 0)
           jop == Op("affine", <<slotOf[src]>>, nextSlot, <<Tensor(<<n, m>>, <<"w">>), Tensor(<<1, n>>, <<"b">>)>>, 0)
<1>1. n \in Pos /\ m \in Pos
    BY ShapeOf
<1>2. Emplace(op) /\ JaxEmplace(jop) /\ Produce("affine", <<src>>, result, n)
    BY DEF LowerAffine, AddAffine, JaxAddAffine
<1>3. /\ op.in = <<slotOf[src]>> /\ op.out = nextSlot /\ op.kind = "affine"
      /\ jop.kind = op.kind /\ jop.in = op.in /\ jop.out = op.out /\ jop.dim = op.dim
      /\ op.own = <<Tensor(<<n, m>>, <<"w">>), Tensor(<<n>>, <<"b">>)>>
      /\ jop.own = <<Tensor(<<n, m>>, <<"w">>), Tensor(<<1, n>>, <<"b">>)>>
    BY DEF Op
<1> HIDE DEF n, m, op, jop
<1>4. OfOneOperand(op, jop, 1, n) /\ op.kind \in Weighted
    BY <1>1, <1>3 DEF OfOneOperand, Weighted
<1>5. \E from : Extended(op, jop, from, result, n)
    BY <1>1, <1>2, <1>3, <1>4, OneExtends
<1> QED
    BY <1>5

\* A matrix product.
LEMMA MatrixProductExtends ==
    ASSUME CompileInv, NEW src \in DOMAIN slotOf, NEW result \in Results, NEW shape \in WeightShapes,
           LowerMatrixProduct(src, result, shape)
    PROVE  \E op, jop, from, width : Extended(op, jop, from, result, width)
<1> DEFINE m == shape[1]
           n == shape[2]
           op == Op("matrix_product", <<slotOf[src]>>, nextSlot, <<Tensor(<<m, n>>, <<"m">>)>>, 0)
<1>1. n \in Pos /\ m \in Pos
    BY ShapeOf
<1>2. Emplace(op) /\ JaxEmplace(op) /\ Produce("matrix_product", <<src>>, result, n)
    BY DEF LowerMatrixProduct, AddMatrixProduct, JaxAddMatrixProduct
<1>3. /\ op.in = <<slotOf[src]>> /\ op.out = nextSlot /\ op.kind = "matrix_product"
      /\ op.own = <<Tensor(<<m, n>>, <<"m">>)>>
    BY DEF Op
<1> HIDE DEF n, m, op
<1>4. OfOneOperand(op, op, 1, n) /\ op.kind \in Weighted
    BY <1>1, <1>3 DEF OfOneOperand, Weighted
<1>5. \E from : Extended(op, op, from, result, n)
    BY <1>1, <1>2, <1>3, <1>4, OneExtends
<1> QED
    BY <1>5

\* A mask.
LEMMA MaskExtends ==
    ASSUME CompileInv, NEW src \in DOMAIN slotOf, NEW result \in Results, NEW shape \in MaskShapes,
           LowerMask(src, result, shape)
    PROVE  \E op, jop, from, width : Extended(op, jop, from, result, width)
<1> DEFINE r == shape[1]
           c == shape[2]
           op == Op("attention_mask", <<slotOf[src]>>, nextSlot, <<Tensor(<<r, c>>, <<"mask">>)>>, 0)
<1>1. r \in Pos /\ c \in Pos
    BY ShapeOf
<1>2. Emplace(op) /\ JaxEmplace(op) /\ Produce("attention_mask", <<src>>, result, c)
    BY <1>1 DEF LowerMask, AddAttentionMask, JaxAddAttentionMask
<1>3. /\ op.in = <<slotOf[src]>> /\ op.out = nextSlot /\ op.kind = "attention_mask"
      /\ op.own = <<Tensor(<<r, c>>, <<"mask">>)>>
    BY DEF Op
<1> HIDE DEF r, c, op
<1>4. OfOneOperand(op, op, 1, c) /\ op.kind \in Weighted
    BY <1>1, <1>3 DEF OfOneOperand, Weighted
<1>5. \E from : Extended(op, op, from, result, c)
    BY <1>1, <1>2, <1>3, <1>4, OneExtends
<1> QED
    BY <1>5

-----------------------------------------------------------------------------
\* Activations, softmaxes, elementwise operations and reductions.
LEMMA UnaryExtends ==
    ASSUME CompileInv, NEW src \in DOMAIN slotOf, NEW result \in Results, NEW kind, LowerUnary(kind, src, result)
    PROVE  \E op, jop, from, width : Extended(op, jop, from, result, width)
<1> DEFINE dim == IF kind \in Softmaxes \cup {"sum", "mean"} THEN -1 ELSE 0
           op == Op(kind, <<slotOf[src]>>, nextSlot, <<>>, dim)
           w == WidthKept(result)
<1>1. w \in Pos /\ Produce(kind, <<src>>, result, w)
    BY KeptIs DEF LowerUnary
<1>2. kind \in Elementwise \cup Softmaxes \cup {"sum", "mean"} /\ Emplace(op) /\ JaxEmplace(op)
  <2>1. CASE AddActivation(kind, slotOf[src], nextSlot) /\ JaxAddActivation(kind, slotOf[src], nextSlot)
    <3>1. kind \in Elementwise /\ kind \notin {"sum", "mean"} /\ kind \notin Softmaxes
        BY <2>1 DEF AddActivation, Elementwise, Activations, Softmaxes
    <3>2. op = Op(kind, <<slotOf[src]>>, nextSlot, <<>>, 0)
        BY <3>1
    <3> HIDE DEF op
    <3>3. Emplace(op) /\ JaxEmplace(op)
        BY <2>1, <3>2 DEF AddActivation, JaxAddActivation
    <3> QED
        BY <3>1, <3>3
  <2>2. CASE AddSoftmax(kind, slotOf[src], nextSlot, -1) /\ JaxAddSoftmax(kind, slotOf[src], nextSlot, -1)
    <3>1. kind \in Softmaxes
        BY <2>2 DEF AddSoftmax
    <3>2. op = Op(kind, <<slotOf[src]>>, nextSlot, <<>>, -1)
        BY <3>1
    <3> HIDE DEF op
    <3>3. Emplace(op) /\ JaxEmplace(op)
        BY <2>2, <3>2 DEF AddSoftmax, JaxAddSoftmax
    <3> QED
        BY <3>1, <3>3
  <2>3. CASE AddUnaryMath(kind, slotOf[src], nextSlot) /\ JaxAddUnaryMath(kind, slotOf[src], nextSlot)
    <3>1. kind \in Elementwise /\ kind \notin {"sum", "mean"} /\ kind \notin Softmaxes
        BY <2>3 DEF AddUnaryMath, Elementwise, UnaryOps, Softmaxes
    <3>2. op = Op(kind, <<slotOf[src]>>, nextSlot, <<>>, 0)
        BY <3>1
    <3> HIDE DEF op
    <3>3. Emplace(op) /\ JaxEmplace(op)
        BY <2>3, <3>2 DEF AddUnaryMath, JaxAddUnaryMath
    <3> QED
        BY <3>1, <3>3
  <2>4. CASE /\ kind \in {"sum", "mean"} /\ AddReduction(kind, slotOf[src], nextSlot, -1)
             /\ JaxAddReduction(kind, slotOf[src], nextSlot, -1)
    <3>1. op = Op(kind, <<slotOf[src]>>, nextSlot, <<>>, -1)
        BY <2>4
    <3> HIDE DEF op
    <3>2. Emplace(op) /\ JaxEmplace(op)
        BY <2>4, <3>1 DEF AddReduction, JaxAddReduction
    <3> QED
        BY <2>4, <3>2
  <2> QED
      BY <2>1, <2>2, <2>3, <2>4 DEF LowerUnary
<1>3. /\ op.in = <<slotOf[src]>> /\ op.out = nextSlot /\ op.kind = kind
      /\ kind \in {"sum", "mean"} => op.dim = -1
    BY DEF Op
<1> HIDE DEF op, w
<1>4. OfOneOperand(op, op, 1, w)
    BY <1>2, <1>3 DEF OfOneOperand
<1>5. \E from : Extended(op, op, from, result, w)
  <2>1. w = WidthKept(result)
      BY DEF w
  <2> QED
      BY <1>1, <1>2, <1>3, <1>4, <2>1, OneExtends
<1> QED
    BY <1>5

\* The norms.
LEMMA NormExtends ==
    ASSUME CompileInv, NEW src \in DOMAIN slotOf, NEW result \in Results, NEW kind, LowerNorm(kind, src, result)
    PROVE  \E op, jop, from, width : Extended(op, jop, from, result, width)
<1> DEFINE w == WidthKept(result)
<1>1. w \in Pos
    BY KeptIs
<1>2. w = WidthKept(result)
    OBVIOUS
<1> HIDE DEF w
<1>3. Given(NoTensor, Ones(w)) = Ones(w) /\ Given(NoTensor, Zeros(w)) = Zeros(w)
    BY NothingIs DEF Given
<1>4. Produce(kind, <<src>>, result, w)
    BY <1>2 DEF LowerNorm
<1>5. CASE kind = "layer_norm" /\ AddLayerNorm(slotOf[src], nextSlot, w, NoTensor, NoTensor)
           /\ JaxAddLayerNorm(slotOf[src], nextSlot, w, NoTensor, NoTensor)
  <2> DEFINE op == Op("layer_norm", <<slotOf[src]>>, nextSlot, <<Ones(w), Zeros(w)>>, 0)
             jop == Op("layer_norm", <<slotOf[src]>>, nextSlot, <<JaxRow(Ones(w)), JaxRow(Zeros(w))>>, 0)
  <2>1. Emplace(op) /\ JaxEmplace(jop)
      BY <1>3, <1>5 DEF AddLayerNorm, JaxAddLayerNorm
  <2>2. /\ op.in = <<slotOf[src]>> /\ op.out = nextSlot /\ op.kind = "layer_norm"
        /\ jop.kind = op.kind /\ jop.in = op.in /\ jop.out = op.out /\ jop.dim = op.dim
        /\ op.own = <<Ones(w), Zeros(w)>> /\ jop.own = <<JaxRow(Ones(w)), JaxRow(Zeros(w))>>
      BY DEF Op
  <2> HIDE DEF op, jop
  <2>3. OfOneOperand(op, jop, 1, w)
      BY <2>2 DEF OfOneOperand
  <2>4. \E from : Extended(op, jop, from, result, w)
      BY <1>1, <1>2, <1>4, <2>1, <2>2, <2>3, OneExtends
  <2> QED
      BY <2>4
<1>6. CASE kind = "rms_norm" /\ AddRMSNorm(slotOf[src], nextSlot, w, NoTensor)
           /\ JaxAddRMSNorm(slotOf[src], nextSlot, w, NoTensor)
  <2> DEFINE op == Op("rms_norm", <<slotOf[src]>>, nextSlot, <<Ones(w)>>, 0)
             jop == Op("rms_norm", <<slotOf[src]>>, nextSlot, <<JaxRow(Ones(w))>>, 0)
  <2>1. Emplace(op) /\ JaxEmplace(jop)
      BY <1>3, <1>6 DEF AddRMSNorm, JaxAddRMSNorm
  <2>2. /\ op.in = <<slotOf[src]>> /\ op.out = nextSlot /\ op.kind = "rms_norm"
        /\ jop.kind = op.kind /\ jop.in = op.in /\ jop.out = op.out /\ jop.dim = op.dim
        /\ op.own = <<Ones(w)>> /\ jop.own = <<JaxRow(Ones(w))>>
      BY DEF Op
  <2> HIDE DEF op, jop
  <2>3. OfOneOperand(op, jop, 1, w)
      BY <2>2 DEF OfOneOperand
  <2>4. \E from : Extended(op, jop, from, result, w)
      BY <1>1, <1>2, <1>4, <2>1, <2>2, <2>3, OneExtends
  <2> QED
      BY <2>4
<1> QED
    BY <1>2, <1>5, <1>6 DEF LowerNorm

\* Attention.
LEMMA AttentionExtends ==
    ASSUME CompileInv, NEW q \in DOMAIN slotOf, NEW k \in DOMAIN slotOf, NEW v \in DOMAIN slotOf,
           NEW result \in Results, LowerAttention(q, k, v, result)
    PROVE  \E op, jop, from, width : Extended(op, jop, from, result, width)
<1> DEFINE from == <<q, k, v>>
           w == WidthKept(result)
           op == Op("attention", <<slotOf[q], slotOf[k], slotOf[v]>>, nextSlot, <<>>, 0)
<1>1. w \in Pos /\ w = WidthKept(result)
    BY KeptIs
<1>2. /\ from # <<>> /\ DOMAIN from = 1..Len(from) /\ Len(from) = 3
      /\ from[1] = q /\ from[2] = k /\ from[3] = v
    OBVIOUS
<1>3. Emplace(op) /\ JaxEmplace(op)
    BY DEF LowerAttention, AddAttention, JaxAddAttention
<1>4. Produce("attention", from, result, w)
    BY DEF LowerAttention
<1>5. /\ op.kind = "attention" /\ op.out = nextSlot /\ DOMAIN op.in = 1..3
      /\ op.in[1] = slotOf[q] /\ op.in[2] = slotOf[k] /\ op.in[3] = slotOf[v]
    BY DEF Op
<1> HIDE DEF from, w, op
<1>6. Lowered(op, op, Len(from), w)
    BY <1>1, <1>2, <1>5 DEF Lowered, OfMoreOperands
<1>7. /\ Len(from) \in Nat /\ DOMAIN op.in = 1..Len(from)
      /\ \A i \in 1..Len(from) : from[i] \in DOMAIN slotOf /\ op.in[i] = slotOf[from[i]]
    BY <1>2, <1>5
<1>8. Extended(op, op, from, result, w)
    BY <1>1, <1>2, <1>3, <1>4, <1>5, <1>6, <1>7, Extends
<1> QED
    BY <1>8

\* Operations on two operands, and losses.
LEMMA BinaryExtends ==
    ASSUME CompileInv, NEW a \in DOMAIN slotOf, NEW b \in DOMAIN slotOf, NEW result \in Results,
           NEW kind, LowerBinary(kind, a, b, result)
    PROVE  \E op, jop, from, width : Extended(op, jop, from, result, width)
<1> DEFINE op == Op(kind, <<slotOf[a], slotOf[b]>>, nextSlot, <<>>, 0)
           w == WidthKept(result)
<1>1. w \in Pos /\ w = WidthKept(result) /\ Produce(kind, <<a, b>>, result, w)
    BY KeptIs DEF LowerBinary
<1>2. op.in = <<slotOf[a], slotOf[b]>> /\ op.out = nextSlot /\ op.kind = kind
    BY DEF Op
<1>3. kind \in BinaryOps \cup {"mse", "cross_entropy"} /\ Emplace(op) /\ JaxEmplace(op)
    BY DEF LowerBinary, AddBinaryOp, JaxAddBinaryOp, AddLoss, JaxAddLoss
<1> HIDE DEF op, w
<1>4. OfMoreOperands(op, 2)
    BY <1>2, <1>3 DEF OfMoreOperands
<1>5. \E from : Extended(op, op, from, result, w)
    BY <1>1, <1>2, <1>3, <1>4, TwoExtend
<1> QED
    BY <1>5

\* A step of compile adds an operation or seals the plans.
LEMMA LoweringSteps ==
    ASSUME CompileInv, LoweringNext, ~SealBoth
    PROVE  \E op, jop, from, width : \E result \in Results :
               Extended(op, jop, from, result, width)
<1> DEFINE Ext(result) == \E op, jop, from, width : Extended(op, jop, from, result, width)
<1>1. \A src \in DOMAIN slotOf, result \in Results : \A shape \in WeightShapes :
          LowerAffine(src, result, shape) \/ LowerMatrixProduct(src, result, shape) => Ext(result)
    BY AffineExtends, MatrixProductExtends
<1>2. \A src \in DOMAIN slotOf, result \in Results : \A shape \in MaskShapes :
          LowerMask(src, result, shape) => Ext(result)
    BY MaskExtends
<1>3. \A src \in DOMAIN slotOf, result \in Results : \A kind :
          LowerUnary(kind, src, result) \/ LowerNorm(kind, src, result) => Ext(result)
    BY UnaryExtends, NormExtends
<1>4. \A src \in DOMAIN slotOf, result \in Results : \A b \in DOMAIN slotOf : \A kind :
          LowerBinary(kind, src, b, result) => Ext(result)
    BY BinaryExtends
<1>5. \A src \in DOMAIN slotOf, result \in Results : \A k, v \in DOMAIN slotOf :
          LowerAttention(src, k, v, result) => Ext(result)
    BY AttentionExtends
<1> HIDE DEF Ext
<1>6. \E result \in Results : Ext(result)
    BY <1>1, <1>2, <1>3, <1>4, <1>5 DEF LoweringNext
<1> QED
    BY <1>6 DEF Ext

-----------------------------------------------------------------------------
\* The list of a plan without operations.
LEMMA EmptyList == IsList(<<>>) /\ Len(<<>>) = 0
BY DEF IsList

\* An empty model.
LEMMA CompileStarts == ASSUME LoweringInit PROVE CompileInv
<1>1. Lists
    BY EmptyList DEF LoweringInit, ProgramInit, JaxInit, Lists
<1>2. Named
  <2>1. DOMAIN slotOf = {Input} /\ slotOf[Input] = 0 /\ Len(ops) = 0
      BY EmptyList DEF LoweringInit, ProgramInit
  <2> QED
      BY <2>1 DEF Named
<1>3. Wired /\ SealedAlike
  <2>1. Len(ops) = 0
      BY EmptyList DEF LoweringInit, ProgramInit
  <2>2. /\ inputWidth \in Pos /\ jaxInputWidth = inputWidth /\ lastWidth \in Pos
        /\ tensorWidth \in [Results -> Widths \cup {Undeclared}]
      BY InputAssumption DEF LoweringInit, ProgramInit, JaxInit, Pos
  <2>3. sealed = FALSE /\ jaxSealed = FALSE
      BY DEF LoweringInit, ProgramInit, JaxInit
  <2>4. Wired
      BY <2>1 DEF Wired
  <2>5. SealedAlike
      BY <2>2, <2>3, Zenon DEF SealedAlike
  <2> QED
      BY <2>4, <2>5
<1> QED
    BY <1>1, <1>2, <1>3 DEF CompileInv

\* What a step adds to the lists and to the slots.
LEMMA AddedOps ==
    ASSUME CompileInv, NEW op, NEW jop, NEW from, NEW result, NEW width,
           Extended(op, jop, from, result, width)
    PROVE  /\ Len(ops) \in Nat /\ Len(ops') = Len(ops) + 1 /\ ops'[Len(ops) + 1] = op
           /\ \A k \in 1..Len(ops) : ops'[k] = ops[k]
           /\ IsList(ops') /\ Len(jaxOps') = Len(ops) + 1 /\ IsList(jaxOps')
<1>1. /\ IsList(ops) /\ IsList(jaxOps) /\ Len(jaxOps) = Len(ops)
      /\ ops' = Append(ops, op) /\ jaxOps' = Append(jaxOps, jop)
    BY DEF CompileInv, Lists, Extended
<1> QED
    BY <1>1, ListAppends

\* What it adds to the declarations.
LEMMA AddedDeclaration ==
    ASSUME CompileInv, NEW op, NEW jop, NEW from, NEW result, NEW width,
           Extended(op, jop, from, result, width)
    PROVE  /\ Len(declared') = Len(ops) + 1 /\ IsList(declared')
           /\ declared'[Len(ops) + 1] = [from |-> from, result |-> result]
           /\ \A k \in 1..Len(ops) : declared'[k] = declared[k]
<1> DEFINE by == [from |-> from, result |-> result]
<1>1. IsList(declared) /\ Len(declared) = Len(ops) /\ declared' = Append(declared, by)
    BY DEF CompileInv, Lists, Extended
<1> HIDE DEF by
<1>2. /\ Len(declared') = Len(ops) + 1 /\ IsList(declared') /\ declared'[Len(ops) + 1] = by
      /\ \A k \in 1..Len(ops) : declared'[k] = declared[k]
    BY <1>1, ListAppends
<1> QED
    BY <1>2 DEF by

\* What it does to the slots of the ids.
LEMMA AddedSlot ==
    ASSUME CompileInv, NEW op, NEW jop, NEW from, NEW result, NEW width,
           Extended(op, jop, from, result, width)
    PROVE  /\ DOMAIN slotOf' = DOMAIN slotOf \cup {result} /\ slotOf'[result] = Len(ops) + 1
           /\ \A id \in DOMAIN slotOf : id # result => slotOf'[id] = slotOf[id]
           /\ \A id \in DOMAIN slotOf : slotOf[id] \in 0..Len(ops)
<1>1. nextSlot = Len(ops) + 1 /\ slotOf' = Put(slotOf, result, nextSlot) /\ Len(ops) \in Nat
    BY ListAppends DEF CompileInv, Lists, Extended
<1>2. \A id \in DOMAIN slotOf : slotOf[id] \in 0..Len(ops)
    BY <1>1 DEF CompileInv, Named
<1> QED
    BY <1>1, <1>2 DEF Put

\* One transformation more leaves the lists of one length and each id at its latest declaration.
LEMMA CompileGoesOn ==
    ASSUME CompileInv, NEW op, NEW jop, NEW from, NEW result \in Results, NEW width,
           Extended(op, jop, from, result, width)
    PROVE  CompileInv'
<1> DEFINE n == Len(ops)
<1>1. /\ n \in Nat /\ Len(ops') = n + 1 /\ ops'[n + 1] = op /\ \A k \in 1..n : ops'[k] = ops[k]
    BY AddedOps
<1>2. /\ Len(declared') = n + 1
      /\ declared'[n + 1].result = result
      /\ \A k \in 1..n : declared'[k] = declared[k]
  <2>1. /\ Len(declared') = n + 1 /\ \A k \in 1..n : declared'[k] = declared[k]
        /\ declared'[n + 1] = [from |-> from, result |-> result]
      BY AddedDeclaration
  <2> QED
      BY <2>1
<1>3. /\ DOMAIN slotOf' = DOMAIN slotOf \cup {result} /\ slotOf'[result] = n + 1
      /\ \A id \in DOMAIN slotOf : id # result => slotOf'[id] = slotOf[id]
      /\ \A id \in DOMAIN slotOf : slotOf[id] \in 0..n
    BY AddedSlot
<1>4. Lists'
  <2>1. IsList(ops') /\ IsList(jaxOps') /\ IsList(declared') /\ Len(jaxOps') = n + 1
      BY AddedOps, AddedDeclaration
  <2>2. nextSlot' = n + 2 /\ lastSlot' = n + 1
    <3>1. nextSlot = n + 1 /\ nextSlot' = nextSlot + 1 /\ lastSlot' = nextSlot
        BY DEF Extended, CompileInv, Lists
    <3> HIDE DEF n
    <3> QED
        BY <1>1, <3>1
  <2>3. nextSlot' = Len(ops') + 1 /\ lastSlot' = Len(ops')
    <3> HIDE DEF n
    <3> QED
        BY <1>1, <2>2
  <2> QED
      BY <1>1, <1>2, <2>1, <2>3 DEF Lists
<1>5. Named'
  <2>1. result # Input
      BY InputAssumption DEF Extended
  <2>2. /\ Input \in DOMAIN slotOf /\ DOMAIN slotOf \subseteq {Input} \cup Results /\ slotOf[Input] = 0
        /\ \A id \in DOMAIN slotOf \ {Input} :
              /\ slotOf[id] \in 1..n /\ declared[slotOf[id]].result = id
              /\ \A j \in 1..n : declared[j].result = id => j <= slotOf[id]
        /\ \A j \in 1..n : declared[j].result \in DOMAIN slotOf \ {Input}
      BY DEF CompileInv, Named
  <2> HIDE DEF n
  <2>3. Input \in DOMAIN slotOf' /\ DOMAIN slotOf' \subseteq {Input} \cup Results /\ slotOf'[Input] = 0
      BY <1>3, <2>1, <2>2
  <2>4. ASSUME NEW id \in DOMAIN slotOf' \ {Input}
        PROVE  /\ slotOf'[id] \in 1..n + 1 /\ declared'[slotOf'[id]].result = id
               /\ \A j \in 1..n + 1 : declared'[j].result = id => j <= slotOf'[id]
    <3>1. CASE id = result
        BY <1>1, <1>2, <1>3, <3>1
    <3>2. CASE id # result
      <4>1. /\ slotOf'[id] = slotOf[id] /\ slotOf[id] \in 1..n /\ declared[slotOf[id]].result = id
            /\ \A j \in 1..n : declared[j].result = id => j <= slotOf[id]
          BY <1>3, <2>2, <2>4, <3>2
      <4>2. declared'[slotOf[id]] = declared[slotOf[id]]
          BY <1>2, <4>1
      <4>3. ASSUME NEW j \in 1..n + 1, declared'[j].result = id PROVE j <= slotOf[id]
        <5>1. j # n + 1
            BY <1>2, <3>2, <4>3
        <5>2. j \in 1..n
            BY <1>1, <5>1
        <5> QED
            BY <1>2, <4>1, <4>3, <5>2
      <4> QED
          BY <1>1, <4>1, <4>2, <4>3
    <3> QED
        BY <3>1, <3>2
  <2>5. ASSUME NEW j \in 1..n + 1 PROVE declared'[j].result \in DOMAIN slotOf' \ {Input}
    <3>1. CASE j = n + 1
        BY <1>2, <1>3, <2>1, <3>1
    <3>2. CASE j \in 1..n
        BY <1>2, <1>3, <2>2, <3>2
    <3> QED
        BY <1>1, <3>1, <3>2
  <2> QED
      BY <1>1, <2>3, <2>4, <2>5 DEF Named
<1>6. Wired'
  <2>1. \A k \in 1..n : ops[k].in[1] \in 0..n
      BY DEF CompileInv, Wired
  <2>2. op.in[1] \in 0..n
    <3>1. from # <<>> /\ Len(from) \in Nat /\ DOMAIN from = 1..Len(from)
        BY DEF Extended
    <3>2. 1 \in 1..Len(from)
      <4>1. Len(from) # 0
        <5>1. ASSUME Len(from) = 0 PROVE FALSE
          <6>1. IsList(from)
              BY <3>1, <5>1, SeqDef DEF IsList
          <6> QED
              BY <3>1, <5>1, <6>1, EmptyList, SameList
        <5> QED
            BY <5>1
      <4> QED
          BY <3>1, <4>1
    <3> QED
        BY <1>3, <3>2 DEF Extended
  <2> HIDE DEF n
  <2>3. \A k \in 1..n + 1 : ops'[k].in[1] \in 0..n + 1
    <3> TAKE k \in 1..n + 1
    <3>1. CASE k = n + 1
        BY <1>1, <2>2, <3>1
    <3>2. CASE k \in 1..n
        BY <1>1, <2>1, <3>2
    <3> QED
        BY <1>1, <3>1, <3>2
  <2> QED
      BY <1>1, <2>3 DEF Wired
<1>7. SealedAlike'
    BY DEF Extended, Lowered, CompileInv, SealedAlike
<1> QED
    BY <1>4, <1>5, <1>6, <1>7 DEF CompileInv

\* Sealing takes the slot and the width of the last result.
LEMMA CompileSeals == ASSUME CompileInv, SealBoth PROVE CompileInv'
<1>1. UNCHANGED <<ops, jaxOps, inputWidth, jaxInputWidth>> /\ UNCHANGED loweringVars
    BY DEF SealBoth, Seal, JaxSeal
<1>2. Lists' /\ Named' /\ Wired'
    BY <1>1 DEF CompileInv, Lists, Named, Wired, loweringVars
<1>3. Len(ops) > 0
  <2>1. IsList(ops) /\ ops # <<>>
      BY DEF CompileInv, Lists, SealBoth, Seal
  <2>2. Len(ops) \in Nat /\ (Len(ops) = 0 => ops = <<>>)
      BY <2>1, ListAppends, EmptyList, SameList
  <2> QED
      BY <2>1, <2>2
<1>4. SealedAlike'
    BY <1>1, <1>3 DEF CompileInv, SealedAlike, SealBoth, Seal, JaxSeal, loweringVars
<1> QED
    BY <1>2, <1>4 DEF CompileInv

\* Steps that change nothing.
LEMMA CompileStutters == ASSUME CompileInv, UNCHANGED compileVars PROVE CompileInv'
BY DEF CompileInv, Lists, Named, Wired, SealedAlike, compileVars, programVars, jaxVars, loweringVars

\* Any step.
LEMMA CompileSteps == ASSUME CompileInv, [LoweringNext]_compileVars PROVE CompileInv'
<1>1. CASE UNCHANGED compileVars
    BY <1>1, CompileStutters
<1>2. CASE SealBoth
    BY <1>2, CompileSeals
<1>3. CASE LoweringNext /\ ~SealBoth
    BY <1>3, LoweringSteps, CompileGoesOn
<1> QED
    BY <1>1, <1>2, <1>3

-----------------------------------------------------------------------------
(* Slots and ids: PlanComputesModel. *)

\* A list and one element more have a set in common, as lemmas about Seq want it.
LEMMA ListExtends ==
    ASSUME NEW s, IsList(s), NEW x
    PROVE  \E S : s \in Seq(S) /\ x \in S
<1> DEFINE S == {s[k] : k \in DOMAIN s}
<1>1. s \in Seq(S \cup {x}) /\ x \in S \cup {x}
    BY SeqMonotonic DEF IsList
<1> QED
    BY <1>1

\* A program with one operation more runs that operation on what the program left.
LEMMA SlotsGoOn ==
    ASSUME NEW program, IsList(program), NEW op, NEW first
    PROVE  SlotsOf(Append(program, op), first) = RunOp(SlotsOf(program, first), op)
<1>1. PICK S : program \in Seq(S) /\ op \in S
    BY ListExtends
<1> QED
    BY <1>1, Operating!LoopGoesOn DEF SlotsOf

\* An empty program leaves the input.
LEMMA SlotsStart == ASSUME NEW first PROVE SlotsOf(<<>>, first) = first
BY Operating!LoopEnds DEF SlotsOf

\* The slots a run leaves and the values of the ids, n operations into the program.
Agree(slots, env, place, n) ==
    /\ slots = Thrown <=> env = <<>>
    /\ slots # Thrown =>
          /\ DOMAIN slots = 0..n /\ DOMAIN env = DOMAIN place
          /\ \A id \in DOMAIN place : place[id] \in 0..n /\ slots[place[id]] = env[id]

\* Operands found by slot are the values of the ids, so one operation more and one transformation more go on alike.
LEMMA AgreeGoesOn ==
    ASSUME NEW slots, NEW env, NEW place, NEW n \in Nat, Agree(slots, env, place, n),
           NEW op, NEW by, NEW m \in Nat,
           DOMAIN op.in = 1..m, op.out = n + 1, DOMAIN by.from = 1..m,
           \A i \in 1..m : by.from[i] \in DOMAIN place /\ op.in[i] = place[by.from[i]]
    PROVE  Agree(RunOp(slots, op), Meant(env, [op |-> op, by |-> by]), Put(place, by.result, n + 1), n + 1)
<1> DEFINE done == [op |-> op, by |-> by]
           x == [i \in DOMAIN op.in |-> slots[op.in[i]]]
           y == [i \in DOMAIN by.from |-> env[by.from[i]]]
           v == Value(op, x)
<1>0. Meant(env, done) = IF env # <<>> /\ Exists(Value(op, y)) THEN Put(env, by.result, Value(op, y)) ELSE <<>>
    BY DEF Meant
<1>1. CASE slots = Thrown
  <2>1. RunOp(slots, op) = Thrown /\ Meant(env, done) = <<>>
    <3>1. env = <<>>
        BY <1>1 DEF Agree
    <3> HIDE DEF y, done
    <3> QED
        BY <1>0, <1>1, <3>1 DEF RunOp
  <2> HIDE DEF done
  <2> QED
      BY <2>1 DEF Agree, done
<1>2. CASE slots # Thrown
  <2>1. /\ env # <<>> /\ DOMAIN slots = 0..n /\ DOMAIN env = DOMAIN place
        /\ \A id \in DOMAIN place : place[id] \in 0..n /\ slots[place[id]] = env[id]
      BY <1>2 DEF Agree
  <2>2. \A i \in 1..m : op.in[i] \in DOMAIN slots /\ slots[op.in[i]] = env[by.from[i]]
      BY <2>1
  <2>3. x = y
      BY <2>2
  <2>4. ToSet(op.in) \subseteq DOMAIN slots
      BY <2>2 DEF ToSet
  <2> HIDE DEF x, y, done
  <2>5. RunOp(slots, op) = IF Exists(v) THEN Put(slots, op.out, v) ELSE Thrown
      BY <1>2, <2>4 DEF RunOp, x
  <2>6. Meant(env, done) = IF Exists(v) THEN Put(env, by.result, v) ELSE <<>>
      BY <1>0, <2>1, <2>3
  <2>7. CASE ~Exists(v)
    <3>1. RunOp(slots, op) = Thrown /\ Meant(env, done) = <<>>
        BY <2>5, <2>6, <2>7
    <3> QED
        BY <3>1 DEF Agree, done
  <2>8. CASE Exists(v)
    <3> DEFINE after == Put(slots, n + 1, v)
               means == Put(env, by.result, v)
               where == Put(place, by.result, n + 1)
    <3> HIDE DEF v
    <3>1. RunOp(slots, op) = after /\ Meant(env, done) = means
        BY <2>5, <2>6, <2>8
    <3>2. DOMAIN after = 0..n + 1
      <4>1. DOMAIN after = 0..n \cup {n + 1}
          BY <2>1 DEF Put
      <4>2. 0..n \cup {n + 1} = 0..n + 1
          OBVIOUS
      <4> QED
          BY <4>1, <4>2
    <3>3. DOMAIN means = DOMAIN where /\ by.result \in DOMAIN means
        BY <2>1 DEF Put
    <3>4. ASSUME NEW id \in DOMAIN where PROVE where[id] \in 0..n + 1 /\ after[where[id]] = means[id]
      <4>1. CASE id = by.result
        <5>1. where[id] = n + 1 /\ means[id] = v
            BY <2>1, <4>1 DEF Put
        <5>2. after[n + 1] = v
            BY DEF Put
        <5> QED
            BY <5>1, <5>2
      <4>2. CASE id # by.result
        <5>1. id \in DOMAIN place /\ where[id] = place[id] /\ means[id] = env[id]
            BY <2>1, <3>4, <4>2 DEF Put
        <5>2. place[id] \in 0..n /\ slots[place[id]] = env[id]
            BY <2>1, <5>1
        <5>3. after[place[id]] = slots[place[id]]
            BY <2>1, <5>2 DEF Put
        <5> QED
            BY <5>1, <5>2, <5>3
      <4> QED
          BY <4>1, <4>2
    <3>5. after # Thrown /\ means # <<>>
      <4>1. 0 \in DOMAIN after
          BY <3>2
      <4> QED
          BY <3>3, <4>1 DEF Thrown
    <3> HIDE DEF after, means, where
    <3>6. Agree(after, means, where, n + 1)
        BY <3>2, <3>3, <3>4, <3>5 DEF Agree
    <3> QED
        BY <3>1, <3>6 DEF where, done
  <2> QED
      BY <2>7, <2>8
<1> QED
    BY <1>1, <1>2

-----------------------------------------------------------------------------
Transformations == [k \in DOMAIN declared |-> [op |-> ops[k], by |-> declared[k]]]
FirstMeaning(batch, width) == [id \in {Input} |-> FirstSlots(batch, width)[0]]

\* Meaning as a loop over the transformations.
LEMMA MeaningIs == ASSUME NEW b PROVE Meaning(b) = Meanings!Loop(FirstMeaning(b, inputWidth), Transformations)
BY DEF Meaning, FirstMeaning, Transformations, InputSlots

\* A function on 1..n is a list.
LEMMA ListIs ==
    ASSUME NEW n \in Nat, NEW s, DOMAIN s = 1..n, s = [k \in 1..n |-> s[k]]
    PROVE  IsList(s) /\ Len(s) = n
<1>1. s \in [1..n -> {s[k] : k \in DOMAIN s}]
    OBVIOUS
<1> QED
    BY <1>1, SeqDef, LenProperties DEF IsList

\* The transformations are a list as long as the program.
LEMMA TransformationsAre == ASSUME CompileInv PROVE IsList(Transformations) /\ Len(Transformations) = Len(ops)
<1> DEFINE t == Transformations
           n == Len(ops)
<1>1. n \in Nat /\ DOMAIN declared = 1..n
    BY ListAppends DEF CompileInv, Lists
<1>2. t = [k \in 1..n |-> t[k]] /\ DOMAIN t = 1..n
    BY <1>1 DEF Transformations
<1> HIDE DEF t, n
<1>3. IsList(t) /\ Len(t) = n
    BY <1>1, <1>2, ListIs
<1> QED
    BY <1>3 DEF t, n

\* A step appends its transformation.
LEMMA AddedTransformation ==
    ASSUME CompileInv, NEW op, NEW jop, NEW from, NEW result \in Results, NEW width,
           Extended(op, jop, from, result, width)
    PROVE  Transformations' = Append(Transformations,
               [op |-> op, by |-> [from |-> from, result |-> result]])
<1> DEFINE t == Transformations
           n == Len(ops)
           done == [op |-> op, by |-> [from |-> from, result |-> result]]
           u == Transformations'
<1>1. n \in Nat /\ IsList(t) /\ Len(t) = n /\ DOMAIN declared = 1..n
    BY TransformationsAre, ListAppends DEF CompileInv, Lists
<1>2. IsList(declared') /\ Len(declared') = n + 1 /\ DOMAIN declared' = 1..n + 1
  <2>1. IsList(declared') /\ Len(declared') = n + 1
      BY AddedDeclaration
  <2> HIDE DEF n
  <2> QED
      BY <2>1, ListAppends
<1>3. u = [k \in DOMAIN declared' |-> [op |-> ops'[k], by |-> declared'[k]]]
    BY DEF Transformations
<1>4. \A k \in 1..n : u[k] = t[k]
  <2>1. \A k \in 1..n : ops'[k] = ops[k] /\ declared'[k] = declared[k]
      BY AddedOps, AddedDeclaration
  <2>2. \A k \in 1..n : t[k] = [op |-> ops[k], by |-> declared[k]]
      BY <1>1 DEF Transformations
  <2> HIDE DEF t, u, n
  <2> QED
      BY <1>1, <1>2, <1>3, <2>1, <2>2
<1>5. u[n + 1] = done
  <2>1. /\ ops'[n + 1] = op
        /\ declared'[n + 1] = [from |-> from, result |-> result]
      BY AddedOps, AddedDeclaration
  <2> HIDE DEF u, n
  <2> QED
      BY <1>1, <1>2, <1>3, <2>1
<1>6. IsList(u) /\ Len(u) = n + 1
  <2>1. u = [k \in 1..n + 1 |-> u[k]] /\ DOMAIN u = 1..n + 1
    <3> HIDE DEF n
    <3> QED
        BY <1>2, <1>3
  <2> DEFINE q == n + 1
  <2>2. q \in Nat /\ u = [k \in 1..q |-> u[k]] /\ DOMAIN u = 1..q
      BY <1>1, <2>1
  <2> HIDE DEF u, q
  <2>3. IsList(u) /\ Len(u) = q
      BY <2>2, ListIs
  <2> QED
      BY <2>3 DEF q
<1> HIDE DEF t, n, done, u
<1>7. /\ IsList(Append(t, done)) /\ Len(Append(t, done)) = n + 1 /\ Append(t, done)[n + 1] = done
      /\ \A k \in 1..n : Append(t, done)[k] = t[k]
    BY <1>1, ListAppends
<1>8. \A k \in 1..n + 1 : u[k] = Append(t, done)[k]
    BY <1>1, <1>4, <1>5, <1>7
<1>9. u = Append(t, done)
    BY <1>6, <1>7, <1>8, SameList
<1> QED
    BY <1>9 DEF t, u, done

\* One transformation more is one turn more.
LEMMA MeaningGoesOn ==
    ASSUME NEW list, IsList(list), NEW done, NEW first
    PROVE  Meanings!Loop(first, Append(list, done)) = Meant(Meanings!Loop(first, list), done)
<1>1. PICK S : list \in Seq(S) /\ done \in S
    BY ListExtends
<1> QED
    BY <1>1, Meanings!LoopGoesOn

\* The slots and the values of the ids agree at every step of compile.
PlanInv ==
    \A b \in Batches : Agree(SlotsOf(ops, FirstSlots(b, inputWidth)),
                             Meanings!Loop(FirstMeaning(b, inputWidth), Transformations), slotOf, Len(ops))

\* The input is in slot 0.
LEMMA PlanStarts == ASSUME LoweringInit PROVE PlanInv
<1> SUFFICES ASSUME NEW b \in Batches
             PROVE  Agree(SlotsOf(ops, FirstSlots(b, inputWidth)),
                          Meanings!Loop(FirstMeaning(b, inputWidth), Transformations), slotOf, Len(ops))
    BY DEF PlanInv
<1> DEFINE first == FirstSlots(b, inputWidth)
           means == FirstMeaning(b, inputWidth)
<1>1. ops = <<>> /\ declared = <<>> /\ slotOf = [id \in {Input} |-> 0] /\ Len(ops) = 0
    BY DEF LoweringInit, ProgramInit
<1>2. Transformations = <<>>
  <2>1. DOMAIN Transformations = {}
      BY <1>1 DEF Transformations
  <2>2. IsList(Transformations) /\ Len(Transformations) = 0
      BY <1>1, CompileStarts, TransformationsAre
  <2> QED
      BY <2>2, EmptyList, SameList
<1>3. SlotsOf(ops, first) = first /\ Meanings!Loop(means, Transformations) = means
    BY <1>1, <1>2, SlotsStart, Meanings!LoopEnds
<1>4. DOMAIN first = 0..0 /\ DOMAIN means = {Input} /\ means[Input] = first[0]
    BY DEF FirstSlots, FirstMeaning
<1> HIDE DEF first, means
<1>5. first # Thrown /\ means # <<>>
  <2>1. 0 \in DOMAIN first /\ Input \in DOMAIN means
      BY <1>4
  <2> QED
      BY <2>1 DEF Thrown
<1>6. Agree(first, means, slotOf, Len(ops))
    BY <1>1, <1>4, <1>5 DEF Agree
<1> QED
    BY <1>3, <1>6 DEF first, means

\* One transformation more.
LEMMA PlanGoesOn ==
    ASSUME CompileInv, PlanInv, NEW op, NEW jop, NEW from, NEW result \in Results, NEW width,
           Extended(op, jop, from, result, width)
    PROVE  PlanInv'
<1> DEFINE n == Len(ops)
           m == Len(from)
           by == [from |-> from, result |-> result]
           done == [op |-> op, by |-> by]
           list == Transformations
           place == slotOf
<1>1. /\ inputWidth' = inputWidth /\ ops' = Append(ops, op)
      /\ DOMAIN op.in = 1..m /\ m \in Nat /\ DOMAIN from = 1..m
      /\ \A i \in 1..m : from[i] \in DOMAIN place /\ op.in[i] = place[from[i]]
    BY DEF Extended
<1>2. n \in Nat /\ Len(ops') = n + 1 /\ IsList(ops)
    BY AddedOps DEF CompileInv, Lists
<1>3. op.out = n + 1 /\ slotOf' = Put(place, result, n + 1)
    BY DEF Extended, CompileInv, Lists
<1>4. Transformations' = Append(list, done) /\ IsList(list)
    BY AddedTransformation, TransformationsAre
<1>5. by.from = from /\ by.result = result
    OBVIOUS
<1> SUFFICES ASSUME NEW b \in Batches
             PROVE  Agree(SlotsOf(ops', FirstSlots(b, inputWidth')),
                          Meanings!Loop(FirstMeaning(b, inputWidth'), Transformations'), slotOf', Len(ops'))
    BY DEF PlanInv
<1> DEFINE first == FirstSlots(b, inputWidth)
           means == FirstMeaning(b, inputWidth)
           slots == SlotsOf(ops, first)
           env == Meanings!Loop(means, list)
<1>6. Agree(slots, env, place, n)
    BY DEF PlanInv
<1>7. SlotsOf(ops', FirstSlots(b, inputWidth')) = RunOp(slots, op)
  <2>1. SlotsOf(Append(ops, op), first) = RunOp(SlotsOf(ops, first), op)
    <3> HIDE DEF first
    <3> QED
        BY <1>2, SlotsGoOn
  <2> QED
      BY <1>1, <2>1
<1>8. Meanings!Loop(FirstMeaning(b, inputWidth'), Transformations') = Meant(env, done)
  <2>1. Meanings!Loop(means, Append(list, done)) = Meant(Meanings!Loop(means, list), done)
    <3> HIDE DEF means, list, done
    <3> QED
        BY <1>4, MeaningGoesOn
  <2> QED
      BY <1>1, <1>4, <2>1
<1> HIDE DEF n, m, by, list, first, means, slots, env, place
<1>9. Agree(RunOp(slots, op), Meant(env, done), Put(place, by.result, n + 1), n + 1)
    BY <1>1, <1>2, <1>3, <1>5, <1>6, AgreeGoesOn
<1> HIDE DEF done
<1> QED
    BY <1>2, <1>3, <1>5, <1>7, <1>8, <1>9

\* Steps that leave program and ids alone.
LEMMA PlanStays ==
    ASSUME PlanInv, UNCHANGED <<ops, inputWidth, declared, slotOf>>
    PROVE  PlanInv'
BY DEF PlanInv, Transformations

\* The last declaration of the last result is the last operation, whose slot is the output.
LEMMA PlanIsModel == ASSUME CompileInv, PlanInv PROVE PlanComputesModel
<1> SUFFICES ASSUME Compiled, NEW b \in Batches
             PROVE  IF Meaning(b) = <<>> THEN Run(b) = Thrown
                    ELSE Run(b) # Thrown /\ Run(b)[outputSlot] = Meaning(b)[Last(declared).result]
    BY DEF PlanComputesModel
<1> DEFINE n == Len(ops)
           slots == SlotsAfter(b)
           env == Meaning(b)
           r == declared[n].result
<1>1. Agree(slots, env, slotOf, n)
    BY MeaningIs DEF PlanInv, SlotsAfter, InputSlots
<1>2. n \in Nat /\ n > 0 /\ outputSlot = n /\ Len(declared) = n
    BY ListAppends DEF Compiled, CompileInv, Lists, SealedAlike
<1>3. Last(declared).result = r
    BY <1>2 DEF Last
<1>4. r \in DOMAIN slotOf /\ slotOf[r] = n
  <2>1. r \in DOMAIN slotOf \ {Input}
      BY <1>2 DEF CompileInv, Named
  <2>2. slotOf[r] \in 1..n /\ n <= slotOf[r]
      BY <1>2, <2>1 DEF CompileInv, Named
  <2> HIDE DEF n, r
  <2> QED
      BY <1>2, <2>1, <2>2
<1> HIDE DEF n, slots, env, r
<1>5. Run(b) = IF outputSlot \in DOMAIN slots THEN slots ELSE Thrown
    BY DEF Run, slots
<1>6. CASE slots = Thrown
    BY <1>1, <1>5, <1>6 DEF Agree, env
<1>7. CASE slots # Thrown
    BY <1>1, <1>2, <1>3, <1>4, <1>5, <1>7 DEF Agree, env
<1> QED
    BY <1>6, <1>7

-----------------------------------------------------------------------------
(* What one operation more does to the shapes: ResultComplete, JaxAgrees. *)

\* A run that goes on found its operands, and put a value into the slot of the result.
LEMMA RunTakes ==
    ASSUME NEW slots, NEW op, NEW x, x = [i \in DOMAIN op.in |-> slots[op.in[i]]],
           NEW after, after = RunOp(slots, op), after # Thrown
    PROVE  /\ slots # Thrown /\ ToSet(op.in) \subseteq DOMAIN slots /\ Exists(Value(op, x))
           /\ after = Put(slots, op.out, Value(op, x))
BY DEF RunOp

\* The slots with the next slot written.
LEMMA PutAdds ==
    ASSUME NEW slots, NEW n \in Nat, DOMAIN slots = 0..n, NEW v, NEW after, after = Put(slots, n + 1, v)
    PROVE  after[n + 1] = v /\ DOMAIN after = 0..n + 1 /\ \A s \in 0..n : after[s] = slots[s]
<1>1. DOMAIN after = 0..n \cup {n + 1} /\ after[n + 1] = v /\ \A s \in 0..n : after[s] = slots[s]
    BY DEF Put
<1>2. 0..n \cup {n + 1} = 0..n + 1
    OBVIOUS
<1> QED
    BY <1>1, <1>2

\* Operands are found in the slots.
LEMMA OperandsAre ==
    ASSUME NEW slots, NEW n, NEW in, NEW m, DOMAIN slots = 0..n, DOMAIN in = 1..m, ToSet(in) \subseteq DOMAIN slots,
           NEW x, x = [i \in DOMAIN in |-> slots[in[i]]]
    PROVE  \A i \in 1..m : in[i] \in 0..n /\ x[i] = slots[in[i]]
BY DEF ToSet

\* The slots of a run, n operations into the program, all hold tensors with positive extents.
ShapesFit(slots, n) == slots # Thrown => DOMAIN slots = 0..n /\ \A s \in 0..n : slots[s].shape \in Shapes

\* A lowered operation makes shapes of shapes.
LEMMA ShapesGoOn ==
    ASSUME NEW slots, NEW n \in Nat, ShapesFit(slots, n),
           NEW op, NEW jop, NEW arity, NEW width, Lowered(op, jop, arity, width),
           DOMAIN op.in = 1..arity, op.out = n + 1
    PROVE  ShapesFit(RunOp(slots, op), n + 1)
<1> DEFINE x == [i \in DOMAIN op.in |-> slots[op.in[i]]]
           after == RunOp(slots, op)
           v == Value(op, x)
<1>1. arity \in Nat /\ (slots # Thrown => DOMAIN slots = 0..n)
    BY LoweredKinds DEF ShapesFit
<1> SUFFICES ASSUME after # Thrown
             PROVE  DOMAIN after = 0..n + 1 /\ \A s \in 0..n + 1 : after[s].shape \in Shapes
    BY DEF ShapesFit
<1>2. x = [i \in DOMAIN op.in |-> slots[op.in[i]]] /\ after = RunOp(slots, op)
    OBVIOUS
<1> HIDE DEF x, after
<1>3. /\ slots # Thrown /\ Exists(Value(op, x))
      /\ \A i \in 1..arity : op.in[i] \in 0..n /\ x[i] = slots[op.in[i]]
      /\ after[n + 1] = Value(op, x)
      /\ DOMAIN after = 0..n + 1 /\ \A s \in 0..n : after[s] = slots[s]
  <2>1. /\ slots # Thrown /\ ToSet(op.in) \subseteq DOMAIN slots /\ Exists(Value(op, x))
        /\ after = Put(slots, n + 1, Value(op, x))
      BY <1>2, RunTakes
  <2> DEFINE value == Value(op, x)
             in == op.in
             m == arity
  <2>2. DOMAIN slots = 0..n /\ after = Put(slots, n + 1, value)
      BY <1>1, <2>1
  <2>3. DOMAIN in = 1..m /\ ToSet(in) \subseteq DOMAIN slots /\ x = [i \in DOMAIN in |-> slots[in[i]]]
      BY <1>2, <2>1
  <2> HIDE DEF value, in, m
  <2>4. after[n + 1] = value /\ DOMAIN after = 0..n + 1 /\ \A s \in 0..n : after[s] = slots[s]
      BY <2>2, PutAdds
  <2>5. \A i \in 1..m : in[i] \in 0..n /\ x[i] = slots[in[i]]
      BY <2>2, <2>3, OperandsAre
  <2> QED
      BY <2>1, <2>2, <2>4, <2>5 DEF value, in, m
<1>4. \A s \in 0..n : slots[s].shape \in Shapes
    BY <1>3 DEF ShapesFit
<1>5. \A i \in 1..arity : x[i].shape \in Shapes
    BY <1>3, <1>4
<1>6. v.shape \in Shapes
    BY <1>3, <1>5, LoweredShape
<1> HIDE DEF v
<1>7. after[n + 1] = v
    BY <1>3 DEF v
<1>8. \A s \in 0..n + 1 : after[s].shape \in Shapes
    BY <1>3, <1>4, <1>6, <1>7
<1> QED
    BY <1>3, <1>8

\* Without reductions, and without an operation along an axis of a scalar, both runs leave the same slots.
NoReductions(program, n) == \A k \in 1..n : program[k].kind \notin Reductions
NoScalars(program, slots, n) ==
    \A k \in 1..n : program[k].kind \in AlongAxis => slots[program[k].in[1]].shape # <<>>
JaxSame(program, slots, jaxSlots, n) ==
    NoReductions(program, n) /\ slots # Thrown /\ NoScalars(program, slots, n) =>
        jaxSlots = slots /\ \A s \in 0..n : Len(slots[s].shape) \in {0, 2}

\* Where nothing is reduced, slots stay scalars or matrices, and JAX makes of those what LibTorch makes.
LEMMA JaxSameGoesOn ==
    ASSUME NEW slots, NEW jaxSlots, NEW n \in Nat, NEW program, NEW longer,
           ShapesFit(slots, n), JaxSame(program, slots, jaxSlots, n),
           \A k \in 1..n : longer[k] = program[k], \A k \in 1..n : program[k].in[1] \in 0..n,
           NEW op, longer[n + 1] = op,
           NEW jop, NEW arity, NEW width, Lowered(op, jop, arity, width),
           DOMAIN op.in = 1..arity, op.out = n + 1
    PROVE  JaxSame(longer, RunOp(slots, op), RunJaxOp(jaxSlots, jop), n + 1)
<1> DEFINE x == [i \in DOMAIN op.in |-> slots[op.in[i]]]
           after == RunOp(slots, op)
           jaxAfter == RunJaxOp(jaxSlots, jop)
           v == Value(op, x)
<1>1. arity \in Nat /\ 1 \in 1..arity /\ (slots # Thrown => DOMAIN slots = 0..n)
    BY LoweredKinds DEF ShapesFit
<1> SUFFICES ASSUME NoReductions(longer, n + 1), after # Thrown, NoScalars(longer, after, n + 1)
             PROVE  jaxAfter = after /\ \A s \in 0..n + 1 : Len(after[s].shape) \in {0, 2}
    BY DEF JaxSame
<1>2. x = [i \in DOMAIN op.in |-> slots[op.in[i]]] /\ after = RunOp(slots, op)
    OBVIOUS
<1> HIDE DEF x, after, v
<1>3. /\ slots # Thrown /\ DOMAIN slots = 0..n /\ Exists(Value(op, x))
      /\ ToSet(op.in) \subseteq DOMAIN slots
      /\ \A i \in 1..arity : op.in[i] \in 0..n /\ x[i] = slots[op.in[i]]
      /\ after = Put(slots, n + 1, Value(op, x)) /\ after[n + 1] = Value(op, x)
      /\ \A s \in 0..n : after[s] = slots[s]
  <2>1. /\ slots # Thrown /\ ToSet(op.in) \subseteq DOMAIN slots /\ Exists(Value(op, x))
        /\ after = Put(slots, n + 1, Value(op, x))
    <3>1. after # Thrown
        OBVIOUS
    <3>2. /\ slots # Thrown /\ ToSet(op.in) \subseteq DOMAIN slots /\ Exists(Value(op, x))
          /\ after = Put(slots, op.out, Value(op, x))
        BY ONLY <1>2, <3>1, RunTakes
    <3> QED
        BY <3>2
  <2> DEFINE value == Value(op, x)
             in == op.in
             m == arity
  <2>2. DOMAIN slots = 0..n /\ after = Put(slots, n + 1, value)
      BY <1>1, <2>1
  <2>3. DOMAIN in = 1..m /\ ToSet(in) \subseteq DOMAIN slots /\ x = [i \in DOMAIN in |-> slots[in[i]]]
      BY <1>2, <2>1
  <2> HIDE DEF value, in, m
  <2>4. after[n + 1] = value /\ DOMAIN after = 0..n + 1 /\ \A s \in 0..n : after[s] = slots[s]
      BY <2>2, PutAdds
  <2>5. \A i \in 1..m : in[i] \in 0..n /\ x[i] = slots[in[i]]
      BY <2>2, <2>3, OperandsAre
  <2> QED
      BY <2>1, <2>2, <2>4, <2>5 DEF value, in, m
<1>4. NoReductions(program, n) /\ op.kind \notin Reductions
  <2>1. \A k \in 1..n + 1 : longer[k].kind \notin Reductions
      BY DEF NoReductions
  <2> QED
      BY <2>1 DEF NoReductions
<1>5. NoScalars(program, slots, n) /\ (op.kind \in AlongAxis => x[1].shape # <<>>)
  <2>1. \A k \in 1..n + 1 : longer[k].kind \in AlongAxis => after[longer[k].in[1]].shape # <<>>
      BY DEF NoScalars
  <2>2. NoScalars(program, slots, n)
    <3> SUFFICES ASSUME NEW k \in 1..n, program[k].kind \in AlongAxis PROVE slots[program[k].in[1]].shape # <<>>
        BY DEF NoScalars
    <3>1. after[program[k].in[1]].shape # <<>> /\ program[k].in[1] \in 0..n
        BY <2>1
    <3> QED
        BY <1>3, <3>1
  <2>3. op.kind \in AlongAxis => after[op.in[1]].shape # <<>>
      BY <2>1
  <2>4. after[op.in[1]] = x[1]
      BY <1>1, <1>3
  <2> QED
      BY <2>2, <2>3, <2>4
<1>6. jaxSlots = slots /\ \A s \in 0..n : Len(slots[s].shape) \in {0, 2}
    BY <1>3, <1>4, <1>5 DEF JaxSame
<1>7. \A i \in 1..arity : x[i].shape \in Shapes /\ Len(x[i].shape) \in {0, 2}
  <2>1. \A s \in 0..n : slots[s].shape \in Shapes
      BY <1>3 DEF ShapesFit
  <2> QED
      BY <1>3, <1>6, <2>1
<1>8. Len(Value(op, x).shape) \in {0, 2} /\ JaxValue(jop, x) = Value(op, x)
    BY <1>3, <1>4, <1>5, <1>7, LoweredAgrees
<1>9. jaxAfter = after
  <2>1. jop.in = op.in /\ jop.out = op.out /\ jop.kind \notin {"max", "min"} /\ jaxSlots # Broken
    <3>1. op.kind \in Kinds /\ jop.kind = op.kind /\ jop.in = op.in /\ jop.out = op.out
        BY LoweredKinds DEF Lowered
    <3>2. op.kind \notin {"max", "min"}
        BY <1>4 DEF Reductions
    <3> QED
        BY <1>3, <1>6, <3>1, <3>2 DEF Broken, Thrown
  <2>2. [i \in DOMAIN jop.in |-> jaxSlots[jop.in[i]]] = x
      BY <1>2, <1>6, <2>1
  <2>3. jaxAfter = Put(slots, jop.out, Value(op, x))
      BY <1>3, <1>6, <1>8, <2>1, <2>2 DEF RunJaxOp
  <2> QED
      BY <1>3, <2>1, <2>3
<1>10. \A s \in 0..n + 1 : Len(after[s].shape) \in {0, 2}
  <2>1. Len(after[n + 1].shape) \in {0, 2}
      BY <1>3, <1>8
  <2>2. \A s \in 0..n : Len(after[s].shape) \in {0, 2}
      BY <1>3, <1>6
  <2> QED
      BY <2>1, <2>2
<1> QED
    BY <1>9, <1>10

\* Without losses and without masks that are broadcast every slot has one row per example, and if the
\* results are declared truthfully, the last slot is of the width compile kept last.
NoLosses(program, n) == \A k \in 1..n : program[k].kind \notin Losses
MasksFit(program, slots, n) ==
    \A k \in 1..n : program[k].kind = "attention_mask" => program[k].own[1].shape = slots[program[k].in[1]].shape
TruthfulTo(program, slots, by, widths, n) ==
    \A k \in 1..n : program[k].kind \notin Weighted =>
        LastAxis(slots[k]) = IF widths[by[k].result] = Undeclared THEN LastAxis(slots[k - 1]) ELSE widths[by[k].result]
WidthsFit(b, program, slots, by, widths, last, n) ==
    NoLosses(program, n) /\ slots # Thrown /\ MasksFit(program, slots, n) =>
        /\ \A s \in 0..n : Rows(slots[s], b)
        /\ TruthfulTo(program, slots, by, widths, n) => slots[n].shape[2] = last

\* The program and the declarations with one operation more, what that operation reads, and the width
\* compile keeps.
Longer(program, longer, op, by, longerBy, n) ==
    /\ n \in Nat /\ longer[n + 1] = op
    /\ \A k \in 1..n : longer[k] = program[k] /\ longerBy[k] = by[k]
    /\ \A k \in 1..n : program[k].in[1] \in 0..n
Keeps(op, done, widths, last, width) ==
    op.kind \notin Weighted => width = IF widths[done.result] = Undeclared THEN last ELSE widths[done.result]

\* The last axis of a matrix is its second.
LEMMA LastOfRows == ASSUME NEW x, NEW b, Rows(x, b) PROVE LastAxis(x) = x.shape[2]
BY DEF Rows, LastAxis

\* The width compile keeps is the width of what the operation makes, if it is declared so.
LEMMA WidthsGoOn ==
    ASSUME NEW b \in Pos, NEW slots, NEW n, NEW program, NEW longer, NEW by, NEW longerBy, NEW widths, NEW last,
           ShapesFit(slots, n), WidthsFit(b, program, slots, by, widths, last, n),
           NEW op, Longer(program, longer, op, by, longerBy, n),
           NEW jop, NEW arity, NEW width, Lowered(op, jop, arity, width), DOMAIN op.in = 1..arity, op.out = n + 1,
           Keeps(op, longerBy[n + 1], widths, last, width)
    PROVE  WidthsFit(b, longer, RunOp(slots, op), longerBy, widths, width, n + 1)
<1> USE DEF Longer
<1> DEFINE x == [i \in DOMAIN op.in |-> slots[op.in[i]]]
           after == RunOp(slots, op)
<1>1. arity \in Nat /\ 1 \in 1..arity /\ (slots # Thrown => DOMAIN slots = 0..n)
    BY LoweredKinds DEF ShapesFit
<1> SUFFICES ASSUME NoLosses(longer, n + 1), after # Thrown, MasksFit(longer, after, n + 1)
             PROVE  /\ \A s \in 0..n + 1 : Rows(after[s], b)
                    /\ TruthfulTo(longer, after, longerBy, widths, n + 1) => after[n + 1].shape[2] = width
    BY DEF WidthsFit
<1>2. x = [i \in DOMAIN op.in |-> slots[op.in[i]]] /\ after = RunOp(slots, op)
    OBVIOUS
<1> HIDE DEF x, after
<1>3. /\ slots # Thrown /\ Exists(Value(op, x))
      /\ \A i \in 1..arity : op.in[i] \in 0..n /\ x[i] = slots[op.in[i]]
      /\ after[n + 1] = Value(op, x) /\ \A s \in 0..n : after[s] = slots[s]
  <2>1. /\ slots # Thrown /\ ToSet(op.in) \subseteq DOMAIN slots /\ Exists(Value(op, x))
        /\ after = Put(slots, n + 1, Value(op, x))
    <3>1. after # Thrown /\ op.out = n + 1
        OBVIOUS
    <3>2. /\ slots # Thrown /\ ToSet(op.in) \subseteq DOMAIN slots /\ Exists(Value(op, x))
          /\ after = Put(slots, op.out, Value(op, x))
        BY ONLY <1>2, <3>1, RunTakes
    <3> QED
        BY <3>1, <3>2
  <2> DEFINE value == Value(op, x)
             in == op.in
  <2>2. DOMAIN slots = 0..n /\ after = Put(slots, n + 1, value)
      BY <1>1, <2>1
  <2>3. DOMAIN in = 1..arity /\ ToSet(in) \subseteq DOMAIN slots /\ x = [i \in DOMAIN in |-> slots[in[i]]]
      BY <1>2, <2>1
  <2> HIDE DEF value, in
  <2>4. after[n + 1] = value /\ DOMAIN after = 0..n + 1 /\ \A s \in 0..n : after[s] = slots[s]
      BY <2>2, PutAdds
  <2>5. \A i \in 1..arity : in[i] \in 0..n /\ x[i] = slots[in[i]]
      BY <2>2, <2>3, OperandsAre
  <2> QED
      BY <2>1, <2>2, <2>4, <2>5 DEF value, in
<1>4. NoLosses(program, n) /\ op.kind \notin Losses
  <2>1. \A k \in 1..n + 1 : longer[k].kind \notin Losses
      BY DEF NoLosses
  <2> QED
      BY <2>1 DEF NoLosses
<1>5. MasksFit(program, slots, n) /\ (op.kind = "attention_mask" => op.own[1].shape = x[1].shape)
  <2>1. \A k \in 1..n + 1 : longer[k].kind = "attention_mask" =>
            longer[k].own[1].shape = after[longer[k].in[1]].shape
      BY DEF MasksFit
  <2>2. MasksFit(program, slots, n)
    <3> SUFFICES ASSUME NEW k \in 1..n, program[k].kind = "attention_mask"
                 PROVE  program[k].own[1].shape = slots[program[k].in[1]].shape
        BY DEF MasksFit
    <3>1. longer[k] = program[k] /\ k \in 1..n + 1 /\ program[k].in[1] \in 0..n
        OBVIOUS
    <3>2. longer[k].own[1].shape = after[longer[k].in[1]].shape
        BY <2>1, <3>1
    <3> QED
        BY <1>3, <3>1, <3>2
  <2>3. op.kind = "attention_mask" => op.own[1].shape = after[op.in[1]].shape
      BY <2>1
  <2>4. after[op.in[1]] = x[1]
      BY <1>1, <1>3
  <2> QED
      BY <2>2, <2>3, <2>4
<1>6. \A s \in 0..n : Rows(slots[s], b)
    BY <1>3, <1>4, <1>5 DEF WidthsFit
<1>7. \A i \in 1..arity : Rows(x[i], b)
    BY <1>3, <1>6
<1>8. Rows(Value(op, x), b) /\ (op.kind \in Weighted => Value(op, x).shape[2] = width)
    BY <1>3, <1>4, <1>5, <1>7, LoweredRows
<1>9. \A s \in 0..n + 1 : Rows(after[s], b)
  <2> TAKE s \in 0..n + 1
  <2>1. CASE s = n + 1
      BY <1>3, <1>8, <2>1
  <2>2. CASE s \in 0..n
      BY <1>3, <1>6, <2>2
  <2> QED
      BY <2>1, <2>2
<1>10. ASSUME TruthfulTo(longer, after, longerBy, widths, n + 1) PROVE after[n + 1].shape[2] = width
  <2>1. CASE op.kind \in Weighted
      BY <1>3, <1>8, <2>1
  <2>2. CASE op.kind \notin Weighted
    <3> DEFINE declares == widths[longerBy[n + 1].result]
    <3>1. TruthfulTo(program, slots, by, widths, n)
      <4> SUFFICES ASSUME NEW k \in 1..n, program[k].kind \notin Weighted
                   PROVE  LastAxis(slots[k]) =
                              IF widths[by[k].result] = Undeclared THEN LastAxis(slots[k - 1])
                              ELSE widths[by[k].result]
          BY DEF TruthfulTo
      <4>1. k \in 1..n + 1 /\ k \in 0..n /\ k - 1 \in 0..n /\ longer[k] = program[k] /\ longerBy[k] = by[k]
          OBVIOUS
      <4>2. LastAxis(after[k]) =
                IF widths[longerBy[k].result] = Undeclared THEN LastAxis(after[k - 1])
                ELSE widths[longerBy[k].result]
          BY <1>10, <4>1 DEF TruthfulTo
      <4>3. after[k] = slots[k] /\ after[k - 1] = slots[k - 1]
          BY <1>3, <4>1
      <4> QED
          BY <4>1, <4>2, <4>3
    <3>2. slots[n].shape[2] = last
        BY <1>3, <1>4, <1>5, <3>1 DEF WidthsFit
    <3>3. n + 1 \in 1..n + 1 /\ n \in 0..n /\ n + 1 \in 0..n + 1 /\ (n + 1) - 1 = n
        OBVIOUS
    <3>4. LastAxis(after[n + 1]) = IF declares = Undeclared THEN LastAxis(after[n]) ELSE declares
        BY <1>10, <2>2, <3>3 DEF TruthfulTo
    <3>5. LastAxis(after[n + 1]) = after[n + 1].shape[2]
        BY <1>9, <3>3, LastOfRows
    <3>6. LastAxis(after[n]) = last
      <4>1. after[n] = slots[n] /\ Rows(slots[n], b)
          BY <1>3, <1>6, <3>3
      <4> QED
          BY <3>2, <4>1, LastOfRows
    <3>7. width = IF declares = Undeclared THEN last ELSE declares
        BY <2>2 DEF Keeps
    <3> QED
        BY <3>4, <3>5, <3>6, <3>7
  <2> QED
      BY <2>1, <2>2
<1> QED
    BY <1>9, <1>10

-----------------------------------------------------------------------------
(* The shapes along compile. *)

\* The input of a batch.
LEMMA FirstFits ==
    ASSUME NEW b \in Pos, NEW w \in Pos, NEW first, first = FirstSlots(b, w)
    PROVE  /\ first # Thrown /\ DOMAIN first = 0..0 /\ first[0].shape = <<b, w>>
           /\ first[0].shape \in Shapes /\ Len(first[0].shape) = 2
<1>1. DOMAIN first = 0..0 /\ first[0].shape = <<b, w>>
    BY DEF FirstSlots, Tensor
<1>2. first # Thrown
  <2>1. 0 \in DOMAIN first
      BY <1>1
  <2> QED
      BY <2>1 DEF Thrown
<1> QED
    BY <1>1, <1>2, Tuples

\* What a step hands to the lemmas about one operation more.
LEMMA StepLowers ==
    ASSUME CompileInv, NEW op, NEW jop, NEW from, NEW result, NEW width,
           Extended(op, jop, from, result, width)
    PROVE  /\ Lowered(op, jop, Len(from), width) /\ DOMAIN op.in = 1..Len(from) /\ op.out = Len(ops) + 1
BY DEF Extended, CompileInv, Lists

\* A step of compile is a turn of run_plan more.
LEMMA StepRuns ==
    ASSUME CompileInv, NEW op, NEW jop, NEW from, NEW result, NEW width,
           Extended(op, jop, from, result, width), NEW b
    PROVE  SlotsOf(ops', FirstSlots(b, inputWidth')) = RunOp(SlotsOf(ops, FirstSlots(b, inputWidth)), op)
<1> DEFINE first == FirstSlots(b, inputWidth)
<1>1. IsList(ops) /\ ops' = Append(ops, op) /\ inputWidth' = inputWidth
    BY DEF CompileInv, Lists, Extended
<1> HIDE DEF first
<1>2. SlotsOf(Append(ops, op), first) = RunOp(SlotsOf(ops, first), op)
    BY <1>1, SlotsGoOn
<1> QED
    BY <1>1, <1>2 DEF first

JaxSlotsOf(program, first) == JaxOperating!Loop(first, program)

\* A step of compile is a turn of execute in JAX more.
LEMMA StepRunsJax ==
    ASSUME CompileInv, NEW op, NEW jop, NEW from, NEW result, NEW width,
           Extended(op, jop, from, result, width), NEW b
    PROVE  JaxSlotsOf(jaxOps', FirstSlots(b, inputWidth')) = RunJaxOp(JaxSlotsOf(jaxOps, FirstSlots(b, inputWidth)), jop)
<1> DEFINE first == FirstSlots(b, inputWidth)
<1>1. IsList(jaxOps) /\ jaxOps' = Append(jaxOps, jop) /\ inputWidth' = inputWidth
    BY DEF CompileInv, Lists, Extended
<1> HIDE DEF first
<1>2. PICK S : jaxOps \in Seq(S) /\ jop \in S
    BY <1>1, ListExtends
<1>3. JaxSlotsOf(Append(jaxOps, jop), first) = RunJaxOp(JaxSlotsOf(jaxOps, first), jop)
    BY <1>2, JaxOperating!LoopGoesOn DEF JaxSlotsOf
<1> QED
    BY <1>1, <1>3 DEF first

\* All slots of all runs hold tensors with positive extents.
ShapeInv == \A b \in Batches : ShapesFit(SlotsOf(ops, FirstSlots(b, inputWidth)), Len(ops))

\* The shapes of the input.
LEMMA ShapesStart == ASSUME LoweringInit PROVE ShapeInv
<1> SUFFICES ASSUME NEW b \in Batches PROVE ShapesFit(SlotsOf(ops, FirstSlots(b, inputWidth)), Len(ops))
    BY DEF ShapeInv
<1> DEFINE first == FirstSlots(b, inputWidth)
<1>1. b \in Pos /\ inputWidth \in Pos /\ ops = <<>> /\ Len(ops) = 0
    BY BatchesAssumption, InputAssumption, EmptyList DEF LoweringInit, ProgramInit, Pos
<1>2. first # Thrown /\ DOMAIN first = 0..0 /\ first[0].shape \in Shapes
    BY <1>1, FirstFits
<1> HIDE DEF first
<1>3. SlotsOf(ops, first) = first
    BY <1>1, SlotsStart
<1>4. ShapesFit(first, 0)
    BY <1>2 DEF ShapesFit
<1> QED
    BY <1>1, <1>3, <1>4 DEF first

\* The shapes of one result more.
LEMMA ShapesStep ==
    ASSUME CompileInv, ShapeInv, NEW op, NEW jop, NEW from, NEW result, NEW width,
           Extended(op, jop, from, result, width)
    PROVE  ShapeInv'
<1> SUFFICES ASSUME NEW b \in Batches PROVE ShapesFit(SlotsOf(ops', FirstSlots(b, inputWidth')), Len(ops'))
    BY DEF ShapeInv
<1> DEFINE slots == SlotsOf(ops, FirstSlots(b, inputWidth))
           n == Len(ops)
           arity == Len(from)
<1>1. ShapesFit(slots, n)
    BY DEF ShapeInv
<1>2. n \in Nat /\ Len(ops') = n + 1
    BY AddedOps
<1>3. Lowered(op, jop, arity, width) /\ DOMAIN op.in = 1..arity /\ op.out = n + 1
    BY StepLowers
<1>4. SlotsOf(ops', FirstSlots(b, inputWidth')) = RunOp(slots, op)
    BY StepRuns
<1> HIDE DEF slots, n, arity
<1>5. ShapesFit(RunOp(slots, op), n + 1)
    BY <1>1, <1>2, <1>3, ShapesGoOn
<1> QED
    BY <1>2, <1>4, <1>5

\* The two runs of a batch.
JaxInv ==
    \A b \in Batches : JaxSame(ops, SlotsOf(ops, FirstSlots(b, inputWidth)),
                               JaxSlotsOf(jaxOps, FirstSlots(b, inputWidth)), Len(ops))

\* Both runs start from the same input.
LEMMA JaxStarts == ASSUME LoweringInit PROVE JaxInv
<1> SUFFICES ASSUME NEW b \in Batches
             PROVE  JaxSame(ops, SlotsOf(ops, FirstSlots(b, inputWidth)),
                            JaxSlotsOf(jaxOps, FirstSlots(b, inputWidth)), Len(ops))
    BY DEF JaxInv
<1> DEFINE first == FirstSlots(b, inputWidth)
<1>1. b \in Pos /\ inputWidth \in Pos /\ ops = <<>> /\ jaxOps = <<>> /\ Len(ops) = 0
    BY BatchesAssumption, InputAssumption, EmptyList DEF LoweringInit, ProgramInit, JaxInit, Pos
<1>2. first # Thrown /\ DOMAIN first = 0..0 /\ Len(first[0].shape) = 2
    BY <1>1, FirstFits
<1> HIDE DEF first
<1>3. SlotsOf(ops, first) = first /\ JaxSlotsOf(jaxOps, first) = first
    BY <1>1, SlotsStart, JaxOperating!LoopEnds DEF JaxSlotsOf
<1>4. JaxSame(ops, first, first, 0)
    BY <1>2 DEF JaxSame
<1> QED
    BY <1>1, <1>3, <1>4 DEF first

\* Both runs go on alike.
LEMMA JaxStep ==
    ASSUME CompileInv, ShapeInv, JaxInv, NEW op, NEW jop, NEW from, NEW result, NEW width,
           Extended(op, jop, from, result, width)
    PROVE  JaxInv'
<1> SUFFICES ASSUME NEW b \in Batches
             PROVE  JaxSame(ops', SlotsOf(ops', FirstSlots(b, inputWidth')),
                            JaxSlotsOf(jaxOps', FirstSlots(b, inputWidth')), Len(ops'))
    BY DEF JaxInv
<1> DEFINE slots == SlotsOf(ops, FirstSlots(b, inputWidth))
           jaxSlots == JaxSlotsOf(jaxOps, FirstSlots(b, inputWidth))
           program == ops
           longer == ops'
           n == Len(ops)
           arity == Len(from)
<1>1. ShapesFit(slots, n) /\ JaxSame(program, slots, jaxSlots, n)
    BY DEF ShapeInv, JaxInv
<1>2. n \in Nat /\ Len(ops') = n + 1 /\ longer[n + 1] = op /\ \A k \in 1..n : longer[k] = program[k]
    BY AddedOps
<1>3. \A k \in 1..n : program[k].in[1] \in 0..n
    BY DEF CompileInv, Wired
<1>4. Lowered(op, jop, arity, width) /\ DOMAIN op.in = 1..arity /\ op.out = n + 1
    BY StepLowers
<1>5. /\ SlotsOf(ops', FirstSlots(b, inputWidth')) = RunOp(slots, op)
      /\ JaxSlotsOf(jaxOps', FirstSlots(b, inputWidth')) = RunJaxOp(jaxSlots, jop)
    BY StepRuns, StepRunsJax
<1> HIDE DEF slots, jaxSlots, program, n, arity
<1>6. JaxSame(longer, RunOp(slots, op), RunJaxOp(jaxSlots, jop), n + 1)
  <2> HIDE DEF longer
  <2> QED
      BY ONLY <1>1, <1>2, <1>3, <1>4, JaxSameGoesOn
<1> QED
    BY <1>2, <1>5, <1>6

\* The widths along compile.
WidthInv ==
    \A b \in Batches :
        WidthsFit(b, ops, SlotsOf(ops, FirstSlots(b, inputWidth)), declared, tensorWidth, lastWidth, Len(ops))

\* The width of the input.
LEMMA WidthsStart == ASSUME LoweringInit PROVE WidthInv
<1> SUFFICES ASSUME NEW b \in Batches
             PROVE  WidthsFit(b, ops, SlotsOf(ops, FirstSlots(b, inputWidth)), declared, tensorWidth, lastWidth, Len(ops))
    BY DEF WidthInv
<1> DEFINE first == FirstSlots(b, inputWidth)
<1>1. b \in Pos /\ inputWidth \in Pos /\ ops = <<>> /\ Len(ops) = 0 /\ lastWidth = inputWidth
    BY BatchesAssumption, InputAssumption, EmptyList DEF LoweringInit, ProgramInit, Pos
<1>2. first[0].shape = <<b, inputWidth>>
    BY <1>1, FirstFits
<1> HIDE DEF first
<1>3. Rows(first[0], b) /\ first[0].shape[2] = inputWidth
    BY <1>1, <1>2, RowsAre
<1>4. SlotsOf(ops, first) = first
    BY <1>1, SlotsStart
<1>5. WidthsFit(b, ops, first, declared, tensorWidth, lastWidth, 0)
    BY <1>1, <1>3 DEF WidthsFit
<1> QED
    BY <1>1, <1>4, <1>5 DEF first

\* The widths of one result more.
LEMMA WidthsStep ==
    ASSUME CompileInv, ShapeInv, WidthInv,
           NEW op, NEW jop, NEW from, NEW result \in Results, NEW width,
           Extended(op, jop, from, result, width)
    PROVE  WidthInv'
<1> SUFFICES ASSUME NEW b \in Batches
             PROVE  WidthsFit(b, ops', SlotsOf(ops', FirstSlots(b, inputWidth')), declared', tensorWidth', lastWidth',
                              Len(ops'))
    BY DEF WidthInv
<1> DEFINE slots == SlotsOf(ops, FirstSlots(b, inputWidth))
           program == ops
           longer == ops'
           by == declared
           longerBy == declared'
           widths == tensorWidth
           last == lastWidth
           n == Len(ops)
           arity == Len(from)
<1>1. b \in Pos /\ ShapesFit(slots, n) /\ WidthsFit(b, program, slots, by, widths, last, n)
    BY BatchesAssumption DEF ShapeInv, WidthInv, Pos
<1>2. n \in Nat /\ Len(ops') = n + 1 /\ longer[n + 1] = op /\ \A k \in 1..n : longer[k] = program[k]
    BY AddedOps
<1>3. \A k \in 1..n : program[k].in[1] \in 0..n
    BY DEF CompileInv, Wired
<1>4. longerBy[n + 1].result = result /\ \A k \in 1..n : longerBy[k] = by[k]
  <2>1. longerBy[n + 1] = [from |-> from, result |-> result] /\ \A k \in 1..n : longerBy[k] = by[k]
      BY AddedDeclaration
  <2> QED
      BY <2>1
<1>5. Lowered(op, jop, arity, width) /\ DOMAIN op.in = 1..arity /\ op.out = n + 1
    BY StepLowers
<1>6. op.kind \notin Weighted => width = IF widths[result] = Undeclared THEN last ELSE widths[result]
    BY DEF Extended, WidthKept
<1>7. SlotsOf(ops', FirstSlots(b, inputWidth')) = RunOp(slots, op)
    BY StepRuns
<1>8. tensorWidth' = widths /\ lastWidth' = width
    BY DEF Extended
<1> HIDE DEF slots, program, by, widths, last, n, arity
<1>9. WidthsFit(b, longer, RunOp(slots, op), longerBy, widths, width, n + 1)
  <2> HIDE DEF longer, longerBy
  <2>1. b \in Pos /\ ShapesFit(slots, n) /\ WidthsFit(b, program, slots, by, widths, last, n)
      BY <1>1
  <2>2. Longer(program, longer, op, by, longerBy, n)
      BY <1>2, <1>3, <1>4 DEF Longer
  <2>3. Keeps(op, longerBy[n + 1], widths, last, width)
      BY <1>4, <1>6 DEF Keeps
  <2> QED
      BY ONLY <2>1, <2>2, <2>3, <1>5, WidthsGoOn
<1> QED
    BY <1>2, <1>7, <1>8, <1>9

-----------------------------------------------------------------------------
(* The invariant of compile, and what follows from it. *)

LoweringInv == CompileInv /\ PlanInv /\ ShapeInv /\ WidthInv /\ JaxInv

\* It holds of an empty model.
LEMMA LoweringStarts == ASSUME LoweringInit PROVE LoweringInv
BY CompileStarts, PlanStarts, ShapesStart, WidthsStart, JaxStarts DEF LoweringInv

\* Sealing changes nothing of what was lowered.
LEMMA LoweringStays ==
    ASSUME LoweringInv, UNCHANGED <<ops, jaxOps, inputWidth>>, UNCHANGED loweringVars, CompileInv'
    PROVE  LoweringInv'
<1>1. PlanInv'
    BY PlanStays DEF LoweringInv, loweringVars
<1>2. ShapeInv' /\ JaxInv'
    BY DEF LoweringInv, ShapeInv, JaxInv
<1>3. WidthInv'
    BY DEF LoweringInv, WidthInv, loweringVars
<1> QED
    BY <1>1, <1>2, <1>3 DEF LoweringInv

\* Every step keeps it.
LEMMA LoweringGoesOn ==
    ASSUME LoweringInv, [LoweringNext]_compileVars
    PROVE  LoweringInv'
<1>1. CompileInv'
    BY CompileSteps DEF LoweringInv
<1>2. CASE UNCHANGED compileVars
    BY <1>1, <1>2, LoweringStays DEF compileVars, programVars, jaxVars
<1>3. CASE SealBoth
  <2>1. UNCHANGED <<ops, jaxOps, inputWidth>> /\ UNCHANGED loweringVars
      BY <1>3 DEF SealBoth, Seal, JaxSeal
  <2> QED
      BY <1>1, <2>1, LoweringStays
<1>4. CASE LoweringNext /\ ~SealBoth
  <2>1. PICK op, jop, from, width : \E result \in Results :
            Extended(op, jop, from, result, width)
      BY <1>4, LoweringSteps DEF LoweringInv
  <2>2. PICK result \in Results : Extended(op, jop, from, result, width)
      BY <2>1
  <2>3. PlanInv'
      BY <2>2, PlanGoesOn DEF LoweringInv
  <2>4. ShapeInv' /\ JaxInv'
      BY <2>2, ShapesStep, JaxStep DEF LoweringInv
  <2>5. WidthInv'
      BY <2>2, WidthsStep DEF LoweringInv
  <2> QED
      BY <1>1, <2>3, <2>4, <2>5 DEF LoweringInv
<1> QED
    BY <1>2, <1>3, <1>4

\* The run of a sealed plan ends in the slot of its last operation.
LEMMA RunOfSealed ==
    ASSUME LoweringInv, Compiled, NEW b \in Batches, Run(b) # Thrown
    PROVE  /\ b \in Pos /\ Len(ops) \in Nat /\ Len(ops) > 0 /\ DOMAIN ops = 1..Len(ops)
           /\ outputSlot = Len(ops) /\ jaxOutputSlot = outputSlot /\ jaxInputWidth = inputWidth
           /\ outputWidth = lastWidth
           /\ SlotsAfter(b) = SlotsOf(ops, FirstSlots(b, inputWidth))
           /\ Run(b) = SlotsAfter(b) /\ outputSlot \in DOMAIN SlotsAfter(b)
<1>1. /\ b \in Pos /\ Len(ops) \in Nat /\ Len(ops) > 0 /\ DOMAIN ops = 1..Len(ops)
      /\ outputSlot = Len(ops) /\ jaxOutputSlot = outputSlot /\ jaxInputWidth = inputWidth
      /\ outputWidth = lastWidth
    BY BatchesAssumption, ListAppends DEF LoweringInv, CompileInv, Lists, SealedAlike, Compiled, Pos
<1>2. SlotsAfter(b) = SlotsOf(ops, FirstSlots(b, inputWidth))
    BY DEF SlotsAfter, InputSlots
<1>3. Run(b) = SlotsAfter(b) /\ outputSlot \in DOMAIN SlotsAfter(b)
    BY DEF Run
<1> QED
    BY <1>1, <1>2, <1>3

\* The last slot has batch rows of the width the plan was sealed with.
LEMMA ResultsFit == ASSUME LoweringInv PROVE ResultComplete
<1> SUFFICES ASSUME Compiled, WithoutLosses, NEW b \in Batches, Run(b) # Thrown, ~MaskBroadcasts(b)
             PROVE  /\ Numel(Result(b)) = b * LastAxis(Result(b))
                    /\ Truthful(b) => Numel(Result(b)) = Copied(b)
    BY DEF ResultComplete
<1> DEFINE n == Len(ops)
           slots == SlotsAfter(b)
           x == Result(b)
           w == x.shape[2]
           truthful == Truthful(b)
<1>1. /\ b \in Pos /\ n \in Nat /\ n > 0 /\ DOMAIN ops = 1..n /\ outputSlot = n /\ outputWidth = lastWidth
      /\ slots = SlotsOf(ops, FirstSlots(b, inputWidth)) /\ Run(b) = slots /\ x = slots[n]
    BY RunOfSealed DEF Result
<1>2. NoLosses(ops, n) /\ MasksFit(ops, slots, n)
    BY <1>1 DEF NoLosses, WithoutLosses, MasksFit, MaskBroadcasts
<1>3. truthful => TruthfulTo(ops, slots, declared, tensorWidth, n)
    BY <1>1 DEF Truthful, TruthfulTo
<1>4. WidthsFit(b, ops, slots, declared, tensorWidth, lastWidth, n)
    BY <1>1 DEF LoweringInv, WidthInv
<1> HIDE DEF n, slots, x, truthful
<1>5. Rows(x, b) /\ (truthful => w = lastWidth)
    BY <1>1, <1>2, <1>3, <1>4 DEF WidthsFit
<1>6. x.shape = <<b, w>> /\ w \in Pos /\ LastAxis(x) = w
    BY <1>5, RowsAre, LastOfRows
<1> HIDE DEF w
<1>7. Numel(x) = b * w
    BY <1>1, <1>6, NumelOfMatrix
<1>8. truthful => Numel(x) = b * outputWidth
    BY <1>1, <1>5, <1>7
<1> QED
    BY <1>6, <1>7, <1>8 DEF Copied, x, truthful

\* Equal slots at the end are equal results.
LEMMA ParityWithoutReductions ==
    ASSUME LoweringInv, \A k \in DOMAIN ops : ops[k].kind \notin Reductions
    PROVE  StrictParity
<1> SUFFICES ASSUME Compiled, NEW b \in Batches, Run(b) # Thrown, ~ScalarAlongAxis(b)
             PROVE  JaxResult(b) = Result(b)
    BY DEF StrictParity, SameResult
<1> DEFINE n == Len(ops)
           slots == SlotsAfter(b)
           jaxSlots == JaxSlotsOf(jaxOps, FirstSlots(b, inputWidth))
<1>1. /\ b \in Pos /\ n \in Nat /\ DOMAIN ops = 1..n
      /\ jaxOutputSlot = outputSlot /\ jaxInputWidth = inputWidth
      /\ slots = SlotsOf(ops, FirstSlots(b, inputWidth)) /\ Run(b) = slots /\ outputSlot \in DOMAIN slots
    BY RunOfSealed
<1>2. NoReductions(ops, n) /\ NoScalars(ops, slots, n)
    BY <1>1 DEF NoReductions, NoScalars, ScalarAlongAxis
<1>3. JaxSame(ops, slots, jaxSlots, n)
    BY <1>1 DEF LoweringInv, JaxInv
<1>4. JaxRun(b) = jaxSlots
    BY <1>1 DEF JaxRun, JaxSlotsOf, JaxInputSlots, FirstSlots
<1> HIDE DEF n, slots, jaxSlots
<1>5. jaxSlots = slots
    BY <1>1, <1>2, <1>3 DEF JaxSame
<1>6. b > 0 /\ jaxSealed
    BY <1>1 DEF Compiled, Pos
<1>7. JaxResult(b) = slots[jaxOutputSlot]
    BY <1>1, <1>4, <1>5, <1>6 DEF JaxResult
<1> QED
    BY <1>1, <1>7 DEF Result

\* Calls without a plan.
LEMMA SingleCallsAgree ==
    ASSUME NEW x, x.shape \in Shapes, NEW id
    PROVE  TorchTensorOp(id, x) = JaxTensorOp(id, x)
<1>1. Numel(x) \in Nat \ {0}
    BY NumelPositive DEF Pos
<1>2. ~(Numel(x) <= 0)
    BY <1>1
<1> QED
    BY <1>2 DEF TorchTensorOp, JaxTensorOp, TorchTensorOps, JaxTensorOps

\* Matrix products without a plan.
LEMMA MatmulsAgree ==
    ASSUME NEW s \in WeightShapes, NEW t \in WeightShapes, NEW a, NEW b, a = Tensor(s, <<"a">>), b = Tensor(t, <<"b">>)
    PROVE  TorchMatmul(a, b) = JaxMatmul(a, b)
<1>1. a.shape = s /\ b.shape = t
    BY DEF Tensor
<1>2. s[2] \in Nat /\ t[1] \in Nat
    BY ShapesAssumption
<1> QED
    BY <1>1, <1>2 DEF TorchMatmul, JaxMatmul, Product

\* The three parts of JaxAgrees.
LEMMA ParityOfPlans == ASSUME LoweringInv PROVE JaxAgrees
<1>1. (\A k \in DOMAIN ops : ops[k].kind \notin Reductions) => StrictParity
    BY ParityWithoutReductions
<1>2. ASSUME Compiled, NEW b \in Batches, Run(b) # Thrown, NEW id
      PROVE  TorchTensorOp(id, Run(b)[outputSlot]) = JaxTensorOp(id, Run(b)[outputSlot])
  <2> DEFINE n == Len(ops)
             slots == SlotsAfter(b)
  <2>1. /\ n \in Nat /\ outputSlot = n
        /\ slots = SlotsOf(ops, FirstSlots(b, inputWidth)) /\ Run(b) = slots
      BY <1>2, RunOfSealed
  <2>2. ShapesFit(slots, n)
      BY <2>1 DEF LoweringInv, ShapeInv
  <2> HIDE DEF n, slots
  <2>3. slots[n].shape \in Shapes
      BY <1>2, <2>1, <2>2 DEF ShapesFit
  <2> QED
      BY <2>1, <2>3, SingleCallsAgree
<1>3. \A s, t \in WeightShapes : LET a == Tensor(s, <<"a">>)  b == Tensor(t, <<"b">>) IN
          TorchMatmul(a, b) = JaxMatmul(a, b)
    BY MatmulsAgree
<1>4. Compiled => \A b \in Batches : LET slots == Run(b)  x == slots[outputSlot] IN
          slots # Thrown => \A id \in 0..10 : TorchTensorOp(id, x) = JaxTensorOp(id, x)
    BY <1>2
<1> QED
    BY <1>1, <1>3, <1>4 DEF JaxAgrees

\* The slots compile hands out carry what the ids stand for (LibTorchProvider.compile, run_plan): for any
\* model, of any length, over any ids, weights and batches, a batch runs exactly when the model has a meaning,
\* and its result is what the model means.
THEOREM PlansComputeModels == LoweringSpec => []PlanComputesModel
<1>1. LoweringInv => PlanComputesModel
    BY PlanIsModel DEF LoweringInv
<1> QED
    BY <1>1, LoweringStarts, LoweringGoesOn, PTL DEF LoweringSpec

\* The numbers execute copies (libtorch_panama.cpp) are those of the tensor for every model without losses, unless
\* a mask was broadcast: it has one row per example, and rows of the width compile sealed with if the model declares
\* its results truthfully.  A model that does not may be read past the end of the tensor.
THEOREM ResultsAreComplete == LoweringSpec => []ResultComplete
BY LoweringStarts, LoweringGoesOn, ResultsFit, PTL DEF LoweringSpec

\* For any model without reductions JAX computes what LibTorch computes (execute in jax_panama.cpp, run_plan in
\* libtorch_panama.cpp); single calls and single matrix products agree too.
THEOREM BackendsAgree == LoweringSpec => []JaxAgrees
BY LoweringStarts, LoweringGoesOn, ParityOfPlans, PTL DEF LoweringSpec

==============================================================================
