-------------------------------- MODULE Loops --------------------------------
(***************************************************************************)
(* A loop over a list that carries one value along: run_plan over the      *)
(* operations of a plan, execute over those of a JAX plan, the product of  *)
(* the extents of a tensor, a sum of terms.  A module that has such a loop *)
(* takes an instance of this one, with its loop body as Turn.              *)
(*                                                                         *)
(* The lemmas are what proofs about such a loop rest on: what it yields    *)
(* without turns, and what one turn more makes of it.  Loop is a recursive *)
(* function, so its value for a list of any length is found by induction;  *)
(* the induction is on the least counterexample, which the library's WFMin *)
(* provides for a set.                                                     *)
(***************************************************************************)
EXTENDS Integers, Sequences, WellFoundedInduction, TLAPS

CONSTANT Turn(_, _)     \* the value after one turn of the loop: of the value before and the element

Loop(first, seq) ==
    LET after[k \in 0..Len(seq)] == IF k = 0 THEN first ELSE Turn(after[k - 1], seq[k])
    IN  after[Len(seq)]
-----------------------------------------------------------------------------
(* Induction over the natural numbers, for a set instead of a predicate.   *)

\* A set that has 0 and with each natural number the next one has all of them.
LEMMA Induction ==
    ASSUME NEW T, 0 \in T, \A n \in Nat : n \in T => n + 1 \in T
    PROVE  Nat \subseteq T
<1> DEFINE R == {ss \in Nat \X Nat : ss[1] < ss[2]}
           U == Nat \ T
<1> SUFFICES ASSUME U # {} PROVE FALSE
  OBVIOUS
<1>1. IsWellFoundedOn(R, Nat)
  BY NatLessThanWellFounded DEF OpToRel
<1>2. PICK n \in U : \A m \in U : ~(<<m, n>> \in R)
  <2>1. U \subseteq Nat
    OBVIOUS
  <2> HIDE DEF R, U
  <2> QED BY <1>1, <2>1, WFMin
<1>3. n \in Nat /\ n # 0
  OBVIOUS
<1>4. n - 1 \in U /\ n - 1 < n
  BY <1>3
<1>5. <<n - 1, n>> \in R
  BY <1>3, <1>4
<1> QED BY <1>2, <1>4, <1>5

-----------------------------------------------------------------------------
(* The values a loop carries are a function of the number of turns.        *)

Trace(first, seq, n, h) == h = [k \in 0..n |-> IF k = 0 THEN first ELSE Turn(h[k - 1], seq[k])]

\* A loop of n turns has a trace.
LEMMA TraceExists ==
    ASSUME NEW first, NEW seq, NEW n \in Nat
    PROVE  \E h : Trace(first, seq, n, h)
<1> DEFINE T == {m \in Nat : \E h : Trace(first, seq, m, h)}
<1>1. 0 \in T
  <2>1. Trace(first, seq, 0, [k \in 0..0 |-> first])
    BY DEF Trace
  <2> QED BY <2>1
<1>2. ASSUME NEW m \in Nat, m \in T PROVE m + 1 \in T
  <2>1. PICK h : Trace(first, seq, m, h)
    BY <1>2
  <2> DEFINE g == [k \in 0..m + 1 |-> IF k = m + 1 THEN Turn(h[m], seq[m + 1]) ELSE h[k]]
  <2>2. ASSUME NEW k \in 0..m + 1 PROVE g[k] = IF k = 0 THEN first ELSE Turn(g[k - 1], seq[k])
    <3>1. CASE k = 0
      BY <2>1, <3>1 DEF Trace
    <3>2. CASE k # 0 /\ k # m + 1
      <4>1. k \in 0..m /\ k - 1 \in 0..m
        BY <3>2
      <4>2. h[k] = Turn(h[k - 1], seq[k])
        BY <2>1, <3>2, <4>1 DEF Trace
      <4> QED BY <3>2, <4>1, <4>2
    <3>3. CASE k = m + 1
      BY <3>3
    <3> QED BY <3>1, <3>2, <3>3
  <2>3. Trace(first, seq, m + 1, g)
    BY <2>2 DEF Trace
  <2> QED BY <2>3
<1> HIDE DEF T
<1>3. n \in T
  BY <1>1, <1>2, Induction
<1> QED BY <1>3 DEF T

\* Two loops from one value agree as far as their lists do.
LEMMA TraceAgrees ==
    ASSUME NEW first, NEW s, NEW t, NEW m \in Nat, NEW n \in Nat, NEW g, NEW h, m <= n,
           Trace(first, s, m, g), Trace(first, t, n, h), \A k \in 1..m : s[k] = t[k]
    PROVE  \A k \in 0..m : g[k] = h[k]
<1> DEFINE T == {k \in Nat : k <= m => g[k] = h[k]}
<1>1. 0 \in T
  BY DEF Trace
<1>2. ASSUME NEW k \in Nat, k \in T PROVE k + 1 \in T
  <2> SUFFICES ASSUME k + 1 <= m PROVE g[k + 1] = h[k + 1]
    OBVIOUS
  <2>1. /\ k + 1 \in 0..m /\ k + 1 \in 0..n /\ k + 1 \in 1..m
        /\ g[k] = h[k] /\ (k + 1) - 1 = k /\ k + 1 # 0
    BY <1>2
  <2> QED BY <2>1 DEF Trace
<1> HIDE DEF T
<1>3. Nat \subseteq T
  BY <1>1, <1>2, Induction
<1> QED BY <1>3 DEF T

LEMMA LoopIsTrace ==
    ASSUME NEW first, NEW S, NEW seq \in Seq(S)
    PROVE  \E h : Trace(first, seq, Len(seq), h) /\ Loop(first, seq) = h[Len(seq)]
<1> DEFINE h == CHOOSE h : Trace(first, seq, Len(seq), h)
<1>1. Trace(first, seq, Len(seq), h)
  BY TraceExists
<1>2. Loop(first, seq) = h[Len(seq)]
  BY DEF Loop, Trace
<1> QED BY <1>1, <1>2

-----------------------------------------------------------------------------
(* What an instance cites. *)

\* Without turns the loop yields what it started from.
LEMMA LoopEnds == \A first : Loop(first, <<>>) = first
<1> SUFFICES ASSUME NEW first PROVE Loop(first, <<>>) = first
  OBVIOUS
<1>1. <<>> \in Seq({}) /\ Len(<<>>) = 0
  OBVIOUS
<1>2. PICK h : Trace(first, <<>>, 0, h) /\ Loop(first, <<>>) = h[0]
  BY <1>1, LoopIsTrace
<1> QED BY <1>2 DEF Trace

\* One more element is one more turn, on what the loop yielded before it.
LEMMA LoopGoesOn ==
    ASSUME NEW first, NEW S, NEW seq \in Seq(S), NEW x \in S
    PROVE  Loop(first, Append(seq, x)) = Turn(Loop(first, seq), x)
<1> DEFINE n == Len(seq)
           q == n + 1
           longer == Append(seq, x)
<1>1. /\ n \in Nat /\ q \in Nat /\ n <= q /\ q # 0 /\ q - 1 = n /\ n \in 0..n /\ q \in 0..q
      /\ longer \in Seq(S) /\ Len(longer) = q /\ longer[q] = x
      /\ \A k \in 1..n : seq[k] = longer[k]
  OBVIOUS
<1>2. PICK g : Trace(first, seq, n, g) /\ Loop(first, seq) = g[n]
  BY LoopIsTrace
<1> HIDE DEF n, q, longer
<1>3. PICK h : Trace(first, longer, q, h) /\ Loop(first, longer) = h[q]
  <2>1. \E h : Trace(first, longer, Len(longer), h) /\ Loop(first, longer) = h[Len(longer)]
    BY <1>1, LoopIsTrace
  <2> QED BY <1>1, <2>1
<1>4. \A k \in 0..n : g[k] = h[k]
  BY <1>1, <1>2, <1>3, TraceAgrees
<1>5. h[q] = Turn(h[n], longer[q])
  BY <1>1, <1>3 DEF Trace
<1> QED BY <1>1, <1>2, <1>3, <1>4, <1>5 DEF longer
==============================================================================
