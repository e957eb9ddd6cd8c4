----------------------- MODULE ModelContainerProofs -------------------------
(***************************************************************************)
(* Proofs about ModelContainer, for every set of containers, names and     *)
(* programs, and every bound.                                              *)
(***************************************************************************)
EXTENDS ModelContainer, SequenceTheorems, TLAPS

(***************************************************************************)
(* Sequences                                                               *)
(***************************************************************************)

LEMMA FrontProperties ==
    ASSUME NEW S, NEW s \in Seq(S), s # <<>>
    PROVE  /\ Front(s) \in Seq(S)
           /\ Len(Front(s)) = Len(s) - 1
           /\ \A i \in 1..Len(s) - 1 : Front(s)[i] = s[i]
           /\ Last(s) \in S
           /\ Len(s) \in Nat \ {0}
<1>1. Len(s) \in Nat \ {0}
  OBVIOUS
<1>2. DOMAIN s = 1..Len(s) /\ s \in [1..Len(s) -> S]
  OBVIOUS
<1> DEFINE m == Len(s) - 1
           u == SubSeq(s, 1, m)
<1>3. m \in Nat /\ \A i \in 1..m : s[i] \in S
  BY <1>1, <1>2
<1>4. /\ u \in Seq(S)
      /\ Len(u) = IF 1 <= m THEN m - 1 + 1 ELSE 0
      /\ \A i \in 1..m - 1 + 1 : u[i] = s[1 + i - 1]
  <2> HIDE DEF m
  <2> QED BY <1>3, SubSeqProperties
<1>5. Front(s) = u
  BY DEF Front
<1> HIDE DEF u
<1>6. u \in Seq(S) /\ Len(u) = m /\ \A i \in 1..m : u[i] = s[i]
  <2> HIDE DEF m
  <2> QED BY <1>3, <1>4
<1>7. Last(s) \in S
  BY <1>1, <1>2 DEF Last
<1> QED BY <1>1, <1>5, <1>6, <1>7

LEMMA AppendKeeps ==
    ASSUME NEW S, NEW s \in Seq(S), NEW x \in S
    PROVE  /\ ToSet(Append(s, x)) = ToSet(s) \cup {x}
           /\ IsInjective(s) /\ x \notin ToSet(s) => IsInjective(Append(s, x))
<1>1. ToSet(Append(s, x)) \subseteq ToSet(s) \cup {x}
  BY DEF ToSet
<1>2. ToSet(s) \subseteq ToSet(Append(s, x))
  BY DEF ToSet
<1>3. x \in ToSet(Append(s, x))
  <2>1. Append(s, x)[Len(s) + 1] = x /\ Len(s) + 1 \in DOMAIN Append(s, x)
    OBVIOUS
  <2> QED BY <2>1 DEF ToSet
<1>4. IsInjective(s) /\ x \notin ToSet(s) => IsInjective(Append(s, x))
  BY DEF ToSet, IsInjective
<1> QED BY <1>1, <1>2, <1>3, <1>4

LEMMA TailKeeps ==
    ASSUME NEW S, NEW s \in Seq(S), s # <<>>
    PROVE  /\ Tail(s) \in Seq(S) /\ Len(Tail(s)) = Len(s) - 1
           /\ \A i \in 1..Len(s) - 1 : Tail(s)[i] = s[i + 1]
           /\ Head(s) = s[1] /\ Head(s) \in S
           /\ ToSet(s) = {Head(s)} \cup ToSet(Tail(s))
           /\ IsInjective(s) => IsInjective(Tail(s)) /\ Head(s) \notin ToSet(Tail(s))
<1>1. /\ Tail(s) \in Seq(S) /\ Len(Tail(s)) = Len(s) - 1 /\ Len(s) \in Nat \ {0}
      /\ \A i \in 1..Len(s) - 1 : Tail(s)[i] = s[i + 1]
      /\ Head(s) = s[1] /\ Head(s) \in S
  OBVIOUS
<1>2. DOMAIN s = 1..Len(s) /\ DOMAIN Tail(s) = 1..Len(s) - 1
  BY <1>1
<1>3. ToSet(s) \subseteq {Head(s)} \cup ToSet(Tail(s))
  <2> SUFFICES ASSUME NEW i \in 1..Len(s) PROVE s[i] \in {Head(s)} \cup ToSet(Tail(s))
    BY <1>2 DEF ToSet
  <2>1. CASE i = 1
    BY <2>1, <1>1
  <2>2. CASE i # 1
    <3>1. i - 1 \in 1..Len(s) - 1 /\ Tail(s)[i - 1] = s[i]
      BY <2>2, <1>1
    <3> QED BY <3>1, <1>2 DEF ToSet
  <2> QED BY <2>1, <2>2
<1>4. {Head(s)} \cup ToSet(Tail(s)) \subseteq ToSet(s)
  <2>1. Head(s) \in ToSet(s)
    BY <1>1, <1>2 DEF ToSet
  <2>2. \A i \in 1..Len(s) - 1 : i + 1 \in 1..Len(s)
    BY <1>1
  <2>3. ToSet(Tail(s)) \subseteq ToSet(s)
    BY <1>1, <1>2, <2>2 DEF ToSet
  <2> QED BY <2>1, <2>3
<1>5. IsInjective(s) => IsInjective(Tail(s)) /\ Head(s) \notin ToSet(Tail(s))
  <2> SUFFICES ASSUME IsInjective(s) PROVE IsInjective(Tail(s)) /\ Head(s) \notin ToSet(Tail(s))
    OBVIOUS
  <2>1. \A i, j \in 1..Len(s) : s[i] = s[j] => i = j
    BY <1>2 DEF IsInjective
  <2>2. \A i, j \in 1..Len(s) - 1 : Tail(s)[i] = Tail(s)[j] => i = j
    BY <2>1, <1>1
  <2>3. \A i \in 1..Len(s) - 1 : Tail(s)[i] # Head(s)
    BY <2>1, <1>1
  <2> QED BY <2>2, <2>3, <1>2 DEF IsInjective, ToSet
<1> QED BY <1>1, <1>3, <1>4, <1>5

LEMMA RemoveAtKeeps ==
    ASSUME NEW S, NEW s \in Seq(S), NEW i \in 1..Len(s), IsInjective(s)
    PROVE  /\ RemoveAt(s, i) \in Seq(S)
           /\ ToSet(RemoveAt(s, i)) = ToSet(s) \ {s[i]}
           /\ IsInjective(RemoveAt(s, i))
<1> DEFINE n == Len(s)
           l == SubSeq(s, 1, i - 1)
           r == SubSeq(s, i + 1, n)
           t == l \o r
<1>1. /\ l \in Seq(S) /\ Len(l) = i - 1
      /\ \A k \in 1..i - 1 : l[k] = s[k]
  OBVIOUS
<1>2. /\ r \in Seq(S) /\ Len(r) = n - i
      /\ \A k \in 1..n - i : r[k] = s[i + k]
  <2>1. r \in Seq(S)
    BY SubSeqProperties
  <2>2. Len(r) = n - i
    BY SubSeqProperties
  <2>3. \A k \in 1..n - i : r[k] = s[i + k]
    BY SubSeqProperties
  <2> QED BY <2>1, <2>2, <2>3
<1> HIDE DEF l, r
<1>3. /\ t \in Seq(S) /\ Len(t) = n - 1
      /\ \A k \in 1..n - 1 : t[k] = IF k < i THEN s[k] ELSE s[k + 1]
  <2>0. n \in Nat
    OBVIOUS
  <2>1. t \in Seq(S) /\ Len(t) = n - 1
    <3>1. t \in Seq(S) /\ Len(t) = Len(l) + Len(r)
      BY <1>1, <1>2, ConcatProperties
    <3> HIDE DEF t
    <3> QED BY <3>1, <2>0, <1>1, <1>2
  <2>2. ASSUME NEW k \in 1..n - 1 PROVE t[k] = IF k < i THEN s[k] ELSE s[k + 1]
    <3>1. CASE k < i
      BY <3>1, <1>1, <1>2
    <3>2. CASE ~(k < i)
      <4>1. t[k] = r[k - (i - 1)]
        BY <3>2, <1>1, <1>2
      <4>2. k - (i - 1) \in 1..n - i /\ i + (k - (i - 1)) = k + 1
        BY <3>2
      <4> QED BY <4>1, <4>2, <1>2, <3>2
    <3> QED BY <3>1, <3>2
  <2> QED BY <2>1, <2>2
<1>4. RemoveAt(s, i) = t
  BY DEF RemoveAt, l, r
<1> HIDE DEF t
<1>5. DOMAIN s = 1..n /\ DOMAIN t = 1..n - 1 /\ n \in Nat
  BY <1>3
<1>6. IsInjective(t)
  <2>1. \A j, k \in 1..n : s[j] = s[k] => j = k
    BY <1>5 DEF IsInjective
  <2>2. \A j, k \in 1..n - 1 : t[j] = t[k] => j = k
    BY <2>1, <1>3, <1>5
  <2> QED BY <2>2, <1>5 DEF IsInjective
<1>7. ToSet(t) \subseteq ToSet(s) \ {s[i]}
  <2>1. \A j, k \in 1..n : s[j] = s[k] => j = k
    BY <1>5 DEF IsInjective
  <2>2. \A k \in 1..n - 1 : \E j \in 1..n : j # i /\ t[k] = s[j]
    BY <1>3, <1>5
  <2> QED BY <2>1, <2>2, <1>5 DEF ToSet
<1>8. ToSet(s) \ {s[i]} \subseteq ToSet(t)
  <2> SUFFICES ASSUME NEW j \in 1..n, s[j] # s[i] PROVE s[j] \in ToSet(t)
    BY <1>5 DEF ToSet
  <2>1. CASE j < i
    <3>1. j \in 1..n - 1 /\ t[j] = s[j]
      BY <2>1, <1>3, <1>5
    <3> QED BY <3>1, <1>5 DEF ToSet
  <2>2. CASE j > i
    <3>1. j - 1 \in 1..n - 1 /\ t[j - 1] = s[j]
      BY <2>2, <1>3, <1>5
    <3> QED BY <3>1, <1>5 DEF ToSet
  <2> QED BY <2>1, <2>2
<1> QED BY <1>3, <1>4, <1>6, <1>7, <1>8

(***************************************************************************)
(* Types.  The frames of the stack say more than their sets: the objects   *)
(* and actions that a walk or an iteration has still to visit exist.       *)
(***************************************************************************)

ProviderRecords ==
    [home : Containers, name : Names, state : States, actions : Seq(Actions), applied : Seq(Actions)]

Walks == {"configureEach", "all"}
\* Kinds of frames that the invariants below say nothing of.
Mute == {"body", "clear"}

Frames ==
    [kind : Walks \cup Mute \cup {"realize", "removed", "freeze"}, p : Nat,
     c : Containers, a : Nat, todo : Seq(Nat), at : Nat, size : Nat]

\* n providers and m actions have been made.
FrameTyped(f, n, m) ==
    /\ f.kind \in Walks \cup {"freeze"} => \A k \in 1..Len(f.todo) : f.todo[k] \in 1..n
    /\ f.kind \in Walks => f.a \in 1..m
    /\ f.kind \in {"realize", "removed"} => f.p \in 1..n /\ f.todo \in Seq(Actions)

Typed ==
    /\ TypeOK
    /\ stack \in Seq(Frames)
    /\ \A i \in 1..Len(stack) : FrameTyped(stack[i], Len(prov), issued)

(***************************************************************************)
(* What the steps do, with the new stack described by the frames that stay *)
(* (the first n) and the frame that comes on top of them.                  *)
(***************************************************************************)

AddsNone(n) ==
    /\ n \in 0..Len(stack) /\ stack' \in Seq(Frames) /\ n <= Len(stack')
    /\ \A i \in 1..n : stack'[i] = stack[i]
    /\ \A i \in n + 1..Len(stack') : stack'[i].kind \in Mute

Adds(n, f) ==
    /\ n \in 0..Len(stack) /\ stack' \in Seq(Frames) /\ n <= Len(stack')
    /\ \A i \in 1..n : stack'[i] = stack[i]
    /\ \E k \in n + 1..Len(stack') :
          /\ stack'[k] = f
          /\ \A i \in n + 1..Len(stack') : i # k => stack'[i].kind \in Mute

MadeGrows ==
    /\ made' \in Seq(Containers) /\ IsInjective(made')
    /\ Len(made) <= Len(made')
    /\ \A i \in 1..Len(made) : made'[i] = made[i]

\* Provider p is r now, the others are as they were.
Changes(p, r) ==
    /\ p \in Providers
    /\ prov' \in Seq(ProviderRecords) /\ Len(prov') = Len(prov)
    /\ prov'[p] = r
    /\ \A q \in Providers : q # p => prov'[q] = prov[q]

Applies(p, a) == Changes(p, [prov[p] EXCEPT !.applied = Append(@, a)])

\* ModelProvider.configure: the closure runs at once, or is kept.
Gets(p, a) ==
    \/ prov[p].state = "REALIZED" /\ Applies(p, a)
    \/ prov[p].state # "REALIZED" /\ Changes(p, [prov[p] EXCEPT !.actions = Append(@, a)])

\* The frame below the top stay, the top has one thing less to do.
Rest == [Top EXCEPT !.todo = Tail(@)]
Below == Len(stack) - 1

Continues ==
    /\ Adds(Below, Rest)
    /\ Len(stack) <= Len(stack') /\ stack'[Len(stack)] = Rest

Throws ==
    /\ stack' = <<>>
    /\ prov' \in Seq(ProviderRecords) /\ Len(prov') = Len(prov)
    /\ \A p \in Providers :
          prov'[p] = IF prov[p].state # "REALIZING" THEN prov[p]
                     ELSE [prov[p] EXCEPT !.state = "REGISTERED", !.applied = <<>>]
    /\ MadeGrows
    /\ UNCHANGED <<program, entries, future, onRemove, eager, locked, issued, observers, frozen>>

Starts(p) ==
    /\ prov[p].state = "REGISTERED"
    /\ Changes(p, [prov[p] EXCEPT !.state = "REALIZING", !.applied = <<>>])
    /\ Adds(Len(stack), Realizing(p))
    /\ UNCHANGED otherVars

Runs ==
    /\ On("realize") /\ Top.todo # <<>>
    /\ Applies(Top.p, Head(Top.todo))
    /\ Continues
    /\ UNCHANGED otherVars

Finishes ==
    /\ On("realize") /\ Top.todo = <<>> /\ Len(prov[Top.p].actions) = Top.size
    /\ Changes(Top.p, [prov[Top.p] EXCEPT !.state = "REALIZED"])
    /\ AddsNone(Below)
    /\ UNCHANGED otherVars

Configures(c, p) ==
    /\ p \in ToSet(entries[c])
    /\ Issue /\ Gets(p, Fresh)
    /\ AddsNone(Len(stack))
    /\ UNCHANGED <<program, made, entries, future, onRemove, eager, locked, observers, frozen>>

Visits ==
    /\ stack # <<>> /\ Top.kind \in Walks /\ Top.todo # <<>>
    /\ Gets(Head(Top.todo), Top.a)
    /\ Continues
    /\ UNCHANGED otherVars

RunsRemoval ==
    /\ On("removed") /\ Top.todo # <<>>
    /\ Applies(Top.p, Head(Top.todo))
    /\ Continues
    /\ UNCHANGED otherVars

Registers(c, p, own) ==
    /\ Callable("register") /\ ~locked[c]
    /\ p = Len(prov) + 1
    /\ IF own THEN Issue ELSE UNCHANGED issued
    /\ prov' \in Seq(ProviderRecords) /\ Len(prov') = p
    /\ \A q \in Providers : prov'[q] = prov[q]
    /\ prov'[p].home = c
    /\ \A i \in 1..Len(entries[c]) : prov[entries[c][i]].name # prov'[p].name
    /\ prov'[p].actions = (IF own THEN <<Fresh>> ELSE <<>>) \o future[c]
    /\ prov'[p].applied = <<>>
    /\ \/ prov'[p].state = "REGISTERED" /\ AddsNone(Len(stack))
       \/ prov'[p].state = "REALIZING"
          /\ Adds(Len(stack), [Frame("realize", p, c, 0, prov'[p].actions)
                                  EXCEPT !.size = Len(prov'[p].actions)])
    /\ entries' = [entries EXCEPT ![c] = Append(@, p)]
    /\ MadeGrows /\ c \in ToSet(made')
    /\ UNCHANGED <<program, future, onRemove, eager, locked, observers, frozen>>

StartsWalk(kind, c) ==
    /\ Issue
    /\ future' = IF kind = "all" THEN future ELSE [future EXCEPT ![c] = Append(@, Fresh)]
    /\ Adds(Len(stack), Frame(kind, 0, c, Fresh, entries[c]))
    /\ MadeGrows
    /\ UNCHANGED <<program, entries, prov, onRemove, eager, locked, observers, frozen>>

EndsWalk ==
    /\ stack # <<>> /\ Top.kind \in Walks /\ Top.todo = <<>>
    /\ observers' = [observers EXCEPT ![Top.c] = @ \cup {<<Top.kind, Top.a>>}]
    /\ future' = IF Top.kind = "all" THEN [future EXCEPT ![Top.c] = Append(@, Top.a)] ELSE future
    /\ eager' \in [Containers -> BOOLEAN]
    /\ AddsNone(Below)
    /\ UNCHANGED <<program, made, entries, prov, onRemove, locked, issued, frozen>>

TakesOut(c, i) ==
    /\ entries' = [entries EXCEPT ![c] = RemoveAt(@, i)]
    /\ \E n \in {Len(stack), Below} :
          /\ n = Below => On("clear")
          /\ \/ AddsNone(n)
             \/ /\ prov[entries[c][i]].state = "REALIZED"
                /\ Adds(n, [Frame("removed", entries[c][i], c, 0, onRemove[c]) EXCEPT !.size = Len(onRemove[c])])
    /\ MadeGrows
    /\ UNCHANGED <<program, prov, future, onRemove, eager, locked, issued, observers, frozen>>

Listens(c) ==
    /\ Issue
    /\ onRemove' = [onRemove EXCEPT ![c] = Append(@, Fresh)]
    /\ AddsNone(Len(stack))
    /\ MadeGrows
    /\ UNCHANGED <<program, entries, prov, future, eager, locked, observers, frozen>>

\* A return, a call of clear, a name that is gone, a container that is locked.
Turns ==
    /\ \E n \in {Len(stack), Below} :
          /\ n = Below => stack # <<>> /\ Top.kind \in Mute \cup {"removed"}
          /\ AddsNone(n)
    /\ locked' \in [Containers -> BOOLEAN] /\ \A c \in Containers : locked[c] => locked'[c]
    /\ MadeGrows
    /\ UNCHANGED <<program, entries, prov, future, onRemove, eager, issued, observers, frozen>>

FreezeStarts ==
    /\ Adds(Len(stack), [Frame("freeze", 0, AnyContainer, 0, <<>>) EXCEPT !.size = Len(made)])
    /\ UNCHANGED <<otherVars, prov>>

FreezeMoves ==
    /\ On("freeze") /\ Top.todo = <<>> /\ Top.at < Top.size /\ Len(made) = Top.size
    /\ Adds(Below, [Top EXCEPT !.at = @ + 1, !.todo = entries[made[Top.at + 1]]])
    /\ UNCHANGED <<otherVars, prov>>

FreezePasses ==
    /\ On("freeze") /\ Top.todo # <<>>
    /\ prov[Head(Top.todo)].state = "REALIZED"
    /\ Continues
    /\ UNCHANGED <<otherVars, prov>>

FreezeReturns ==
    /\ FreezeEnds
    /\ AddsNone(Below)

Step ==
    \/ Throws
    \/ \E p \in Providers : Starts(p)
    \/ Runs \/ Finishes \/ Visits \/ RunsRemoval \/ EndsWalk \/ Turns
    \/ FreezeStarts \/ FreezeMoves \/ FreezePasses \/ FreezeReturns
    \/ \E c \in Containers :
          \/ \E p \in Providers : Configures(c, p)
          \/ \E p \in Nat, own \in BOOLEAN : Registers(c, p, own)
          \/ \E kind \in Walks : StartsWalk(kind, c)
          \/ \E i \in 1..Len(entries[c]) : TakesOut(c, i)
          \/ Listens(c)

LEMMA AnyContainerIsOne == AnyContainer \in Containers
  BY BoundsAssumption DEF AnyContainer

LEMMA FrameIsFrame ==
    ASSUME NEW kind \in Walks \cup Mute \cup {"realize", "removed", "freeze"}, NEW p \in Nat,
           NEW c \in Containers, NEW a \in Nat, NEW todo \in Seq(Nat)
    PROVE  /\ Frame(kind, p, c, a, todo) \in Frames
           /\ [Frame(kind, p, c, a, todo) EXCEPT !.size = Len(todo)] \in Frames
  BY DEF Frame, Frames

LEMMA BodyIsFrame ==
    ASSUME NEW p \in Nat
    PROVE  Body(p) \in Frames /\ Body(p).kind = "body"
<1>1. <<>> \in Seq(Nat) /\ 0 \in Nat
  OBVIOUS
<1>2. "body" \in Walks \cup Mute \cup {"realize", "removed", "freeze"}
  BY DEF Mute
<1> QED BY <1>1, <1>2, AnyContainerIsOne, FrameIsFrame DEF Body, Frame

LEMMA TopIsFrame ==
    ASSUME stack \in Seq(Frames), stack # <<>>
    PROVE  /\ Top \in Frames /\ Top = stack[Len(stack)]
           /\ Len(stack) \in Nat \ {0} /\ Below \in 0..Len(stack)
           /\ Top.todo # <<>> => Rest \in Frames
<1>1. Len(stack) \in Nat \ {0} /\ Top \in Frames /\ Top = stack[Len(stack)]
  BY FrontProperties DEF Top, Last
<1>2. Top.todo # <<>> => Tail(Top.todo) \in Seq(Nat)
  BY <1>1 DEF Frames
<1>3. Top.todo # <<>> => Rest \in Frames
  BY <1>1, <1>2 DEF Frames, Rest
<1> QED BY <1>1, <1>3 DEF Below

LEMMA Pushes ==
    ASSUME stack \in Seq(Frames), NEW f \in Frames, stack' = Append(stack, f)
    PROVE  /\ Adds(Len(stack), f)
           /\ f.kind \in Mute => AddsNone(Len(stack))
<1>1. /\ stack' \in Seq(Frames) /\ Len(stack') = Len(stack) + 1 /\ Len(stack) \in Nat
      /\ \A i \in 1..Len(stack) : stack'[i] = stack[i]
      /\ stack'[Len(stack) + 1] = f
  OBVIOUS
<1> QED BY <1>1 DEF Adds, AddsNone

LEMMA Stays ==
    ASSUME stack \in Seq(Frames), stack' = stack
    PROVE  AddsNone(Len(stack))
  BY DEF AddsNone

LEMMA Pops ==
    ASSUME stack \in Seq(Frames), stack # <<>>, stack' = Pop
    PROVE  AddsNone(Below)
<1>1. /\ stack' \in Seq(Frames) /\ Len(stack') = Len(stack) - 1 /\ Len(stack) \in Nat \ {0}
      /\ \A i \in 1..Len(stack) - 1 : stack'[i] = stack[i]
  BY FrontProperties DEF Pop
<1> QED BY <1>1 DEF AddsNone, Below

LEMMA Replaces ==
    ASSUME stack \in Seq(Frames), stack # <<>>, NEW f \in Frames, stack' = Replace(f)
    PROVE  /\ Adds(Below, f) /\ Len(stack) <= Len(stack') /\ stack'[Len(stack)] = f
           /\ f.kind \in Mute => AddsNone(Below)
<1>1. /\ Pop \in Seq(Frames) /\ Len(Pop) = Len(stack) - 1 /\ Len(stack) \in Nat \ {0}
      /\ \A i \in 1..Len(stack) - 1 : Pop[i] = stack[i]
  BY FrontProperties DEF Pop
<1>2. /\ stack' \in Seq(Frames) /\ Len(stack') = Len(stack)
      /\ \A i \in 1..Len(stack) - 1 : stack'[i] = stack[i]
      /\ stack'[Len(stack)] = f
  BY <1>1 DEF Replace
<1> QED BY <1>1, <1>2 DEF Adds, AddsNone, Below

LEMMA ReplacesAndPushes ==
    ASSUME stack \in Seq(Frames), stack # <<>>, NEW f \in Frames, NEW g \in Frames,
           stack' = Append(Replace(f), g)
    PROVE  /\ Len(stack) <= Len(stack') /\ stack'[Len(stack)] = f
           /\ g.kind \in Mute => Adds(Below, f)
           /\ f.kind \in Mute => Adds(Below, g)
<1>1. /\ Pop \in Seq(Frames) /\ Len(Pop) = Len(stack) - 1 /\ Len(stack) \in Nat \ {0}
      /\ \A i \in 1..Len(stack) - 1 : Pop[i] = stack[i]
  BY FrontProperties DEF Pop
<1>2. /\ stack' \in Seq(Frames) /\ Len(stack') = Len(stack) + 1
      /\ \A i \in 1..Len(stack) - 1 : stack'[i] = stack[i]
      /\ stack'[Len(stack)] = f
      /\ stack'[Len(stack) + 1] = g
  <2> DEFINE r == Replace(f)
  <2>1. /\ r \in Seq(Frames) /\ Len(r) = Len(stack)
        /\ \A i \in 1..Len(stack) - 1 : r[i] = stack[i]
        /\ r[Len(stack)] = f
    BY <1>1 DEF Replace
  <2>2. stack' = Append(r, g)
    OBVIOUS
  <2> HIDE DEF r
  <2> QED BY <1>1, <2>1, <2>2
<1>3. \A i \in Below + 1..Len(stack') : i = Len(stack) \/ i = Len(stack) + 1
  BY <1>1, <1>2 DEF Below
<1>4. {Len(stack), Len(stack) + 1} \subseteq Below + 1..Len(stack') /\ Below \in 0..Len(stack) /\ Below <= Len(stack')
  BY <1>1, <1>2 DEF Below
<1>5. \A i \in 1..Below : stack'[i] = stack[i]
  BY <1>1, <1>2 DEF Below
<1>6. ASSUME g.kind \in Mute PROVE Adds(Below, f)
  BY <1>2, <1>3, <1>4, <1>5, <1>6 DEF Adds
<1>7. ASSUME f.kind \in Mute PROVE Adds(Below, g)
  BY <1>2, <1>3, <1>4, <1>5, <1>7 DEF Adds
<1> QED BY <1>1, <1>2, <1>6, <1>7

(***************************************************************************)
(* The changes of a provider                                               *)
(***************************************************************************)

LEMMA RecordsChange ==
    ASSUME prov \in Seq(ProviderRecords), NEW p \in Providers
    PROVE  /\ prov[p] \in ProviderRecords
           /\ [prov[p] EXCEPT !.state = "REALIZING", !.applied = <<>>] \in ProviderRecords
           /\ [prov[p] EXCEPT !.state = "REGISTERED", !.applied = <<>>] \in ProviderRecords
           /\ [prov[p] EXCEPT !.state = "REALIZED"] \in ProviderRecords
           /\ \A a \in Actions :
                 /\ [prov[p] EXCEPT !.applied = Append(@, a)] \in ProviderRecords
                 /\ [prov[p] EXCEPT !.actions = Append(@, a)] \in ProviderRecords
<1>1. prov[p] \in ProviderRecords
  BY DEF Providers
<1>2. \A a \in Actions :
         Append(prov[p].applied, a) \in Seq(Actions) /\ Append(prov[p].actions, a) \in Seq(Actions)
  BY <1>1 DEF ProviderRecords
<1>3. <<>> \in Seq(Actions) /\ {"REGISTERED", "REALIZING", "REALIZED"} \subseteq States
  BY DEF States
<1> QED BY <1>1, <1>2, <1>3 DEF ProviderRecords

LEMMA ProviderChanges ==
    ASSUME prov \in Seq(ProviderRecords), NEW p \in Providers, NEW r \in ProviderRecords,
           prov' = [prov EXCEPT ![p] = r]
    PROVE  Changes(p, r)
<1>1. p \in 1..Len(prov) /\ DOMAIN prov = 1..Len(prov)
  BY DEF Providers
<1>2. prov' \in Seq(ProviderRecords) /\ Len(prov') = Len(prov)
  BY <1>1, ExceptSeq
<1>3. prov'[p] = r /\ \A q \in Providers : q # p => prov'[q] = prov[q]
  BY <1>1 DEF Providers
<1> QED BY <1>2, <1>3 DEF Changes

LEMMA StartChanges ==
    ASSUME prov \in Seq(ProviderRecords), NEW p \in Providers,
           prov' = [prov EXCEPT ![p].state = "REALIZING", ![p].applied = <<>>]
    PROVE  Changes(p, [prov[p] EXCEPT !.state = "REALIZING", !.applied = <<>>])
<1>1. p \in DOMAIN prov
  BY DEF Providers
<1>2. prov' = [prov EXCEPT ![p] = [prov[p] EXCEPT !.state = "REALIZING", !.applied = <<>>]]
  BY <1>1
<1> QED BY <1>2, RecordsChange, ProviderChanges

LEMMA FinishChanges ==
    ASSUME prov \in Seq(ProviderRecords), NEW p \in Providers,
           prov' = [prov EXCEPT ![p].state = "REALIZED"]
    PROVE  Changes(p, [prov[p] EXCEPT !.state = "REALIZED"])
<1>1. p \in DOMAIN prov
  BY DEF Providers
<1>2. prov' = [prov EXCEPT ![p] = [prov[p] EXCEPT !.state = "REALIZED"]]
  BY <1>1
<1> QED BY <1>2, RecordsChange, ProviderChanges

LEMMA ApplyChanges ==
    ASSUME prov \in Seq(ProviderRecords), NEW p \in Providers, NEW a \in Actions,
           prov' = [prov EXCEPT ![p].applied = Append(@, a)]
    PROVE  Applies(p, a)
<1>1. p \in DOMAIN prov
  BY DEF Providers
<1>2. prov' = [prov EXCEPT ![p] = [prov[p] EXCEPT !.applied = Append(@, a)]]
  BY <1>1
<1> QED BY <1>2, RecordsChange, ProviderChanges DEF Applies

LEMMA AttachChanges ==
    ASSUME prov \in Seq(ProviderRecords), NEW p \in Providers, NEW a \in Actions,
           prov' = [prov EXCEPT ![p].actions = Append(@, a)]
    PROVE  Changes(p, [prov[p] EXCEPT !.actions = Append(@, a)])
<1>1. p \in DOMAIN prov
  BY DEF Providers
<1>2. prov' = [prov EXCEPT ![p] = [prov[p] EXCEPT !.actions = Append(@, a)]]
  BY <1>1
<1> QED BY <1>2, RecordsChange, ProviderChanges

LEMMA ConfigureGets ==
    ASSUME prov \in Seq(ProviderRecords), NEW p \in Providers, NEW a \in Actions, NEW below,
           ConfigureProvider(p, a, below)
    PROVE  /\ Gets(p, a)
           /\ stack' = below \/ stack' = Append(below, Body(p))
<1>1. CASE prov[p].state = "REALIZED"
  BY <1>1, ApplyChanges DEF ConfigureProvider, RunNow, Gets
<1>2. CASE prov[p].state # "REALIZED"
  BY <1>2, AttachChanges DEF ConfigureProvider, Attach, Gets
<1> QED BY <1>1, <1>2

LEMMA EntityGrows ==
    ASSUME TypeOK, NEW c \in Containers, Entity(c)
    PROVE  MadeGrows /\ c \in ToSet(made')
<1>1. made \in Seq(Containers) /\ IsInjective(made)
  BY DEF TypeOK
<1>2. CASE c \in ToSet(made)
  BY <1>1, <1>2 DEF Entity, MadeGrows
<1>3. CASE c \notin ToSet(made)
  <2>1. made' = Append(made, c)
    BY <1>3 DEF Entity
  <2>2. ToSet(made') = ToSet(made) \cup {c} /\ IsInjective(made')
    BY <2>1, <1>1, <1>3, AppendKeeps
  <2>3. /\ made' \in Seq(Containers) /\ Len(made) <= Len(made')
        /\ \A i \in 1..Len(made) : made'[i] = made[i]
    BY <2>1, <1>1
  <2> QED BY <2>2, <2>3 DEF MadeGrows
<1> QED BY <1>2, <1>3

LEMMA MadeStays ==
    ASSUME TypeOK, UNCHANGED made
    PROVE  MadeGrows
  BY DEF TypeOK, MadeGrows

(***************************************************************************)
(* Every action is one of the steps.                                       *)
(***************************************************************************)

LEMMA TypedParts ==
    ASSUME Typed
    PROVE  /\ prov \in Seq(ProviderRecords) /\ stack \in Seq(Frames)
           /\ Len(prov) \in Nat /\ Len(stack) \in Nat
           /\ made \in Seq(Containers) /\ IsInjective(made)
           /\ entries \in [Containers -> Seq(Providers)]
           /\ future \in [Containers -> Seq(Actions)]
           /\ onRemove \in [Containers -> Seq(Actions)]
           /\ issued \in 0..MaxActions /\ issued \in Nat /\ MaxActions \in Nat
           /\ \A c \in Containers : ToSet(entries[c]) \subseteq Providers
  BY BoundsAssumption DEF Typed, TypeOK, ProviderRecords, ToSet

LEMMA UnwindThrows ==
    ASSUME Typed, Unwind, MadeGrows,
           UNCHANGED <<program, entries, future, onRemove, eager, locked, issued, observers, frozen>>
    PROVE  Step
<1> DEFINE u == [p \in Providers |->
                    IF prov[p].state # "REALIZING" THEN prov[p]
                    ELSE [prov[p] EXCEPT !.state = "REGISTERED", !.applied = <<>>]]
<1>1. prov' = u /\ stack' = <<>>
  BY DEF Unwind
<1>2. \A p \in Providers : u[p] \in ProviderRecords
  BY TypedParts, RecordsChange DEF Providers
<1>3. u \in Seq(ProviderRecords) /\ Len(u) = Len(prov)
  <2>1. Len(prov) \in Nat /\ u \in [1..Len(prov) -> ProviderRecords]
    BY <1>2, TypedParts DEF Providers
  <2> HIDE DEF u
  <2>2. u \in Seq(ProviderRecords)
    BY <2>1, SeqDef
  <2>3. DOMAIN u = 1..Len(u) /\ Len(u) \in Nat
    BY <2>2
  <2> QED BY <2>1, <2>2, <2>3
<1>4. \A p \in Providers : prov'[p] = IF prov[p].state # "REALIZING" THEN prov[p]
                     ELSE [prov[p] EXCEPT !.state = "REGISTERED", !.applied = <<>>]
  BY <1>1
<1> HIDE DEF u
<1>5. Throws
  BY <1>1, <1>3, <1>4 DEF Throws
<1> QED BY <1>5 DEF Step

LEMMA NumbersAreNat ==
    ASSUME Typed
    PROVE  Seq(Actions) \subseteq Seq(Nat) /\ Seq(Providers) \subseteq Seq(Nat)
<1>1. Actions \subseteq Nat /\ Providers \subseteq Nat
  BY DEF Actions, Providers
<1> QED BY <1>1, SeqMonotonic

LEMMA TopTyped ==
    ASSUME Typed, stack # <<>>
    PROVE  /\ Top \in Frames /\ Top = stack[Len(stack)] /\ Len(stack) \in Nat \ {0}
           /\ Below \in 0..Len(stack)
           /\ FrameTyped(Top, Len(prov), issued)
           /\ Top.todo # <<>> => Rest \in Frames
           /\ Top.todo # <<>> => Head(Top.todo) = Top.todo[1] /\ 1 \in 1..Len(Top.todo)
<1>1. stack \in Seq(Frames) /\ \A i \in 1..Len(stack) : FrameTyped(stack[i], Len(prov), issued)
  BY DEF Typed
<1>2. Top \in Frames /\ Top = stack[Len(stack)] /\ Len(stack) \in Nat \ {0}
      /\ Below \in 0..Len(stack) /\ (Top.todo # <<>> => Rest \in Frames)
  BY <1>1, TopIsFrame
<1>3. FrameTyped(Top, Len(prov), issued)
  BY <1>1, <1>2
<1>4. Top.todo \in Seq(Nat)
  BY <1>2 DEF Frames
<1>5. Top.todo # <<>> => Head(Top.todo) = Top.todo[1] /\ 1 \in 1..Len(Top.todo)
  BY <1>4
<1> QED BY <1>2, <1>3, <1>5

LEMMA RealizingIsFrame ==
    ASSUME Typed, NEW p \in Providers
    PROVE  Realizing(p) \in Frames
<1>1. prov[p] \in ProviderRecords /\ p \in Nat
  BY TypedParts DEF Providers
<1>2. prov[p].home \in Containers /\ prov[p].actions \in Seq(Nat)
  BY <1>1, NumbersAreNat DEF ProviderRecords
<1>3. 0 \in Nat /\ "realize" \in Walks \cup Mute \cup {"realize", "removed", "freeze"}
  OBVIOUS
<1> QED BY <1>1, <1>2, <1>3, FrameIsFrame DEF Realizing

LEMMA StartRealizeStarts ==
    ASSUME Typed, NEW p \in Providers, StartRealize(p), UNCHANGED otherVars
    PROVE  Starts(p)
<1>1. Changes(p, [prov[p] EXCEPT !.state = "REALIZING", !.applied = <<>>])
  BY TypedParts, StartChanges DEF StartRealize
<1>2. Adds(Len(stack), Realizing(p))
  BY TypedParts, RealizingIsFrame, Pushes DEF StartRealize, Push
<1> QED BY <1>1, <1>2 DEF Starts, StartRealize

LEMMA NamedExist ==
    ASSUME Typed, NEW c \in Containers, NEW n
    PROVE  Named(c, n) \subseteq ToSet(entries[c]) /\ ToSet(entries[c]) \subseteq Providers
  BY TypedParts DEF Named

LEMMA GetSteps ==
    ASSUME Typed, NEW c \in Containers, NEW n \in Names, Get(c, n)
    PROVE  Step
<1>1. PICK p \in Named(c, n) : StartRealize(p) \/ Cyclic(p)
  BY DEF Get
<1>2. p \in Providers /\ UNCHANGED otherVars
  BY NamedExist DEF Get
<1>3. CASE StartRealize(p)
  BY <1>2, <1>3, StartRealizeStarts DEF Step
<1>4. CASE Cyclic(p)
  <2>1. MadeGrows
    BY <1>2, MadeStays DEF Typed, otherVars
  <2> QED BY <1>2, <1>4, <2>1, UnwindThrows DEF Cyclic, otherVars
<1> QED BY <1>1, <1>3, <1>4

LEMMA RunNextSteps ==
    ASSUME Typed, RunNext
    PROVE  Step
<1>1. stack # <<>> /\ Top.kind = "realize" /\ Top.todo # <<>>
  BY DEF RunNext, On
<1>2. Top.p \in Providers /\ Head(Top.todo) \in Actions
  BY <1>1, TopTyped DEF FrameTyped, Providers
<1>3. Applies(Top.p, Head(Top.todo))
  BY <1>2, TypedParts, ApplyChanges DEF RunNext
<1>4. Rest \in Frames /\ Body(Top.p) \in Frames /\ Body(Top.p).kind \in Mute
  BY <1>1, <1>2, TopTyped, BodyIsFrame DEF Mute, Providers
<1>5. Continues
  BY <1>1, <1>4, TypedParts, ReplacesAndPushes DEF Continues, RunNext, Rest
<1>6. Runs
  BY <1>3, <1>5 DEF Runs, RunNext
<1> QED BY <1>6 DEF Step

LEMMA RealizeEndsSteps ==
    ASSUME Typed, RealizeEnds
    PROVE  Step
<1>1. stack # <<>> /\ Top.kind = "realize" /\ UNCHANGED otherVars
  BY DEF RealizeEnds, On
<1>2. Top.p \in Providers
  BY <1>1, TopTyped DEF FrameTyped, Providers
<1>3. CASE prov' = [prov EXCEPT ![Top.p].state = "REALIZED"] /\ stack' = Pop
  <2>1. Changes(Top.p, [prov[Top.p] EXCEPT !.state = "REALIZED"])
    BY <1>2, <1>3, TypedParts, FinishChanges
  <2>2. AddsNone(Below)
    BY <1>1, <1>3, TypedParts, Pops
  <2>3. Finishes
    BY <2>1, <2>2 DEF Finishes, RealizeEnds
  <2> QED BY <2>3 DEF Step
<1>4. CASE Unwind
  <2>1. MadeGrows
    BY <1>1, MadeStays DEF Typed, otherVars
  <2> QED BY <1>1, <1>4, <2>1, UnwindThrows DEF otherVars
<1> QED BY <1>3, <1>4 DEF RealizeEnds

\* A step that throws and makes no container.
LEMMA PlainUnwindThrows ==
    ASSUME Typed, Unwind, UNCHANGED otherVars
    PROVE  Step
<1>1. MadeGrows
  BY MadeStays DEF Typed, otherVars
<1> QED BY <1>1, UnwindThrows DEF otherVars

\* A return that changes nothing.
LEMMA PlainPopTurns ==
    ASSUME Typed, stack # <<>>, Top.kind \in Mute \cup {"removed"}, stack' = Pop, UNCHANGED <<otherVars, prov>>
    PROVE  Step
<1>1. MadeGrows
  BY MadeStays DEF Typed, otherVars
<1>2. AddsNone(Below)
  BY TypedParts, Pops
<1>3. locked' \in [Containers -> BOOLEAN] /\ \A c \in Containers : locked[c] => locked'[c]
  BY DEF Typed, TypeOK, otherVars
<1>4. Turns
  BY <1>1, <1>2, <1>3 DEF Turns, otherVars
<1> QED BY <1>4 DEF Step

LEMMA IssueIsAction ==
    ASSUME Typed, Issue
    PROVE  Fresh \in Actions /\ Fresh = issued + 1 /\ issued' = issued + 1 /\ Fresh \in Nat
  BY TypedParts DEF Issue, Fresh, Actions

LEMMA ConfigureSteps ==
    ASSUME Typed, NEW c \in Containers, NEW n \in Names, Configure(c, n)
    PROVE  Step
<1>1. PICK p \in Named(c, n) : ConfigureProvider(p, Fresh, stack)
  BY DEF Configure
<1>2. p \in ToSet(entries[c]) /\ p \in Providers /\ Issue /\ Fresh \in Actions
  BY NamedExist, IssueIsAction DEF Configure
<1>3. Gets(p, Fresh) /\ (stack' = stack \/ stack' = Append(stack, Body(p)))
  BY <1>1, <1>2, TypedParts, ConfigureGets
<1>4. Body(p) \in Frames /\ Body(p).kind \in Mute
  BY <1>2, BodyIsFrame DEF Mute, Providers
<1>5. AddsNone(Len(stack))
  BY <1>3, <1>4, TypedParts, Stays, Pushes
<1>6. Configures(c, p)
  BY <1>2, <1>3, <1>5 DEF Configures, Configure
<1> QED BY <1>2, <1>6 DEF Step

LEMMA BodyEndsSteps ==
    ASSUME Typed, BodyEnds
    PROVE  Step
<1>1. stack # <<>> /\ Top.kind \in Mute
  BY DEF BodyEnds, On, Mute
<1> QED BY <1>1, PlainPopTurns, PlainUnwindThrows DEF BodyEnds

LEMMA RegisterSteps ==
    ASSUME Typed, NEW c \in Containers, NEW n \in Names, NEW own \in BOOLEAN, NEW now \in BOOLEAN,
           Register(c, n, own, now)
    PROVE  Step
<1> DEFINE p == Len(prov) + 1
           actions == (IF own THEN <<Fresh>> ELSE <<>>) \o future[c]
           realize == eager[c] \/ now
           r == [home |-> c, name |-> n, actions |-> actions,
                 state |-> IF realize THEN "REALIZING" ELSE "REGISTERED", applied |-> <<>>]
           f == [Frame("realize", p, c, 0, actions) EXCEPT !.size = Len(actions)]
<1>1. /\ Callable("register") /\ ~locked[c] /\ Named(c, n) = {}
      /\ IF own THEN Issue ELSE UNCHANGED issued
      /\ prov' = Append(prov, r)
      /\ entries' = [entries EXCEPT ![c] = Append(@, p)]
      /\ IF realize THEN Push(f) ELSE UNCHANGED stack
      /\ Entity(c)
      /\ UNCHANGED <<program, future, onRemove, eager, locked, observers, frozen>>
  BY DEF Register
<1>2. actions \in Seq(Actions)
  <2>1. own => Fresh \in Actions
    BY <1>1, IssueIsAction
  <2>2. (IF own THEN <<Fresh>> ELSE <<>>) \in Seq(Actions)
    BY <2>1
  <2>3. future[c] \in Seq(Actions)
    BY TypedParts
  <2> QED BY <2>2, <2>3, ConcatProperties
<1> HIDE DEF actions
<1>3. r \in ProviderRecords
  BY <1>2 DEF ProviderRecords, States
<1>4. /\ prov' \in Seq(ProviderRecords) /\ Len(prov') = p /\ p \in Nat
      /\ \A q \in Providers : prov'[q] = prov[q]
      /\ prov'[p] = r
  <2> HIDE DEF r
  <2> QED BY <1>1, <1>3, TypedParts DEF Providers
<1>5. f \in Frames
  <2>1. actions \in Seq(Nat) /\ 0 \in Nat
    BY <1>2, NumbersAreNat
  <2>2. "realize" \in Walks \cup Mute \cup {"realize", "removed", "freeze"}
    OBVIOUS
  <2> QED BY <2>1, <2>2, <1>4, FrameIsFrame
<1>6. MadeGrows /\ c \in ToSet(made')
  BY <1>1, EntityGrows DEF Typed
<1>7. \A i \in 1..Len(entries[c]) : prov[entries[c][i]].name # prov'[p].name
  <2>1. prov'[p].name = n
    BY <1>4
  <2>2. \A i \in 1..Len(entries[c]) : entries[c][i] \in ToSet(entries[c])
    BY TypedParts DEF ToSet
  <2> QED BY <2>1, <2>2, <1>1 DEF Named
<1>8. \/ prov'[p].state = "REGISTERED" /\ AddsNone(Len(stack))
      \/ prov'[p].state = "REALIZING" /\ Adds(Len(stack), f)
  <2>1. CASE realize
    <3>1. prov'[p].state = "REALIZING"
      BY <2>1, <1>4
    <3>2. stack' = Append(stack, f)
      BY <2>1, <1>1 DEF Push
    <3> HIDE DEF f
    <3> QED BY <3>1, <3>2, <1>5, TypedParts, Pushes
  <2>2. CASE ~realize
    <3>1. prov'[p].state = "REGISTERED"
      BY <2>2, <1>4
    <3> QED BY <2>2, <3>1, <1>1, TypedParts, Stays
  <2> QED BY <2>1, <2>2
<1>9. prov'[p].home = c /\ prov'[p].actions = actions /\ prov'[p].applied = <<>>
  BY <1>4
<1>10. Registers(c, p, own)
  <2> HIDE DEF r, p
  <2> QED BY <1>1, <1>4, <1>6, <1>7, <1>8, <1>9 DEF Registers, actions, p
<1> QED BY <1>4, <1>10 DEF Step

LEMMA RefusedSteps ==
    ASSUME Typed, NEW c \in Containers, NEW n \in Names, RegisterRefused(c, n)
    PROVE  Step
<1>1. MadeGrows
  BY EntityGrows DEF Typed, RegisterRefused
<1> QED BY <1>1, UnwindThrows DEF RegisterRefused

LEMMA WalkStartSteps ==
    ASSUME Typed, NEW c \in Containers, ConfigureEach(c) \/ All(c)
    PROVE  Step
<1> DEFINE F(kind) == Frame(kind, 0, c, Fresh, entries[c])
<1>1. Issue /\ Fresh \in Nat /\ MadeGrows
  BY EntityGrows, IssueIsAction DEF Typed, ConfigureEach, All
<1>2. entries[c] \in Seq(Nat) /\ 0 \in Nat
  BY TypedParts, NumbersAreNat
<1>3. ASSUME NEW kind \in Walks PROVE F(kind) \in Frames
  BY <1>1, <1>2, FrameIsFrame
<1>4. {"configureEach", "all"} = Walks
  BY DEF Walks
<1>5. CASE ConfigureEach(c)
  <2>1. StartsWalk("configureEach", c)
    BY <1>1, <1>3, <1>4, <1>5, TypedParts, Pushes DEF ConfigureEach, StartsWalk, Push
  <2> QED BY <2>1, <1>4 DEF Step
<1>6. CASE All(c)
  <2>1. StartsWalk("all", c)
    BY <1>1, <1>3, <1>4, <1>6, TypedParts, Pushes DEF All, StartsWalk, Push
  <2> QED BY <2>1, <1>4 DEF Step
<1> QED BY <1>5, <1>6

LEMMA WalkSteps ==
    ASSUME Typed, EachNext \/ AllNext
    PROVE  Step
<1> DEFINE p == Head(Top.todo)
<1>1. stack # <<>> /\ Top.kind \in Walks /\ Top.todo # <<>> /\ UNCHANGED otherVars
  BY DEF EachNext, AllNext, On, Walks
<1>2. p \in Providers /\ Top.a \in Actions /\ Rest \in Frames
  BY <1>1, TopTyped, TypedParts DEF FrameTyped, Actions, Providers
<1>3. Body(p) \in Frames /\ Body(p).kind \in Mute
  BY <1>2, BodyIsFrame DEF Mute, Providers
<1> HIDE DEF p
<1>4. ASSUME ConfigureProvider(p, Top.a, Replace(Rest)) PROVE Step
  <2>1. Gets(p, Top.a) /\ (stack' = Replace(Rest) \/ stack' = Append(Replace(Rest), Body(p)))
    BY <1>2, <1>4, TypedParts, ConfigureGets
  <2>2. Continues
    BY <2>1, <1>1, <1>2, <1>3, TypedParts, Replaces, ReplacesAndPushes DEF Continues
  <2>3. Visits
    BY <2>1, <2>2, <1>1 DEF Visits, p
  <2> QED BY <2>3 DEF Step
<1>5. CASE EachNext
  BY <1>4, <1>5 DEF EachNext, p, Rest
<1>6. CASE AllNext
  <2>1. CASE StartRealize(p)
    BY <2>1, <1>1, <1>2, StartRealizeStarts DEF Step
  <2>2. CASE Cyclic(p)
    BY <2>2, <1>1, PlainUnwindThrows DEF Cyclic
  <2>3. CASE prov[p].state = "REALIZED" /\ RunNow(p, Top.a, Replace(Rest))
    BY <2>3, <1>4 DEF ConfigureProvider
  <2> QED BY <1>6, <2>1, <2>2, <2>3 DEF AllNext, p, Rest
<1> QED BY <1>5, <1>6

LEMMA WalkEndSteps ==
    ASSUME Typed, EachEnds \/ AllEnds
    PROVE  Step
<1>1. stack # <<>> /\ Top.kind \in Walks /\ Top.todo = <<>> /\ stack' = Pop
  BY DEF EachEnds, AllEnds, On, Walks
<1>2. AddsNone(Below)
  BY <1>1, TypedParts, Pops
<1>3. eager \in [Containers -> BOOLEAN]
  BY DEF Typed, TypeOK
<1>4. EndsWalk
  <2>1. CASE EachEnds
    BY <2>1, <1>1, <1>2, <1>3 DEF EachEnds, EndsWalk, On
  <2>2. CASE AllEnds
    BY <2>2, <1>1, <1>2, <1>3 DEF AllEnds, EndsWalk, On
  <2> QED BY <2>1, <2>2
<1> QED BY <1>4 DEF Step

\* An object is taken out by remove, or by clear, which goes on with `rest'.
LEMMA TakeOutSteps ==
    ASSUME Typed, NEW c \in Containers, NEW name, NEW below, TakeOut(c, name, below), MadeGrows,
           UNCHANGED <<program, prov, future, onRemove, eager, locked, issued, observers, frozen>>,
           \/ below = stack
           \/ On("clear") /\ \E g \in Frames : g.kind \in Mute /\ below = Replace(g)
    PROVE  Step
<1>1. PICK i \in DOMAIN entries[c] :
         LET p == entries[c][i]
         IN  /\ entries' = [entries EXCEPT ![c] = RemoveAt(@, i)]
             /\ IF prov[p].state = "REALIZED" THEN Removing(c, p, below) ELSE stack' = below
  BY DEF TakeOut
<1> DEFINE p == entries[c][i]
           f == [Frame("removed", p, c, 0, onRemove[c]) EXCEPT !.size = Len(onRemove[c])]
<1>2. i \in 1..Len(entries[c]) /\ p \in Providers
  BY TypedParts
<1>3. f \in Frames
  <2>1. onRemove[c] \in Seq(Nat) /\ 0 \in Nat /\ p \in Nat
    BY <1>2, TypedParts, NumbersAreNat DEF Providers
  <2>2. "removed" \in Walks \cup Mute \cup {"realize", "removed", "freeze"}
    OBVIOUS
  <2> QED BY <2>1, <2>2, FrameIsFrame
<1> HIDE DEF f
<1>4. \/ stack' = below
      \/ prov[p].state = "REALIZED" /\ stack' = Append(below, f)
  BY <1>1 DEF Removing, f
<1>5. CASE below = stack
  <2>1. \/ AddsNone(Len(stack))
        \/ prov[p].state = "REALIZED" /\ Adds(Len(stack), f)
    BY <1>3, <1>4, <1>5, TypedParts, Stays, Pushes
  <2>2. TakesOut(c, i)
    <3>1. Len(stack) = Below => FALSE
      BY TypedParts DEF Below
    <3> QED BY <1>1, <2>1, <3>1 DEF TakesOut, f
  <2> QED BY <1>2, <2>2 DEF Step
<1>6. CASE On("clear") /\ \E g \in Frames : g.kind \in Mute /\ below = Replace(g)
  <2>1. PICK g \in Frames : g.kind \in Mute /\ below = Replace(g)
    BY <1>6
  <2>2. stack # <<>>
    BY <1>6 DEF On
  <2>3. \/ AddsNone(Below)
        \/ prov[p].state = "REALIZED" /\ Adds(Below, f)
    BY <1>3, <1>4, <2>1, <2>2, TypedParts, Replaces, ReplacesAndPushes
  <2>4. TakesOut(c, i)
    BY <1>1, <1>6, <2>3 DEF TakesOut, f
  <2> QED BY <1>2, <2>4 DEF Step
<1> QED BY <1>5, <1>6

LEMMA RemoveSteps ==
    ASSUME Typed, NEW c \in Containers, NEW n \in Names, RemoveNamed(c, n)
    PROVE  Step
<1>1. MadeGrows
  BY EntityGrows DEF Typed, RemoveNamed
<1> QED BY <1>1, TakeOutSteps DEF RemoveNamed

LEMMA RemovedSteps ==
    ASSUME Typed, RemovedNext \/ RemovedInterrupted \/ RemovedEnds
    PROVE  Step
<1>1. CASE RemovedNext
  <2>1. stack # <<>> /\ Top.kind = "removed" /\ Top.todo # <<>>
    BY <1>1 DEF RemovedNext, On
  <2>2. Top.p \in Providers /\ Head(Top.todo) \in Actions
    BY <2>1, TopTyped DEF FrameTyped, Providers
  <2>3. Applies(Top.p, Head(Top.todo))
    BY <1>1, <2>2, TypedParts, ApplyChanges DEF RemovedNext, RunNow
  <2>4. Rest \in Frames /\ Body(Top.p) \in Frames /\ Body(Top.p).kind \in Mute
    BY <2>1, <2>2, TopTyped, BodyIsFrame DEF Mute, Providers
  <2>5. Continues
    BY <1>1, <2>1, <2>4, TypedParts, ReplacesAndPushes DEF Continues, RemovedNext, RunNow, Rest
  <2>6. RunsRemoval
    BY <1>1, <2>3, <2>5 DEF RunsRemoval, RemovedNext
  <2> QED BY <2>6 DEF Step
<1>2. CASE RemovedInterrupted
  BY <1>2, PlainUnwindThrows DEF RemovedInterrupted
<1>3. CASE RemovedEnds
  BY <1>3, PlainPopTurns DEF RemovedEnds, On
<1> QED BY <1>1, <1>2, <1>3

LEMMA ListenSteps ==
    ASSUME Typed, NEW c \in Containers, WhenObjectRemoved(c) \/ DisallowChanges(c)
    PROVE  Step
<1>1. MadeGrows /\ stack' = stack
  BY EntityGrows DEF Typed, WhenObjectRemoved, DisallowChanges
<1>2. AddsNone(Len(stack))
  BY <1>1, TypedParts, Stays
<1>3. CASE WhenObjectRemoved(c)
  <2>1. Listens(c)
    BY <1>1, <1>2, <1>3 DEF WhenObjectRemoved, Listens
  <2> QED BY <2>1 DEF Step
<1>4. CASE DisallowChanges(c)
  <2>1. locked' \in [Containers -> BOOLEAN] /\ \A d \in Containers : locked[d] => locked'[d]
    BY <1>4 DEF DisallowChanges, Typed, TypeOK
  <2>2. Len(stack) # Below
    BY TypedParts DEF Below
  <2>3. Turns
    BY <1>1, <1>2, <1>4, <2>1, <2>2 DEF DisallowChanges, Turns
  <2> QED BY <2>3 DEF Step
<1> QED BY <1>3, <1>4

LEMMA ClearSteps ==
    ASSUME Typed, NEW c \in Containers, Clear(c)
    PROVE  Step
<1> DEFINE f == Frame("clear", 0, c, 0, entries[c])
<1>1. MadeGrows
  BY EntityGrows DEF Typed, Clear
<1>2. f \in Frames /\ f.kind \in Mute
  <2>1. entries[c] \in Seq(Nat) /\ 0 \in Nat
    BY TypedParts, NumbersAreNat
  <2>2. "clear" \in Mute
    BY DEF Mute
  <2>3. f \in Frames
    BY <2>1, <2>2, FrameIsFrame
  <2> QED BY <2>2, <2>3 DEF Frame
<1> HIDE DEF f
<1>3. AddsNone(Len(stack))
  BY <1>2, TypedParts, Pushes DEF Clear, Push, f
<1>4. locked' \in [Containers -> BOOLEAN] /\ \A d \in Containers : locked[d] => locked'[d]
  BY DEF Clear, Typed, TypeOK
<1>5. Len(stack) # Below
  BY TypedParts DEF Below
<1>6. Turns
  BY <1>1, <1>3, <1>4, <1>5 DEF Clear, Turns
<1> QED BY <1>6 DEF Step

LEMMA ClearNextSteps ==
    ASSUME Typed, ClearNext \/ ClearEnds
    PROVE  Step
<1>1. On("clear") /\ stack # <<>> /\ Top.kind \in Mute
  BY DEF ClearNext, ClearEnds, On, Mute
<1>2. CASE ClearEnds
  BY <1>1, <1>2, PlainPopTurns DEF ClearEnds
<1>3. CASE ClearNext
  <2> DEFINE name == prov[Head(Top.todo)].name
  <2>1. MadeGrows /\ UNCHANGED <<program, made, future, onRemove, eager, locked, issued, observers, frozen>>
    BY <1>3, MadeStays DEF ClearNext, Typed
  <2>2. Rest \in Frames /\ Rest.kind \in Mute /\ Top.c \in Containers
    BY <1>1, <1>3, TopTyped DEF ClearNext, Rest, Frames
  <2>3. CASE Unwind /\ UNCHANGED entries
    BY <2>1, <2>3, PlainUnwindThrows DEF otherVars
  <2>4. CASE stack' = Replace(Rest) /\ UNCHANGED <<entries, prov>>
    <3>1. AddsNone(Below)
      BY <1>1, <2>2, <2>4, TypedParts, Replaces
    <3>2. locked' \in [Containers -> BOOLEAN] /\ \A d \in Containers : locked[d] => locked'[d]
      BY <2>1 DEF Typed, TypeOK
    <3>3. Turns
      BY <1>1, <2>1, <2>4, <3>1, <3>2 DEF Turns
    <3> QED BY <3>3 DEF Step
  <2>5. CASE TakeOut(Top.c, name, Replace(Rest)) /\ UNCHANGED prov
    BY <1>1, <2>1, <2>2, <2>5, TakeOutSteps
  <2>6. \/ Unwind /\ UNCHANGED entries
        \/ stack' = Replace(Rest) /\ UNCHANGED <<entries, prov>>
        \/ TakeOut(Top.c, name, Replace(Rest)) /\ UNCHANGED prov
    BY <1>3 DEF ClearNext, Rest
  <2> QED BY <2>3, <2>4, <2>5, <2>6
<1> QED BY <1>2, <1>3

LEMMA FreezeSteps ==
    ASSUME Typed, Freeze \/ FreezeContainer \/ FreezeNext \/ FreezeEnds
    PROVE  Step
<1>1. CASE Freeze
  <2> DEFINE f == [Frame("freeze", 0, AnyContainer, 0, <<>>) EXCEPT !.size = Len(made)]
  <2>1. f \in Frames
    <3>1. AnyContainer \in Containers /\ Len(made) \in Nat /\ <<>> \in Seq(Nat) /\ 0 \in Nat
      BY AnyContainerIsOne, TypedParts
    <3> QED BY <3>1 DEF Frame, Frames
  <2>2. Adds(Len(stack), f)
    BY <1>1, <2>1, TypedParts, Pushes DEF Freeze, Push
  <2>3. FreezeStarts
    BY <1>1, <2>2 DEF Freeze, FreezeStarts
  <2> QED BY <2>3 DEF Step
<1>2. CASE FreezeContainer
  <2> DEFINE f == [Top EXCEPT !.at = @ + 1, !.todo = entries[made[Top.at + 1]]]
  <2>1. stack # <<>> /\ Top.kind = "freeze" /\ Top.at < Top.size /\ UNCHANGED otherVars
    BY <1>2 DEF FreezeContainer, On
  <2>2. CASE Len(made) # Top.size
    BY <1>2, <2>1, <2>2, PlainUnwindThrows DEF FreezeContainer
  <2>3. CASE Len(made) = Top.size
    <3>1. Top \in Frames
      BY <2>1, TopTyped
    <3>2. made[Top.at + 1] \in Containers
      <4>1. Top.at + 1 \in 1..Len(made)
        BY <2>1, <2>3, <3>1 DEF Frames
      <4> QED BY <4>1, TypedParts
    <3>3. entries[made[Top.at + 1]] \in Seq(Nat) /\ Top.at + 1 \in Nat
      <4>1. entries[made[Top.at + 1]] \in Seq(Providers)
        BY <3>2, TypedParts
      <4>2. Top.at + 1 \in Nat
        BY <3>1 DEF Frames
      <4> QED BY <4>1, <4>2, NumbersAreNat
    <3>4. ASSUME NEW top \in Frames, NEW t \in Seq(Nat), NEW at \in Nat
          PROVE  [top EXCEPT !.at = at, !.todo = t] \in Frames
      BY DEF Frames
    <3>5. f \in Frames
      <4>1. f = [Top EXCEPT !.at = Top.at + 1, !.todo = entries[made[Top.at + 1]]]
        OBVIOUS
      <4> HIDE DEF f
      <4> QED BY <3>1, <3>3, <3>4, <4>1
    <3>6. Adds(Below, f)
      BY <1>2, <2>1, <2>3, <3>5, TypedParts, Replaces DEF FreezeContainer
    <3>7. FreezeMoves
      BY <1>2, <2>3, <3>6 DEF FreezeContainer, FreezeMoves
    <3> QED BY <3>7 DEF Step
  <2> QED BY <2>2, <2>3
<1>3. CASE FreezeNext
  <2> DEFINE p == Head(Top.todo)
  <2>1. stack # <<>> /\ Top.kind = "freeze" /\ Top.todo # <<>> /\ UNCHANGED otherVars
    BY <1>3 DEF FreezeNext, On
  <2>2. p \in Providers /\ Rest \in Frames
    BY <2>1, TopTyped DEF FrameTyped, Providers
  <2> HIDE DEF p
  <2>3. CASE StartRealize(p)
    BY <2>1, <2>2, <2>3, StartRealizeStarts DEF Step
  <2>4. CASE Cyclic(p)
    BY <2>1, <2>4, PlainUnwindThrows DEF Cyclic
  <2>5. CASE prov[p].state = "REALIZED" /\ stack' = Replace(Rest) /\ UNCHANGED prov
    <3>1. Continues
      BY <2>1, <2>2, <2>5, TypedParts, Replaces DEF Continues
    <3>2. FreezePasses
      BY <2>1, <2>5, <3>1 DEF FreezePasses, On, p
    <3> QED BY <3>2 DEF Step
  <2> QED BY <1>3, <2>3, <2>4, <2>5 DEF FreezeNext, p, Rest
<1>4. CASE FreezeEnds
  <2>1. stack # <<>> /\ stack' = Pop
    BY <1>4 DEF FreezeEnds, On
  <2>2. AddsNone(Below)
    BY <2>1, TypedParts, Pops
  <2> QED BY <1>4, <2>2 DEF FreezeReturns, Step
<1> QED BY <1>1, <1>2, <1>3, <1>4

LEMMA NextSteps ==
    ASSUME Typed, Next
    PROVE  Step
<1>1. CASE \E c \in Containers, n \in Names :
              \/ \E own, now \in BOOLEAN : Register(c, n, own, now)
              \/ RegisterRefused(c, n) \/ Get(c, n) \/ Configure(c, n) \/ RemoveNamed(c, n)
  BY <1>1, RegisterSteps, RefusedSteps, GetSteps, ConfigureSteps, RemoveSteps
<1>2. ASSUME NEW c \in Containers,
             \/ ConfigureEach(c) \/ All(c) \/ WhenObjectRemoved(c) \/ DisallowChanges(c)
             \/ Clear(c) \/ RemoveRefused(c)
      PROVE  Step
  <2>1. CASE RemoveRefused(c)
    <3>1. MadeGrows
      BY <2>1, EntityGrows DEF Typed, RemoveRefused
    <3> QED BY <2>1, <3>1, UnwindThrows DEF RemoveRefused
  <2> QED BY <1>2, <2>1, WalkStartSteps, ListenSteps, ClearSteps
<1>3. CASE RemovedNext \/ RemovedInterrupted \/ RemovedEnds \/ ClearNext \/ ClearEnds
  BY <1>3, RemovedSteps, ClearNextSteps
<1>4. CASE RunNext \/ RunInterrupted \/ RealizeEnds \/ BodyEnds
  BY <1>4, RunNextSteps, PlainUnwindThrows, RealizeEndsSteps, BodyEndsSteps DEF RunInterrupted
<1>5. CASE EachNext \/ EachEnds \/ AllNext \/ AllEnds
  BY <1>5, WalkSteps, WalkEndSteps
<1>6. CASE Freeze \/ FreezeContainer \/ FreezeNext \/ FreezeEnds
  BY <1>6, FreezeSteps
<1> QED BY <1>1, <1>2, <1>3, <1>4, <1>5, <1>6 DEF Next

(***************************************************************************)
(* Type correctness                                                        *)
(***************************************************************************)

\* Providers stay what they are and where they are from; the numbers only grow.
ProvidersStay ==
    /\ prov' \in Seq(ProviderRecords) /\ Len(prov) <= Len(prov')
    /\ \A p \in Providers : prov'[p].name = prov[p].name /\ prov'[p].home = prov[p].home
Grows ==
    /\ program' = program
    /\ ProvidersStay
    /\ issued <= issued' /\ issued' \in 0..MaxActions
    /\ MadeGrows

LEMMA ChangesGrow ==
    ASSUME Typed, NEW p \in Providers,
           \/ Changes(p, [prov[p] EXCEPT !.state = "REALIZING", !.applied = <<>>])
           \/ Changes(p, [prov[p] EXCEPT !.state = "REALIZED"])
           \/ \E a \in Nat : Changes(p, [prov[p] EXCEPT !.applied = Append(@, a)])
           \/ \E a \in Nat : Changes(p, [prov[p] EXCEPT !.actions = Append(@, a)])
    PROVE  ProvidersStay
<1>1. prov[p] \in ProviderRecords
  BY TypedParts DEF Providers
<1>2. /\ prov' \in Seq(ProviderRecords) /\ Len(prov') = Len(prov)
      /\ \A q \in Providers : q # p => prov'[q] = prov[q]
      /\ prov'[p].name = prov[p].name /\ prov'[p].home = prov[p].home
  BY <1>1 DEF Changes, ProviderRecords
<1>3. Len(prov) \in Nat
  BY TypedParts
<1> QED BY ONLY <1>2, <1>3 DEF ProvidersStay

LEMMA GetsGrow ==
    ASSUME Typed, NEW p \in Providers, NEW a \in Nat, Gets(p, a) \/ Applies(p, a)
    PROVE  ProvidersStay
<1>1. CASE Applies(p, a)
  BY <1>1, ChangesGrow DEF Applies
<1>2. CASE Changes(p, [prov[p] EXCEPT !.actions = Append(@, a)])
  BY <1>2, ChangesGrow
<1> QED BY <1>1, <1>2 DEF Gets

LEMMA StepGrows ==
    ASSUME Typed, Step
    PROVE  Grows
<1>1. ASSUME UNCHANGED <<program, issued>>, ProvidersStay, MadeGrows PROVE Grows
  BY <1>1, TypedParts DEF Grows
<1>2. ASSUME UNCHANGED prov PROVE ProvidersStay
  BY <1>2, TypedParts DEF ProvidersStay
<1>3. ASSUME UNCHANGED otherVars, ProvidersStay PROVE Grows
  <2>1. MadeGrows
    BY <1>3, MadeStays DEF Typed, otherVars
  <2> QED BY <1>1, <1>3, <2>1 DEF otherVars
<1>4. ASSUME Issue, UNCHANGED program, ProvidersStay, MadeGrows PROVE Grows
  <2>1. issued <= issued' /\ issued' \in 0..MaxActions
    BY <1>4, TypedParts, IssueIsAction DEF Issue
  <2> QED BY <1>4, <2>1 DEF Grows
<1>5. CASE Throws
  <2>1. \A p \in Providers : prov[p] \in ProviderRecords
    BY TypedParts DEF Providers
  <2>2. \A p \in Providers : prov'[p].name = prov[p].name /\ prov'[p].home = prov[p].home
    BY <1>5, <2>1 DEF Throws, ProviderRecords
  <2>3. prov' \in Seq(ProviderRecords) /\ Len(prov) <= Len(prov')
    <3>1. Len(prov) \in Nat
      BY TypedParts
    <3>2. prov' \in Seq(ProviderRecords) /\ Len(prov') = Len(prov)
      BY <1>5, Zenon DEF Throws
    <3> QED BY <3>1, <3>2
  <2>4. ProvidersStay
    BY <2>2, <2>3 DEF ProvidersStay
  <2> QED BY <1>1, <1>5, <2>4 DEF Throws
<1>6. ASSUME NEW p \in Providers, Starts(p) PROVE Grows
  <2>1. ProvidersStay
    BY <1>6, ChangesGrow DEF Starts
  <2> QED BY <1>3, <1>6, <2>1 DEF Starts
<1>7. ASSUME On("realize") \/ On("removed"), Top.todo # <<>>,
             Applies(Top.p, Head(Top.todo)), UNCHANGED otherVars
      PROVE  Grows
  <2>1. stack # <<>> /\ Top.kind \in {"realize", "removed"}
    BY <1>7 DEF On
  <2>2. Top.p \in Providers /\ Top.todo \in Seq(Actions)
    BY <2>1, TopTyped DEF FrameTyped, Providers
  <2>3. Head(Top.todo) \in Nat
    <3>1. Head(Top.todo) \in Actions
      BY <1>7, <2>2, TailKeeps
    <3> QED BY <3>1 DEF Actions
  <2> QED BY <1>3, <1>7, <2>2, <2>3, GetsGrow
<1>8. CASE Finishes
  <2>1. Top.p \in Providers
    BY <1>8, TopTyped DEF Finishes, On, FrameTyped, Providers
  <2>2. ProvidersStay
    BY <1>8, <2>1, ChangesGrow DEF Finishes
  <2> QED BY <1>3, <1>8, <2>2 DEF Finishes
<1>9. CASE Visits
  <2>1. Head(Top.todo) \in Providers /\ Top.a \in Nat
    BY <1>9, TopTyped DEF Visits, FrameTyped, Providers
  <2> QED BY <1>3, <1>9, <2>1, GetsGrow DEF Visits
<1>10. CASE EndsWalk
  <2>1. MadeGrows
    BY <1>10, MadeStays DEF Typed, EndsWalk
  <2> QED BY <1>1, <1>2, <1>10, <2>1 DEF EndsWalk
<1>11. CASE Turns
  BY <1>1, <1>2, <1>11 DEF Turns
<1>12. CASE FreezeReturns
  <2>1. MadeGrows
    BY <1>12, MadeStays DEF Typed, FreezeReturns, FreezeEnds
  <2> QED BY <1>1, <1>2, <1>12, <2>1 DEF FreezeReturns, FreezeEnds
<1>13. ASSUME NEW c \in Containers, NEW p \in Providers, Configures(c, p) PROVE Grows
  <2>1. ProvidersStay
    BY <1>13, GetsGrow, IssueIsAction DEF Configures
  <2>2. MadeGrows
    BY <1>13, MadeStays DEF Typed, Configures
  <2> QED BY <1>4, <1>13, <2>1, <2>2 DEF Configures
<1>14. ASSUME NEW c \in Containers, NEW p \in Nat, NEW own \in BOOLEAN, Registers(c, p, own) PROVE Grows
  <2>1. ProvidersStay
    BY <1>14, TypedParts DEF Registers, ProvidersStay
  <2> QED BY <1>1, <1>4, <1>14, <2>1 DEF Registers
<1>15. ASSUME NEW c \in Containers, NEW kind \in Walks, StartsWalk(kind, c) PROVE Grows
  BY <1>2, <1>4, <1>15 DEF StartsWalk
<1>16. ASSUME NEW c \in Containers, NEW i \in 1..Len(entries[c]), TakesOut(c, i) PROVE Grows
  BY <1>1, <1>2, <1>16 DEF TakesOut
<1>17. ASSUME NEW c \in Containers, Listens(c) PROVE Grows
  BY <1>2, <1>4, <1>17 DEF Listens
<1>18. CASE Runs \/ RunsRemoval
  BY <1>7, <1>18 DEF Runs, RunsRemoval
<1>19. CASE FreezeStarts \/ FreezeMoves \/ FreezePasses
  BY <1>2, <1>3, <1>19 DEF FreezeStarts, FreezeMoves, FreezePasses
<1> QED BY <1>5, <1>6, <1>8, <1>9, <1>10, <1>11, <1>12, <1>13, <1>14, <1>15, <1>16, <1>17, <1>18, <1>19 DEF Step

LEMMA FramesStayTyped ==
    ASSUME Typed, Grows
    PROVE  \A f \in Frames : FrameTyped(f, Len(prov), issued) => FrameTyped(f, Len(prov'), issued')
<1>1. 1..Len(prov) \subseteq 1..Len(prov') /\ 1..issued \subseteq 1..issued'
  BY TypedParts DEF Grows, ProvidersStay
<1> QED BY <1>1 DEF FrameTyped

LEMMA AddsNoneTyped ==
    ASSUME Typed, Grows, NEW n, AddsNone(n)
    PROVE  stack' \in Seq(Frames) /\ \A i \in 1..Len(stack') : FrameTyped(stack'[i], Len(prov'), issued')
<1>1. stack \in Seq(Frames) /\ \A i \in 1..Len(stack) : stack[i] \in Frames /\ FrameTyped(stack[i], Len(prov), issued)
  BY DEF Typed
<1>2. ASSUME NEW i \in 1..Len(stack') PROVE FrameTyped(stack'[i], Len(prov'), issued')
  <2>1. CASE i \in 1..n
    <3>1. stack'[i] = stack[i] /\ i \in 1..Len(stack)
      BY <2>1, TypedParts DEF AddsNone
    <3> QED BY <3>1, <1>1, FramesStayTyped
  <2>2. CASE i \notin 1..n
    <3>1. stack'[i].kind \in Mute
      BY <2>2, TypedParts DEF AddsNone
    <3> QED BY <3>1 DEF FrameTyped, Mute, Walks
  <2> QED BY <2>1, <2>2
<1> QED BY <1>2 DEF AddsNone

LEMMA AddsTyped ==
    ASSUME Typed, Grows, NEW n, NEW f, Adds(n, f), FrameTyped(f, Len(prov'), issued')
    PROVE  stack' \in Seq(Frames) /\ \A i \in 1..Len(stack') : FrameTyped(stack'[i], Len(prov'), issued')
<1>1. stack \in Seq(Frames) /\ \A i \in 1..Len(stack) : stack[i] \in Frames /\ FrameTyped(stack[i], Len(prov), issued)
  BY DEF Typed
<1>2. ASSUME NEW i \in 1..Len(stack') PROVE FrameTyped(stack'[i], Len(prov'), issued')
  <2>1. CASE i \in 1..n
    <3>1. stack'[i] = stack[i] /\ i \in 1..Len(stack)
      BY <2>1, TypedParts DEF Adds
    <3> QED BY <3>1, <1>1, FramesStayTyped
  <2>2. CASE i \notin 1..n
    <3>1. stack'[i].kind \in Mute \/ stack'[i] = f
      BY <2>2, TypedParts DEF Adds
    <3> QED BY <3>1 DEF FrameTyped, Mute, Walks
  <2> QED BY <2>1, <2>2
<1> QED BY <1>2 DEF Adds

LEMMA RestTyped ==
    ASSUME Typed, Grows, stack # <<>>, Top.todo # <<>>
    PROVE  FrameTyped(Rest, Len(prov'), issued')
<1>1. FrameTyped(Top, Len(prov'), issued')
  BY TopTyped, FramesStayTyped
<1>2. /\ Rest.kind = Top.kind /\ Rest.p = Top.p /\ Rest.a = Top.a /\ Rest.todo = Tail(Top.todo)
      /\ Top.todo \in Seq(Nat)
  BY TopTyped DEF Rest, Frames
<1>3. /\ Len(Tail(Top.todo)) = Len(Top.todo) - 1 /\ Len(Top.todo) \in Nat
      /\ \A k \in 1..Len(Top.todo) - 1 : Tail(Top.todo)[k] = Top.todo[k + 1] /\ k + 1 \in 1..Len(Top.todo)
  BY <1>2, TailKeeps
<1>4. Top.todo \in Seq(Actions) => Tail(Top.todo) \in Seq(Actions)
  BY TailKeeps
<1> QED BY <1>1, <1>2, <1>3, <1>4 DEF FrameTyped

LEMMA StepFrames ==
    ASSUME Typed, Step
    PROVE  stack' \in Seq(Frames) /\ \A i \in 1..Len(stack') : FrameTyped(stack'[i], Len(prov'), issued')
<1>1. Grows
  BY StepGrows
<1>2. Len(prov') \in Nat /\ Len(prov) <= Len(prov') /\ Len(prov) \in Nat
      /\ issued' \in Nat /\ prov' \in Seq(ProviderRecords)
  BY <1>1, TypedParts DEF Grows, ProvidersStay
<1>3. ASSUME NEW n, AddsNone(n)
      PROVE  stack' \in Seq(Frames) /\ \A i \in 1..Len(stack') : FrameTyped(stack'[i], Len(prov'), issued')
  BY <1>1, <1>3, AddsNoneTyped
<1>4. ASSUME NEW n, NEW f, Adds(n, f), FrameTyped(f, Len(prov'), issued')
      PROVE  stack' \in Seq(Frames) /\ \A i \in 1..Len(stack') : FrameTyped(stack'[i], Len(prov'), issued')
  BY <1>1, <1>4, AddsTyped
<1>5. CASE Throws
  <2>1. stack' = <<>>
    BY <1>5, Zenon DEF Throws
  <2> QED BY <2>1
<1>6. ASSUME NEW p \in Providers, Starts(p)
      PROVE  FrameTyped(Realizing(p), Len(prov'), issued')
  <2>1. prov[p] \in ProviderRecords /\ p \in 1..Len(prov')
    BY <1>2, TypedParts DEF Providers
  <2>2. prov[p].actions \in Seq(Actions)
    BY <2>1 DEF ProviderRecords
  <2>3. Realizing(p).kind = "realize" /\ Realizing(p).p = p /\ Realizing(p).todo = prov[p].actions
    BY DEF Realizing, Frame
  <2> QED BY <2>1, <2>2, <2>3 DEF FrameTyped, Walks
<1>7. CASE Runs \/ Visits \/ RunsRemoval \/ FreezePasses
  <2>1. stack # <<>> /\ Top.todo # <<>> /\ Adds(Below, Rest)
    BY <1>7 DEF Runs, Visits, RunsRemoval, FreezePasses, On, Continues
  <2> QED BY <2>1, <1>1, <1>4, RestTyped
<1>8. CASE Finishes \/ EndsWalk \/ Turns \/ FreezeReturns
  <2>1. PICK n : AddsNone(n)
    BY <1>8 DEF Finishes, EndsWalk, Turns, FreezeReturns
  <2> QED BY <2>1, <1>3
<1>9. CASE FreezeStarts
  <2> DEFINE f == [Frame("freeze", 0, AnyContainer, 0, <<>>) EXCEPT !.size = Len(made)]
  <2>1. f.kind = "freeze" /\ f.todo = <<>>
    BY DEF Frame
  <2>2. FrameTyped(f, Len(prov'), issued')
    <3> HIDE DEF f
    <3> QED BY <2>1 DEF FrameTyped, Walks
  <2> QED BY <1>4, <1>9, <2>2 DEF FreezeStarts
<1>10. CASE FreezeMoves
  <2> DEFINE f == [Top EXCEPT !.at = @ + 1, !.todo = entries[made[Top.at + 1]]]
  <2>0. Top \in Frames /\ Top.kind = "freeze" /\ Top.at < Top.size /\ Len(made) = Top.size
    BY <1>10, TopTyped DEF FreezeMoves, On
  <2>1. Top.at + 1 \in 1..Len(made)
    BY <2>0 DEF Frames
  <2>2. f.kind = "freeze" /\ f.todo = entries[made[Top.at + 1]] /\ f.todo \in Seq(Providers)
    <3>1. made[Top.at + 1] \in Containers
      BY <2>1, TypedParts
    <3>2. entries[made[Top.at + 1]] \in Seq(Providers)
      BY <3>1, TypedParts
    <3>3. f.kind = Top.kind /\ f.todo = entries[made[Top.at + 1]]
      BY <2>0 DEF Frames
    <3> QED BY <2>0, <3>2, <3>3
  <2>3. FrameTyped(f, Len(prov'), issued')
    <3> HIDE DEF f
    <3>1. \A k \in 1..Len(f.todo) : f.todo[k] \in 1..Len(prov')
      BY <2>2, <1>2 DEF Providers
    <3> QED BY <2>2, <3>1 DEF FrameTyped, Walks
  <2>4. Adds(Below, f)
    BY <1>10 DEF FreezeMoves
  <2> QED BY <1>4, <2>3, <2>4
<1>11. ASSUME NEW c \in Containers, NEW p \in Nat, NEW own \in BOOLEAN, Registers(c, p, own),
              NEW f, f = [Frame("realize", p, c, 0, prov'[p].actions) EXCEPT !.size = Len(prov'[p].actions)]
       PROVE  FrameTyped(f, Len(prov'), issued')
  <2>1. p \in 1..Len(prov')
    BY <1>2, <1>11 DEF Registers
  <2>2. prov'[p] \in ProviderRecords
    BY <1>2, <2>1
  <2>3. prov'[p].actions \in Seq(Actions)
    BY <2>2 DEF ProviderRecords
  <2>4. f.kind = "realize" /\ f.p = p /\ f.todo = prov'[p].actions
    BY <1>11 DEF Frame
  <2> QED BY <2>1, <2>3, <2>4 DEF FrameTyped, Walks
<1>12. ASSUME NEW c \in Containers, NEW kind \in Walks, StartsWalk(kind, c)
       PROVE  FrameTyped(Frame(kind, 0, c, Fresh, entries[c]), Len(prov'), issued')
  <2> DEFINE f == Frame(kind, 0, c, Fresh, entries[c])
  <2>1. f.kind \in Walks /\ f.a \in 1..issued' /\ f.todo \in Seq(Providers)
    BY <1>2, <1>12, TypedParts, IssueIsAction DEF Frame, StartsWalk
  <2>2. f.kind \notin {"realize", "removed"}
    BY DEF Frame, Walks
  <2> HIDE DEF f
  <2>3. \A k \in 1..Len(f.todo) : f.todo[k] \in 1..Len(prov')
    BY <2>1, <1>2 DEF Providers
  <2>4. FrameTyped(f, Len(prov'), issued')
    BY <2>1, <2>2, <2>3 DEF FrameTyped
  <2> QED BY <2>4 DEF f
<1>13. ASSUME NEW c \in Containers, NEW i \in 1..Len(entries[c]), TakesOut(c, i),
              NEW f, f = [Frame("removed", entries[c][i], c, 0, onRemove[c]) EXCEPT !.size = Len(onRemove[c])]
       PROVE  FrameTyped(f, Len(prov'), issued')
  <2>1. f.kind = "removed" /\ f.p = entries[c][i] /\ f.todo = onRemove[c]
    BY <1>13 DEF Frame
  <2>2. entries[c][i] \in 1..Len(prov') /\ onRemove[c] \in Seq(Actions)
    BY <1>2, TypedParts DEF Providers
  <2> QED BY <2>1, <2>2 DEF FrameTyped, Walks
<1>14. ASSUME NEW c \in Containers, NEW p \in Providers, Configures(c, p)
       PROVE  \E n : AddsNone(n)
  BY <1>14 DEF Configures
<1>15. ASSUME NEW c \in Containers, Listens(c)
       PROVE  \E n : AddsNone(n)
  BY <1>15 DEF Listens
<1>16. ASSUME NEW p \in Providers, Starts(p)
       PROVE  Adds(Len(stack), Realizing(p))
  BY <1>16 DEF Starts
<1>17. ASSUME NEW c \in Containers, NEW p \in Nat, NEW own \in BOOLEAN, Registers(c, p, own)
       PROVE  stack' \in Seq(Frames) /\ \A i \in 1..Len(stack') : FrameTyped(stack'[i], Len(prov'), issued')
  BY <1>3, <1>4, <1>11, <1>17 DEF Registers
<1>18. ASSUME NEW c \in Containers, NEW kind \in Walks, StartsWalk(kind, c)
       PROVE  stack' \in Seq(Frames) /\ \A i \in 1..Len(stack') : FrameTyped(stack'[i], Len(prov'), issued')
  BY <1>4, <1>12, <1>18 DEF StartsWalk
<1>19. ASSUME NEW c \in Containers, NEW i \in 1..Len(entries[c]), TakesOut(c, i)
       PROVE  stack' \in Seq(Frames) /\ \A j \in 1..Len(stack') : FrameTyped(stack'[j], Len(prov'), issued')
  BY <1>3, <1>4, <1>13, <1>19 DEF TakesOut
<1> QED BY <1>3, <1>4, <1>5, <1>6, <1>7, <1>8, <1>9, <1>10, <1>14, <1>15, <1>16, <1>17, <1>18, <1>19 DEF Step

\* The names of a container are apart, so its entries are too.
LEMMA EntriesApart ==
    ASSUME Typed, NEW c \in Containers
    PROVE  /\ IsInjective(entries[c])
           /\ \A p, q \in ToSet(entries[c]) : prov[p].name = prov[q].name => p = q
<1>1. /\ DOMAIN entries[c] = 1..Len(entries[c])
      /\ \A i, j \in DOMAIN entries[c] : prov[entries[c][i]].name = prov[entries[c][j]].name => i = j
  BY TypedParts DEF Typed, TypeOK
<1> QED BY <1>1 DEF IsInjective, ToSet

\* The entries of a container when ps are the providers.
EntriesTyped(es, ps) ==
    /\ es \in Seq(1..Len(ps))
    /\ \A i, j \in DOMAIN es : ps[es[i]].name = ps[es[j]].name => i = j

LEMMA StepEntries ==
    ASSUME Typed, Step
    PROVE  /\ entries' \in [Containers -> Seq(1..Len(prov'))]
           /\ \A c \in Containers : EntriesTyped(entries'[c], prov')
<1>1. ProvidersStay
  BY StepGrows DEF Grows
<1>2. Len(prov) \in Nat /\ Len(prov') \in Nat /\ Providers \subseteq 1..Len(prov')
  BY <1>1, TypedParts DEF ProvidersStay, Providers
<1>3. ASSUME NEW c \in Containers PROVE EntriesTyped(entries[c], prov')
  <2>1. entries[c] \in Seq(Providers)
    BY TypedParts
  <2>2. entries[c] \in Seq(1..Len(prov'))
    BY <1>2, <2>1, SeqMonotonic
  <2>3. \A i \in DOMAIN entries[c] : entries[c][i] \in Providers
    BY <2>1
  <2>4. \A i, j \in DOMAIN entries[c] : prov[entries[c][i]].name = prov[entries[c][j]].name => i = j
    BY DEF Typed, TypeOK
  <2> QED BY <1>1, <2>2, <2>3, <2>4 DEF EntriesTyped, ProvidersStay
<1>4. entries \in [Containers -> Seq(1..Len(prov'))]
  BY <1>3, TypedParts DEF EntriesTyped
<1>5. CASE UNCHANGED entries
  BY <1>3, <1>4, <1>5
<1>6. ASSUME NEW c \in Containers, NEW es, entries' = [entries EXCEPT ![c] = es], EntriesTyped(es, prov')
      PROVE  /\ entries' \in [Containers -> Seq(1..Len(prov'))]
             /\ \A d \in Containers : EntriesTyped(entries'[d], prov')
  <2>1. \A d \in Containers : entries'[d] = IF d = c THEN es ELSE entries[d]
    BY <1>6, TypedParts
  <2>2. \A d \in Containers : EntriesTyped(entries'[d], prov')
    BY <1>3, <1>6, <2>1
  <2>3. es \in Seq(1..Len(prov'))
    BY <1>6 DEF EntriesTyped
  <2> QED BY <1>4, <1>6, <2>2, <2>3
<1>7. ASSUME NEW c \in Containers, NEW p \in Nat, NEW own \in BOOLEAN, Registers(c, p, own)
      PROVE  EntriesTyped(Append(entries[c], p), prov')
  <2> DEFINE es == Append(entries[c], p)
  <2>1. /\ entries[c] \in Seq(1..Len(prov')) /\ p \in 1..Len(prov')
        /\ \A i, j \in DOMAIN entries[c] :
              prov'[entries[c][i]].name = prov'[entries[c][j]].name => i = j
    BY <1>2, <1>3, <1>7 DEF EntriesTyped, Registers
  <2>2. /\ es \in Seq(1..Len(prov')) /\ DOMAIN es = 1..Len(entries[c]) + 1 /\ Len(entries[c]) \in Nat
        /\ \A i \in 1..Len(entries[c]) : es[i] = entries[c][i]
        /\ es[Len(entries[c]) + 1] = p /\ DOMAIN entries[c] = 1..Len(entries[c])
    BY <2>1
  <2>3. \A i \in 1..Len(entries[c]) : prov'[entries[c][i]].name # prov'[p].name
    <3>1. \A i \in 1..Len(entries[c]) : entries[c][i] \in Providers
      BY TypedParts
    <3> QED BY <3>1, <1>1, <1>7 DEF Registers, ProvidersStay
  <2> HIDE DEF es
  <2> DEFINE name(x) == prov'[x].name
  <2>4. /\ \A i, j \in 1..Len(entries[c]) : name(entries[c][i]) = name(entries[c][j]) => i = j
        /\ \A i \in 1..Len(entries[c]) : name(entries[c][i]) # name(p)
    BY <2>1, <2>2, <2>3
  <2> HIDE DEF name
  <2>5. ASSUME NEW i \in DOMAIN es, NEW j \in DOMAIN es, name(es[i]) = name(es[j])
        PROVE  i = j
    <3>1. Len(entries[c]) \in Nat /\ i \in 1..Len(entries[c]) + 1 /\ j \in 1..Len(entries[c]) + 1
      BY <2>2, Zenon
    <3>2. /\ i \in 1..Len(entries[c]) \/ i = Len(entries[c]) + 1
          /\ j \in 1..Len(entries[c]) \/ j = Len(entries[c]) + 1
      BY ONLY <3>1
    <3>3. i \in 1..Len(entries[c]) => name(es[i]) = name(entries[c][i]) /\ name(es[i]) # name(p)
      BY <2>2, <2>4
    <3>4. j \in 1..Len(entries[c]) => name(es[j]) = name(entries[c][j]) /\ name(es[j]) # name(p)
      BY <2>2, <2>4
    <3>5. es[Len(entries[c]) + 1] = p
      BY <2>2
    <3> QED BY <2>4, <2>5, <3>1, <3>2, <3>3, <3>4, <3>5
  <2> QED BY <2>2, <2>5 DEF EntriesTyped, es, name
<1>8. ASSUME NEW c \in Containers, NEW i \in 1..Len(entries[c])
      PROVE  EntriesTyped(RemoveAt(entries[c], i), prov')
  <2> DEFINE es == RemoveAt(entries[c], i)
  <2>1. entries[c] \in Seq(Providers) /\ IsInjective(entries[c])
    BY TypedParts, EntriesApart
  <2>2. es \in Seq(Providers) /\ ToSet(es) \subseteq ToSet(entries[c]) /\ IsInjective(es)
    BY <2>1, RemoveAtKeeps
  <2>3. es \in Seq(1..Len(prov'))
    BY <1>2, <2>2, SeqMonotonic
  <2> HIDE DEF es
  <2>4. \A j \in DOMAIN es : es[j] \in ToSet(entries[c]) /\ es[j] \in Providers
    BY <2>2 DEF ToSet
  <2>5. \A j, k \in DOMAIN es : prov'[es[j]].name = prov'[es[k]].name => es[j] = es[k]
    BY <1>1, <2>4, EntriesApart DEF ProvidersStay
  <2>6. \A j, k \in DOMAIN es : prov'[es[j]].name = prov'[es[k]].name => j = k
    BY <2>2, <2>5 DEF IsInjective
  <2> QED BY <2>3, <2>6 DEF EntriesTyped, es
<1>9. \/ UNCHANGED entries
      \/ \E c \in Containers, p \in Nat, own \in BOOLEAN : Registers(c, p, own)
      \/ \E c \in Containers : \E i \in 1..Len(entries[c]) : TakesOut(c, i)
  BY DEF Step, Throws, Starts, Runs, Finishes, Visits, RunsRemoval, EndsWalk, Turns, FreezeStarts,
         FreezeMoves, FreezePasses, FreezeReturns, FreezeEnds, Configures, StartsWalk, Listens, otherVars
<1>10. ASSUME NEW c \in Containers, NEW p \in Nat, NEW own \in BOOLEAN, Registers(c, p, own)
       PROVE  entries' = [entries EXCEPT ![c] = Append(entries[c], p)]
  BY <1>10 DEF Registers
<1>11. ASSUME NEW c \in Containers, NEW i \in 1..Len(entries[c]), TakesOut(c, i)
       PROVE  entries' = [entries EXCEPT ![c] = RemoveAt(entries[c], i)]
  BY <1>11 DEF TakesOut
<1>12. ASSUME NEW c \in Containers, NEW p \in Nat, NEW own \in BOOLEAN, Registers(c, p, own)
       PROVE  /\ entries' \in [Containers -> Seq(1..Len(prov'))]
              /\ \A d \in Containers : EntriesTyped(entries'[d], prov')
  <2>1. EntriesTyped(Append(entries[c], p), prov')
    BY <1>7, <1>12
  <2>2. entries' = [entries EXCEPT ![c] = Append(entries[c], p)]
    BY <1>10, <1>12
  <2> QED BY <1>6, <2>1, <2>2
<1>13. ASSUME NEW c \in Containers, NEW i \in 1..Len(entries[c]), TakesOut(c, i)
       PROVE  /\ entries' \in [Containers -> Seq(1..Len(prov'))]
              /\ \A d \in Containers : EntriesTyped(entries'[d], prov')
  BY <1>6, <1>8, <1>11, <1>13
<1> QED BY <1>5, <1>9, <1>12, <1>13

\* The actions and the flags of the containers.
LEMMA StepFlags ==
    ASSUME Typed, Step
    PROVE  /\ future' \in [Containers -> Seq(Actions)] /\ onRemove' \in [Containers -> Seq(Actions)]
           /\ eager' \in [Containers -> BOOLEAN] /\ locked' \in [Containers -> BOOLEAN]
           /\ observers' \in [Containers -> SUBSET ({"configureEach", "all"} \X Actions)]
           /\ frozen' \subseteq Containers
<1>1. /\ eager \in [Containers -> BOOLEAN] /\ locked \in [Containers -> BOOLEAN]
      /\ observers \in [Containers -> SUBSET ({"configureEach", "all"} \X Actions)]
      /\ frozen \subseteq Containers
      /\ future \in [Containers -> Seq(Actions)] /\ onRemove \in [Containers -> Seq(Actions)]
      /\ made \in Seq(Containers)
  BY DEF Typed, TypeOK
<1>2. ASSUME UNCHANGED <<future, onRemove, eager, locked, observers, frozen>>
      PROVE  /\ future' \in [Containers -> Seq(Actions)] /\ onRemove' \in [Containers -> Seq(Actions)]
             /\ eager' \in [Containers -> BOOLEAN] /\ locked' \in [Containers -> BOOLEAN]
             /\ observers' \in [Containers -> SUBSET ({"configureEach", "all"} \X Actions)]
             /\ frozen' \subseteq Containers
  BY <1>1, <1>2
<1>3. CASE EndsWalk
  <2>1. stack # <<>> /\ Top.kind \in {"configureEach", "all"}
    BY <1>3 DEF EndsWalk, Walks
  <2>2. Top.a \in Actions /\ Top.c \in Containers
    BY <2>1, TopTyped, TypedParts DEF FrameTyped, Walks, Actions, Frames
  <2>3. observers' \in [Containers -> SUBSET ({"configureEach", "all"} \X Actions)]
    BY <1>1, <1>3, <2>1, <2>2 DEF EndsWalk
  <2>4. future' \in [Containers -> Seq(Actions)]
    <3>1. Append(future[Top.c], Top.a) \in Seq(Actions)
      BY <1>1, <2>2
    <3> QED BY <1>1, <1>3, <3>1 DEF EndsWalk
  <2> QED BY <1>1, <1>3, <2>3, <2>4 DEF EndsWalk
<1>4. ASSUME NEW c \in Containers, NEW kind \in Walks, StartsWalk(kind, c)
      PROVE  future' \in [Containers -> Seq(Actions)]
  <2>1. Append(future[c], Fresh) \in Seq(Actions)
    BY <1>1, <1>4, IssueIsAction DEF StartsWalk
  <2> QED BY <1>1, <1>4, <2>1 DEF StartsWalk
<1>5. ASSUME NEW c \in Containers, Listens(c)
      PROVE  onRemove' \in [Containers -> Seq(Actions)]
  <2>1. Append(onRemove[c], Fresh) \in Seq(Actions)
    BY <1>1, <1>5, IssueIsAction DEF Listens
  <2> QED BY <1>1, <1>5, <2>1 DEF Listens
<1>6. CASE Turns
  BY <1>1, <1>6 DEF Turns
<1>7. CASE FreezeReturns
  <2>1. ToSet(made) \subseteq Containers
    BY <1>1 DEF ToSet
  <2>2. locked' \in [Containers -> BOOLEAN]
    BY <1>1, <1>7 DEF FreezeReturns, FreezeEnds
  <2> QED BY <1>1, <1>7, <2>1, <2>2 DEF FreezeReturns, FreezeEnds
<1>8. ASSUME NEW c \in Containers, NEW kind \in Walks, StartsWalk(kind, c)
      PROVE  UNCHANGED <<onRemove, eager, locked, observers, frozen>>
  BY <1>8 DEF StartsWalk
<1>9. ASSUME NEW c \in Containers, Listens(c)
      PROVE  UNCHANGED <<future, eager, locked, observers, frozen>>
  BY <1>9 DEF Listens
<1>10. \/ UNCHANGED <<future, onRemove, eager, locked, observers, frozen>>
       \/ EndsWalk \/ Turns \/ FreezeReturns
       \/ \E c \in Containers : Listens(c) \/ \E kind \in Walks : StartsWalk(kind, c)
  BY DEF Step, Throws, Starts, Runs, Finishes, Visits, RunsRemoval, FreezeStarts,
         FreezeMoves, FreezePasses, Configures, Registers, TakesOut, otherVars
<1> QED BY <1>1, <1>2, <1>3, <1>4, <1>5, <1>6, <1>7, <1>8, <1>9, <1>10

LEMMA NextTyped == Typed /\ [Next]_vars => Typed'
<1> SUFFICES ASSUME Typed, [Next]_vars PROVE Typed'
  OBVIOUS
<1>1. CASE Next
  <2>1. Step
    BY <1>1, NextSteps
  <2>2. stack' \in Seq(Frames) /\ \A i \in 1..Len(stack') : FrameTyped(stack'[i], Len(prov'), issued')
    BY <2>1, StepFrames
  <2>3. program' = program /\ program \in Programs
    BY <2>1, StepGrows DEF Grows, Typed, TypeOK
  <2>4. made' \in Seq(Containers) /\ IsInjective(made')
    BY <2>1, StepGrows DEF Grows, MadeGrows
  <2>5. prov' \in Seq(ProviderRecords) /\ issued' \in 0..MaxActions
    BY <2>1, StepGrows DEF Grows, ProvidersStay
  <2>6. /\ entries' \in [Containers -> Seq(1..Len(prov'))]
        /\ \A c \in Containers : \A i, j \in DOMAIN entries'[c] :
              prov'[entries'[c][i]].name = prov'[entries'[c][j]].name => i = j
    BY <2>1, StepEntries DEF EntriesTyped
  <2>7. TypeOK'
    BY <2>1, <2>3, <2>4, <2>5, <2>6, StepFlags DEF TypeOK, ProviderRecords, Providers
  <2> QED BY <2>2, <2>7 DEF Typed
<1>2. CASE UNCHANGED vars
  BY <1>2 DEF Typed, TypeOK, vars, otherVars, Providers
<1> QED BY <1>1, <1>2

LEMMA InitTyped == Init => Typed
<1> SUFFICES ASSUME Init PROVE Typed
  OBVIOUS
<1>1. /\ stack = <<>> /\ prov = <<>> /\ made = <<>> /\ Len(stack) = 0 /\ Len(prov) = 0 /\ issued = 0
      /\ \A c \in Containers : entries[c] = <<>>
  BY DEF Init
<1>2. IsInjective(made)
  BY <1>1 DEF IsInjective
<1>3. 0 \in 0..MaxActions
  BY BoundsAssumption
<1>4. stack \in Seq(Frames) /\ prov \in Seq(ProviderRecords) /\ made \in Seq(Containers)
  BY <1>1
<1>5. TypeOK
  BY <1>1, <1>2, <1>3, <1>4 DEF Init, TypeOK, ProviderRecords
<1> QED BY <1>1, <1>4, <1>5 DEF Typed

THEOREM TypedAlways == Spec => []Typed
  BY InitTyped, NextTyped, PTL DEF Spec

\* Every variable of the containers keeps its type, and a name is registered at
\* most once in a container.
THEOREM TypeCorrect == Spec => []TypeOK
<1>1. Typed => TypeOK
  BY DEF Typed
<1> QED BY <1>1, TypedAlways, PTL

(***************************************************************************)
(* Realizations.  A provider is REALIZING exactly while a frame of the     *)
(* stack realizes it, and no two frames realize the same one.              *)
(***************************************************************************)

Realizes(s, i) == i \in 1..Len(s) /\ s[i].kind = "realize"

Running(s, ps) ==
    /\ \A i \in Nat : Realizes(s, i) => ps[s[i].p].state = "REALIZING"
    /\ \A i, j \in Nat : Realizes(s, i) /\ Realizes(s, j) /\ s[i].p = s[j].p => i = j
    /\ \A p \in 1..Len(ps) : ps[p].state = "REALIZING" => \E i \in Nat : Realizes(s, i) /\ s[i].p = p

\* The realizing frames of t are those of s.
SameRealize(s, t) ==
    \A i \in Nat : /\ Realizes(t, i) <=> Realizes(s, i)
                   /\ Realizes(s, i) => t[i].p = s[i].p

\* No provider changes its state, and no new one is REALIZING.
StatesStay ==
    /\ \A p \in Providers : prov'[p].state = prov[p].state
    /\ \A p \in 1..Len(prov') : p \in Providers \/ prov'[p].state # "REALIZING"

LEMMA RealizesTyped ==
    ASSUME Typed, NEW i \in Nat, Realizes(stack, i)
    PROVE  stack[i].p \in Providers
  BY DEF Typed, FrameTyped, Realizes, Providers

LEMMA RunningStays ==
    ASSUME Typed, Running(stack, prov), SameRealize(stack, stack'), StatesStay
    PROVE  Running(stack', prov')
<1>1. \A i \in Nat : Realizes(stack', i) => Realizes(stack, i) /\ stack'[i].p = stack[i].p /\ stack[i].p \in Providers
  BY RealizesTyped DEF SameRealize
<1>2. \A i \in Nat : Realizes(stack', i) => prov'[stack'[i].p].state = "REALIZING"
  BY <1>1 DEF Running, StatesStay
<1>3. \A i, j \in Nat : Realizes(stack', i) /\ Realizes(stack', j) /\ stack'[i].p = stack'[j].p => i = j
  BY <1>1 DEF Running
<1>4. ASSUME NEW p \in 1..Len(prov'), prov'[p].state = "REALIZING"
      PROVE  \E i \in Nat : Realizes(stack', i) /\ stack'[i].p = p
  <2>1. p \in Providers /\ prov[p].state = "REALIZING"
    BY <1>4 DEF StatesStay
  <2>2. PICK i \in Nat : Realizes(stack, i) /\ stack[i].p = p
    BY <2>1 DEF Running, Providers
  <2> QED BY <2>2 DEF SameRealize
<1> QED BY <1>2, <1>3, <1>4 DEF Running

\* The top of the stack is not a realization, and none comes on top.
LEMMA NoRealizeSame ==
    ASSUME Typed, NEW n \in {Len(stack), Below},
           n = Below => stack # <<>> /\ Top.kind # "realize",
           \/ AddsNone(n)
           \/ \E f : f.kind # "realize" /\ Adds(n, f)
    PROVE  SameRealize(stack, stack')
<1>1. stack' \in Seq(Frames) /\ n \in 0..Len(stack) /\ n <= Len(stack') /\ Len(stack) \in Nat /\ Len(stack') \in Nat
  BY TypedParts DEF AddsNone, Adds
<1>2. \A i \in 1..n : stack'[i] = stack[i]
  BY DEF AddsNone, Adds
<1>3. \A i \in n + 1..Len(stack') : stack'[i].kind # "realize"
  BY DEF AddsNone, Adds, Mute
<1>4. \A i \in n + 1..Len(stack) : stack[i].kind # "realize"
  <2>1. CASE n = Len(stack)
    BY <2>1, <1>1
  <2>2. CASE n = Below
    <3>1. \A i \in n + 1..Len(stack) : i = Len(stack)
      BY <2>2, <1>1 DEF Below
    <3> QED BY <2>2, <3>1, TopTyped
  <2> QED BY <2>1, <2>2
<1> QED BY <1>1, <1>2, <1>3, <1>4 DEF SameRealize, Realizes

\* The top is a realization that goes on, or another walk that does.
LEMMA RestSame ==
    ASSUME Typed, stack # <<>>, Continues
    PROVE  SameRealize(stack, stack')
<1>1. /\ stack' \in Seq(Frames) /\ Len(stack) \in Nat \ {0} /\ Len(stack') \in Nat /\ Below = Len(stack) - 1
      /\ \A i \in 1..Below : stack'[i] = stack[i]
      /\ Rest.kind = Top.kind /\ Rest.p = Top.p /\ Top = stack[Len(stack)]
      /\ Len(stack) <= Len(stack') /\ stack'[Len(stack)] = Rest
  BY TypedParts, TopTyped DEF Adds, Below, Rest, Frames, Continues
<1>2. CASE Top.kind # "realize"
  BY <1>1, <1>2, NoRealizeSame DEF Continues
<1>3. CASE Top.kind = "realize"
  <2>1. PICK k \in Below + 1..Len(stack') :
           stack'[k] = Rest /\ \A i \in Below + 1..Len(stack') : i # k => stack'[i].kind \in Mute
    BY DEF Continues, Adds
  <2>2. k = Len(stack)
    BY <1>1, <1>3, <2>1 DEF Mute
  <2>3. \A i \in Len(stack) + 1..Len(stack') : stack'[i].kind # "realize"
    BY <1>1, <2>1, <2>2 DEF Mute
  <2> QED BY <1>1, <1>3, <2>3 DEF SameRealize, Realizes
<1> QED BY <1>2, <1>3

\* A provider that nobody realizes is realized from now on.
LEMMA RunningAdds ==
    ASSUME Typed, Running(stack, prov), NEW p \in 1..Len(prov'), NEW f, f.kind = "realize", f.p = p,
           Adds(Len(stack), f),
           p \in Providers => prov[p].state # "REALIZING",
           prov'[p].state = "REALIZING",
           \A q \in Providers : q # p => prov'[q].state = prov[q].state,
           \A q \in 1..Len(prov') : q \in Providers \/ q = p
    PROVE  Running(stack', prov')
<1>1. /\ Len(stack) \in Nat /\ Len(stack') \in Nat /\ Len(stack) <= Len(stack')
      /\ \A i \in 1..Len(stack) : stack'[i] = stack[i]
  BY TypedParts DEF Adds
<1>2. PICK k \in Len(stack) + 1..Len(stack') :
         stack'[k] = f /\ \A i \in Len(stack) + 1..Len(stack') : i # k => stack'[i].kind \in Mute
  BY DEF Adds
<1>3. \A i \in Nat : Realizes(stack', i) <=> Realizes(stack, i) \/ i = k
  BY <1>1, <1>2 DEF Realizes, Mute
<1>4. \A i \in Nat : Realizes(stack, i) => stack'[i].p = stack[i].p /\ stack[i].p \in Providers
  BY <1>1, RealizesTyped DEF Realizes
<1>5. stack'[k].p = p /\ k \in Nat
  BY <1>1, <1>2
<1>6. \A i \in Nat : Realizes(stack, i) => stack[i].p # p
  BY <1>4 DEF Running
<1>7. \A i \in Nat : Realizes(stack', i) => prov'[stack'[i].p].state = "REALIZING"
  BY <1>3, <1>4, <1>5, <1>6 DEF Running
<1>8. \A i, j \in Nat : Realizes(stack', i) /\ Realizes(stack', j) /\ stack'[i].p = stack'[j].p => i = j
  BY <1>3, <1>4, <1>5, <1>6 DEF Running
<1>9. ASSUME NEW q \in 1..Len(prov'), prov'[q].state = "REALIZING"
      PROVE  \E i \in Nat : Realizes(stack', i) /\ stack'[i].p = q
  <2>1. CASE q = p
    BY <2>1, <1>3, <1>5
  <2>2. CASE q # p
    <3>1. q \in 1..Len(prov) /\ prov[q].state = "REALIZING"
      BY <2>2, <1>9 DEF Providers
    <3>2. PICK i \in Nat : Realizes(stack, i) /\ stack[i].p = q
      BY <3>1 DEF Running
    <3> QED BY <3>2, <1>3, <1>4
  <2> QED BY <2>1, <2>2
<1> QED BY <1>7, <1>8, <1>9 DEF Running

LEMMA RunningFinishes ==
    ASSUME Typed, Running(stack, prov), Finishes
    PROVE  Running(stack', prov')
<1> DEFINE n == Len(stack)
<1>1. /\ n \in Nat \ {0} /\ Realizes(stack, n) /\ Top = stack[n] /\ stack[n].p \in Providers
  <2>1. stack # <<>> /\ Top.kind = "realize"
    BY DEF Finishes, On
  <2>2. n \in Nat \ {0} /\ Realizes(stack, n) /\ Top = stack[n]
    BY <2>1, TopTyped DEF Realizes
  <2> QED BY <2>2, RealizesTyped
<1>2. /\ \A i \in 1..n - 1 : stack'[i] = stack[i]
      /\ \A i \in n..Len(stack') : stack'[i].kind \in Mute
      /\ Len(stack') \in Nat /\ n - 1 <= Len(stack')
  BY <1>1 DEF Finishes, AddsNone, Below
<1>3. \A i \in Nat : Realizes(stack', i) <=> Realizes(stack, i) /\ i # n
  BY <1>1, <1>2 DEF Realizes, Mute
<1>4. \A i \in Nat : Realizes(stack', i) => stack'[i].p = stack[i].p /\ stack[i].p \in Providers
  BY <1>2, <1>3, RealizesTyped DEF Realizes
<1>5. Len(prov') = Len(prov) /\ \A q \in Providers : q # Top.p => prov'[q] = prov[q]
  BY DEF Finishes, Changes
<1>6. prov'[Top.p].state # "REALIZING"
  <2>1. prov[Top.p] \in ProviderRecords /\ prov'[Top.p] = [prov[Top.p] EXCEPT !.state = "REALIZED"]
    BY <1>1, TypedParts DEF Providers, Finishes, Changes
  <2> QED BY <2>1 DEF ProviderRecords
<1>7. \A i \in Nat : Realizes(stack', i) => stack[i].p # Top.p
  BY <1>1, <1>3 DEF Running
<1>8. \A i \in Nat : Realizes(stack', i) => prov'[stack'[i].p].state = "REALIZING"
  BY <1>3, <1>4, <1>5, <1>7 DEF Running
<1>9. \A i, j \in Nat : Realizes(stack', i) /\ Realizes(stack', j) /\ stack'[i].p = stack'[j].p => i = j
  BY <1>3, <1>4 DEF Running
<1>10. ASSUME NEW q \in 1..Len(prov'), prov'[q].state = "REALIZING"
       PROVE  \E i \in Nat : Realizes(stack', i) /\ stack'[i].p = q
  <2>1. q # Top.p /\ q \in 1..Len(prov) /\ prov[q].state = "REALIZING"
    BY <1>5, <1>6, <1>10 DEF Providers
  <2>2. PICK i \in Nat : Realizes(stack, i) /\ stack[i].p = q
    BY <2>1 DEF Running
  <2>3. i # n
    BY <2>1, <2>2, <1>1
  <2> QED BY <2>2, <2>3, <1>3, <1>4
<1> QED BY <1>8, <1>9, <1>10 DEF Running

LEMMA RunningThrows ==
    ASSUME Typed, Throws
    PROVE  Running(stack', prov')
<1>1. stack' = <<>> /\ Len(prov') = Len(prov)
  BY Zenon DEF Throws
<1>2. \A p \in Providers : prov[p] \in ProviderRecords
  BY TypedParts DEF Providers
<1>3. \A p \in Providers : prov'[p].state # "REALIZING"
  BY <1>2 DEF Throws, ProviderRecords
<1>4. \A i \in Nat : ~Realizes(stack', i)
  BY <1>1 DEF Realizes
<1> QED BY <1>1, <1>3, <1>4 DEF Running, Providers

\* configure, on whatever provider, changes no state.
LEMMA GetsState ==
    ASSUME Typed, NEW p \in Providers, NEW a, Gets(p, a) \/ Applies(p, a)
    PROVE  StatesStay
<1>1. prov[p] \in ProviderRecords
  BY TypedParts DEF Providers
<1>2. \/ Changes(p, [prov[p] EXCEPT !.applied = Append(@, a)])
      \/ Changes(p, [prov[p] EXCEPT !.actions = Append(@, a)])
  BY DEF Gets, Applies
<1>3. /\ Len(prov') = Len(prov) /\ prov'[p].state = prov[p].state
      /\ \A q \in Providers : q # p => prov'[q] = prov[q]
  BY <1>1, <1>2 DEF Changes, ProviderRecords
<1> QED BY ONLY <1>3 DEF StatesStay, Providers

LEMMA StepRunning ==
    ASSUME Typed, Running(stack, prov), Step
    PROVE  Running(stack', prov')
<1>1. ASSUME UNCHANGED prov PROVE StatesStay
  BY <1>1 DEF StatesStay, Providers
<1>2. Len(stack) \in Nat /\ Len(prov) \in Nat
  BY TypedParts
<1>3. Len(stack) = Below => FALSE
  BY <1>2 DEF Below
<1>4. ASSUME NEW p \in Providers, Starts(p) PROVE Running(stack', prov')
  <2>1. Realizing(p).kind = "realize" /\ Realizing(p).p = p
    BY DEF Realizing, Frame
  <2>2. prov[p] \in ProviderRecords
    BY TypedParts DEF Providers
  <2>3. /\ prov[p].state = "REGISTERED" /\ prov'[p].state = "REALIZING" /\ Len(prov') = Len(prov)
        /\ \A q \in Providers : q # p => prov'[q] = prov[q]
    BY <1>4, <2>2 DEF Starts, Changes, ProviderRecords
  <2>4. Adds(Len(stack), Realizing(p))
    BY <1>4 DEF Starts
  <2> QED BY <2>1, <2>3, <2>4, RunningAdds DEF Providers
<1>5. CASE Runs \/ RunsRemoval
  <2>1. stack # <<>> /\ Top.kind \in {"realize", "removed"} /\ Continues
    BY <1>5 DEF Runs, RunsRemoval, On
  <2>2. Top.p \in Providers
    BY <2>1, TopTyped DEF FrameTyped, Providers
  <2>3. StatesStay
    BY <1>5, <2>2, GetsState DEF Runs, RunsRemoval
  <2> QED BY <2>1, <2>3, RestSame, RunningStays
<1>6. CASE Visits
  <2>1. stack # <<>> /\ Head(Top.todo) \in Providers /\ Continues
    BY <1>6, TopTyped DEF Visits, FrameTyped, Providers
  <2>2. StatesStay
    BY <1>6, <2>1, GetsState DEF Visits
  <2> QED BY <2>1, <2>2, RestSame, RunningStays
<1>7. CASE FreezePasses
  BY <1>1, <1>7, RestSame, RunningStays DEF FreezePasses, On
<1>8. CASE EndsWalk \/ FreezeReturns
  <2>1. stack # <<>> /\ Top.kind # "realize" /\ AddsNone(Below) /\ UNCHANGED prov
    BY <1>8 DEF EndsWalk, FreezeReturns, FreezeEnds, On, Walks
  <2> QED BY <1>1, <2>1, NoRealizeSame, RunningStays
<1>9. CASE Turns
  <2>1. PICK n \in {Len(stack), Below} :
           (n = Below => stack # <<>> /\ Top.kind \in Mute \cup {"removed"}) /\ AddsNone(n)
    BY <1>9 DEF Turns
  <2>2. n = Below => stack # <<>> /\ Top.kind # "realize"
    BY <2>1 DEF Mute
  <2>3. UNCHANGED prov
    BY <1>9 DEF Turns
  <2> QED BY <1>1, <2>1, <2>2, <2>3, NoRealizeSame, RunningStays
<1>10. CASE FreezeStarts
  <2>1. PICK f : f.kind # "realize" /\ Adds(Len(stack), f)
    BY <1>10 DEF FreezeStarts, Frame
  <2> QED BY <1>1, <1>3, <1>10, <2>1, NoRealizeSame, RunningStays DEF FreezeStarts
<1>11. CASE FreezeMoves
  <2>1. stack # <<>> /\ Top.kind = "freeze" /\ Top \in Frames
    BY <1>11, TopTyped DEF FreezeMoves, On
  <2>2. \E f : f.kind # "realize" /\ Adds(Below, f)
    BY <1>11, <2>1 DEF FreezeMoves, Frames
  <2> QED BY <1>1, <1>11, <2>1, <2>2, NoRealizeSame, RunningStays DEF FreezeMoves
<1>12. ASSUME NEW c \in Containers, NEW p \in Providers, Configures(c, p) PROVE Running(stack', prov')
  <2>1. StatesStay
    BY <1>12, GetsState DEF Configures
  <2> QED BY <1>3, <1>12, <2>1, NoRealizeSame, RunningStays DEF Configures
<1>13. ASSUME NEW c \in Containers, NEW p \in Nat, NEW own \in BOOLEAN, Registers(c, p, own)
       PROVE  Running(stack', prov')
  <2>1. /\ p = Len(prov) + 1 /\ Len(prov') = p
        /\ \A q \in Providers : prov'[q] = prov[q]
    BY <1>13 DEF Registers
  <2>2. CASE prov'[p].state = "REGISTERED" /\ AddsNone(Len(stack))
    <3>1. StatesStay
      BY <1>2, <2>1, <2>2 DEF StatesStay, Providers
    <3> QED BY <1>3, <2>2, <3>1, NoRealizeSame, RunningStays
  <2>3. ASSUME NEW f, f = [Frame("realize", p, c, 0, prov'[p].actions) EXCEPT !.size = Len(prov'[p].actions)],
               prov'[p].state = "REALIZING", Adds(Len(stack), f)
        PROVE  Running(stack', prov')
    <3>1. f.kind = "realize" /\ f.p = p
      BY <2>3 DEF Frame
    <3>2. p \in 1..Len(prov') /\ p \notin Providers /\ \A q \in 1..Len(prov') : q \in Providers \/ q = p
      BY <1>2, <2>1 DEF Providers
    <3> QED BY <2>1, <2>3, <3>1, <3>2, RunningAdds
  <2> QED BY <1>13, <2>2, <2>3 DEF Registers
<1>14. ASSUME NEW c \in Containers, NEW kind \in Walks, StartsWalk(kind, c) PROVE Running(stack', prov')
  <2>1. \E f : f.kind # "realize" /\ Adds(Len(stack), f)
    BY <1>14 DEF StartsWalk, Frame, Walks
  <2>2. UNCHANGED prov
    BY <1>14 DEF StartsWalk
  <2> QED BY <1>1, <1>3, <2>1, <2>2, NoRealizeSame, RunningStays
<1>15. ASSUME NEW c \in Containers, NEW i \in 1..Len(entries[c]), TakesOut(c, i) PROVE Running(stack', prov')
  <2>1. PICK n \in {Len(stack), Below} :
          /\ n = Below => On("clear")
          /\ \/ AddsNone(n)
             \/ Adds(n, [Frame("removed", entries[c][i], c, 0, onRemove[c]) EXCEPT !.size = Len(onRemove[c])])
    BY <1>15 DEF TakesOut
  <2>2. n = Below => stack # <<>> /\ Top.kind # "realize"
    BY <2>1 DEF On
  <2>3. AddsNone(n) \/ \E f : f.kind # "realize" /\ Adds(n, f)
    BY <2>1 DEF Frame
  <2>4. UNCHANGED prov
    BY <1>15 DEF TakesOut
  <2> QED BY <1>1, <2>2, <2>3, <2>4, NoRealizeSame, RunningStays
<1>16. ASSUME NEW c \in Containers, Listens(c) PROVE Running(stack', prov')
  BY <1>1, <1>3, <1>16, NoRealizeSame, RunningStays DEF Listens
<1> QED BY <1>4, <1>5, <1>6, <1>7, <1>8, <1>9, <1>10, <1>11, <1>12, <1>13, <1>14, <1>15, <1>16,
           RunningFinishes, RunningThrows DEF Step

LEMMA RunningAlways == Spec => []Running(stack, prov)
<1>1. Init => Running(stack, prov)
  <2> SUFFICES ASSUME Init PROVE Running(stack, prov)
    OBVIOUS
  <2>1. Len(stack) = 0 /\ Len(prov) = 0
    BY DEF Init
  <2> QED BY <2>1 DEF Running, Realizes
<1>2. Typed /\ Running(stack, prov) /\ [Next]_vars => Running(stack, prov)'
  <2> SUFFICES ASSUME Typed, Running(stack, prov), [Next]_vars PROVE Running(stack', prov')
    OBVIOUS
  <2>1. CASE Next
    BY <2>1, NextSteps, StepRunning
  <2>2. CASE UNCHANGED vars
    BY <2>2 DEF vars
  <2> QED BY <2>1, <2>2
<1> QED BY <1>1, <1>2, TypedAlways, PTL DEF Spec

\* An exception never leaves a provider REALIZING: one is, exactly while its get()
\* is running.
THEOREM RealizingIsRunningHolds == Spec => []RealizingIsRunning
<1>1. Typed /\ Running(stack, prov) => RealizingIsRunning
  <2> SUFFICES ASSUME Typed, Running(stack, prov) PROVE RealizingIsRunning
    OBVIOUS
  <2>1. Len(stack) \in Nat /\ DOMAIN stack = 1..Len(stack)
    BY TypedParts
  <2>2. \A i \in Nat : Realizes(stack, i) <=> i \in DOMAIN stack /\ stack[i].kind = "realize"
    BY <2>1 DEF Realizes
  <2>3. DOMAIN stack \subseteq Nat
    BY <2>1
  <2> QED BY <2>2, <2>3 DEF Running, RealizingIsRunning, Providers
<1> QED BY <1>1, TypedAlways, RunningAlways, PTL

(***************************************************************************)
(* What every step leaves alone.                                           *)
(***************************************************************************)

\* Nothing makes a realized provider unrealized.
SettledStays == \A p \in Providers : prov[p].state = "REALIZED" => prov'[p].state = "REALIZED"

LEMMA StepSettled ==
    ASSUME Typed, Step
    PROVE  SettledStays
<1>1. \A p \in Providers : prov[p] \in ProviderRecords
  BY TypedParts DEF Providers
<1>2. ASSUME NEW p \in Providers, NEW a, Gets(p, a) \/ Applies(p, a) PROVE SettledStays
  BY <1>2, GetsState DEF StatesStay, SettledStays
<1>3. CASE Throws
  BY <1>3, <1>1 DEF Throws, SettledStays
<1>4. ASSUME NEW p \in Providers, Starts(p) PROVE SettledStays
  BY <1>4 DEF Starts, Changes, SettledStays
<1>5. CASE Finishes
  <2>1. Top.p \in Providers
    BY <1>5, TopTyped DEF Finishes, On, FrameTyped, Providers
  <2> QED BY <1>1, <1>5, <2>1 DEF Finishes, Changes, SettledStays, ProviderRecords
<1>6. CASE Runs \/ RunsRemoval
  <2>1. Top.p \in Providers
    BY <1>6, TopTyped DEF Runs, RunsRemoval, On, FrameTyped, Providers
  <2> QED BY <1>2, <1>6, <2>1 DEF Runs, RunsRemoval
<1>7. CASE Visits
  <2>1. Head(Top.todo) \in Providers
    BY <1>7, TopTyped DEF Visits, FrameTyped, Providers
  <2> QED BY <1>2, <1>7, <2>1 DEF Visits
<1>8. ASSUME NEW c \in Containers, NEW p \in Providers, Configures(c, p) PROVE SettledStays
  BY <1>2, <1>8 DEF Configures
<1>9. ASSUME NEW c \in Containers, NEW p \in Nat, NEW own \in BOOLEAN, Registers(c, p, own) PROVE SettledStays
  BY <1>9 DEF Registers, SettledStays
<1>10. ASSUME UNCHANGED prov PROVE SettledStays
  BY <1>10 DEF SettledStays
<1>11. UNCHANGED prov \/ Throws \/ Finishes \/ Runs \/ RunsRemoval \/ Visits
       \/ (\E p \in Providers : Starts(p))
       \/ \E c \in Containers : \/ \E p \in Providers : Configures(c, p)
                                \/ \E p \in Nat, own \in BOOLEAN : Registers(c, p, own)
  BY DEF Step, EndsWalk, Turns, FreezeStarts, FreezeMoves, FreezePasses, FreezeReturns, FreezeEnds,
         StartsWalk, TakesOut, Listens
<1> QED BY <1>3, <1>4, <1>5, <1>6, <1>7, <1>8, <1>9, <1>10, <1>11

EntriesShrink == \A c \in Containers : ToSet(entries'[c]) \subseteq ToSet(entries[c])

\* Only a registration puts an object into a container.
LEMMA StepShrinks ==
    ASSUME Typed, Step
    PROVE  EntriesShrink \/ \E c \in Containers, p \in Nat, own \in BOOLEAN : Registers(c, p, own)
<1>1. ASSUME NEW c \in Containers, NEW i \in 1..Len(entries[c]), TakesOut(c, i) PROVE EntriesShrink
  <2>1. entries[c] \in Seq(Providers) /\ IsInjective(entries[c])
    BY TypedParts, EntriesApart
  <2>2. ToSet(RemoveAt(entries[c], i)) \subseteq ToSet(entries[c])
    BY <2>1, RemoveAtKeeps
  <2>3. entries \in [Containers -> Seq(Providers)]
    BY TypedParts
  <2>4. entries' = [entries EXCEPT ![c] = RemoveAt(@, i)]
    BY <1>1 DEF TakesOut
  <2> QED BY <2>2, <2>3, <2>4 DEF EntriesShrink
<1>2. ASSUME UNCHANGED entries PROVE EntriesShrink
  BY <1>2 DEF EntriesShrink
<1>3. UNCHANGED entries
      \/ \E c \in Containers : \/ \E i \in 1..Len(entries[c]) : TakesOut(c, i)
                               \/ \E p \in Nat, own \in BOOLEAN : Registers(c, p, own)
  <2>1. UNCHANGED otherVars => UNCHANGED entries
    BY DEF otherVars
  <2> QED BY <2>1 DEF Step, Throws, Starts, Runs, Finishes, Visits, RunsRemoval, EndsWalk, Turns, FreezeStarts,
             FreezeMoves, FreezePasses, FreezeReturns, FreezeEnds, Configures, StartsWalk, Listens
<1> QED BY <1>1, <1>2, <1>3

\* The frames of the new stack are old ones, mute ones and the one that came.
LEMMA FramesAmong ==
    ASSUME Typed, NEW G, NEW n,
           \A i \in 1..n : stack[i] \in G,
           \A f \in Frames : f.kind \in Mute => f \in G,
           AddsNone(n) \/ \E f \in G : Adds(n, f)
    PROVE  \A i \in 1..Len(stack') : stack'[i] \in G
<1>1. stack' \in Seq(Frames) /\ n \in 0..Len(stack) /\ n <= Len(stack') /\ Len(stack) \in Nat /\ Len(stack') \in Nat
  BY TypedParts DEF AddsNone, Adds
<1>2. \A i \in 1..n : stack'[i] = stack[i]
  BY DEF AddsNone, Adds
<1>3. \A i \in n + 1..Len(stack') : stack'[i].kind \in Mute \/ stack'[i] \in G
  BY DEF AddsNone, Adds
<1>4. \A i \in 1..Len(stack') : stack'[i] \in Frames /\ (i \in 1..n \/ i \in n + 1..Len(stack'))
  BY <1>1
<1> QED BY <1>2, <1>3, <1>4

(***************************************************************************)
(* Freezing.  What freeze has passed is realized and what it has not       *)
(* passed is still before it, unless closures register objects.            *)
(***************************************************************************)

Quiet == "register" \notin program.body

\* Of frame f, with program g, containers ms, their entries es and providers ps.
FreezeOK(f, g, ms, es, ps) ==
    f.kind = "freeze" =>
        /\ f.size <= Len(ms) /\ f.at <= f.size
        /\ "register" \notin g.body => \A c \in Containers : \A p \in ToSet(es[c]) :
              \E i \in 1..f.size :
                 /\ ms[i] = c
                 /\ i <= f.at => p \in ToSet(f.todo) \/ ps[p].state = "REALIZED"

Freezing ==
    /\ \A c \in Containers : entries[c] # <<>> => c \in ToSet(made)
    /\ \A i \in 1..Len(stack) : FreezeOK(stack[i], program, made, entries, prov)
    /\ \A c \in frozen : locked[c] /\ (Quiet => \A p \in ToSet(entries[c]) : prov[p].state = "REALIZED")

\* A closure registers nothing while it is quiet.
LEMMA QuietRegisters ==
    ASSUME Quiet, NEW c, NEW p, NEW own, Registers(c, p, own)
    PROVE  stack = <<>> /\ ~locked[c]
  BY DEF Quiet, Registers, Callable

LEMMA EntriesAreProviders ==
    ASSUME Typed, NEW c \in Containers
    PROVE  /\ ToSet(entries[c]) \subseteq Providers
           /\ entries[c] # <<>> <=> ToSet(entries[c]) # {}
<1>1. entries[c] \in Seq(Providers)
  BY TypedParts
<1>2. DOMAIN entries[c] = 1..Len(entries[c]) /\ Len(entries[c]) \in Nat
      /\ \A i \in 1..Len(entries[c]) : entries[c][i] \in Providers
  BY <1>1
<1>3. entries[c] # <<>> => 1 \in DOMAIN entries[c]
  BY <1>1
<1>4. entries[c] = <<>> => DOMAIN entries[c] = {}
  OBVIOUS
<1> QED BY <1>2, <1>3, <1>4 DEF ToSet

\* A frame that stays on the stack stays right.
LEMMA FreezeStays ==
    ASSUME Typed, Step, NEW f \in Frames, FreezeOK(f, program, made, entries, prov), stack # <<>>
    PROVE  FreezeOK(f, program', made', entries', prov')
<1> SUFFICES ASSUME f.kind = "freeze" PROVE FreezeOK(f, program', made', entries', prov')
  BY DEF FreezeOK, Quiet
<1>1. /\ program' = program
      /\ Len(made) \in Nat /\ Len(made') \in Nat /\ Len(made) <= Len(made')
      /\ \A i \in 1..Len(made) : made'[i] = made[i]
  BY StepGrows, TypedParts DEF Grows, MadeGrows
<1>2. f.size \in Nat /\ f.at \in Nat /\ f.size <= Len(made) /\ f.at <= f.size
  BY DEF FreezeOK, Frames
<1>3. ASSUME Quiet', NEW c \in Containers, NEW p \in ToSet(entries'[c])
      PROVE  \E i \in 1..f.size : made'[i] = c /\ (i <= f.at => p \in ToSet(f.todo) \/ prov'[p].state = "REALIZED")
  <2>1. Quiet
    BY <1>1, <1>3 DEF Quiet
  <2>2. EntriesShrink
    BY <2>1, StepShrinks, QuietRegisters
  <2>3. p \in ToSet(entries[c]) /\ p \in Providers
    BY <2>2, EntriesAreProviders DEF EntriesShrink
  <2>4. PICK i \in 1..f.size : made[i] = c /\ (i <= f.at => p \in ToSet(f.todo) \/ prov[p].state = "REALIZED")
    BY <2>1, <2>3 DEF FreezeOK, Quiet
  <2>5. made'[i] = c
    BY <1>1, <1>2, <2>4
  <2> QED BY <2>3, <2>4, <2>5, StepSettled DEF SettledStays
<1> QED BY <1>1, <1>2, <1>3 DEF FreezeOK, Quiet

LEMMA FreezingFrames ==
    ASSUME Typed, Step, Freezing
    PROVE  \A i \in 1..Len(stack') : FreezeOK(stack'[i], program', made', entries', prov')
<1> DEFINE G == {f \in Frames : FreezeOK(f, program', made', entries', prov')}
<1>0. stack \in Seq(Frames) /\ Len(stack) \in Nat /\ Below = Len(stack) - 1
  BY TypedParts DEF Typed, Below
<1>1. \A f \in Frames : f.kind # "freeze" => f \in G
  BY DEF FreezeOK, Quiet
<1>2. \A i \in 1..Len(stack) : stack[i] \in G
  <2> SUFFICES ASSUME NEW i \in 1..Len(stack) PROVE stack[i] \in G
    OBVIOUS
  <2>1. stack[i] \in Frames /\ FreezeOK(stack[i], program, made, entries, prov) /\ stack # <<>>
    BY <1>0 DEF Freezing
  <2> QED BY <2>1, FreezeStays
<1>3. \A f \in Frames : f.kind \in Mute => f \in G
  BY <1>1 DEF Mute
<1> SUFFICES \A i \in 1..Len(stack') : stack'[i] \in G
  OBVIOUS
<1> HIDE DEF G
<1>4. ASSUME NEW n \in Nat, AddsNone(n) \/ \E f \in G : Adds(n, f)
      PROVE  \A i \in 1..Len(stack') : stack'[i] \in G
  <2>1. \A i \in 1..n : stack[i] \in G
    BY <1>0, <1>2, <1>4 DEF AddsNone, Adds
  <2> QED BY <1>3, <1>4, <2>1, FramesAmong
<1>5. ASSUME NEW n, AddsNone(n) PROVE n \in Nat
  BY <1>0, <1>5 DEF AddsNone
<1>6. ASSUME NEW n, NEW f, Adds(n, f) PROVE n \in Nat /\ f \in Frames
  BY <1>0, <1>6 DEF Adds
<1>7. ASSUME NEW n, AddsNone(n) \/ \E f : f.kind # "freeze" /\ Adds(n, f)
      PROVE  \A i \in 1..Len(stack') : stack'[i] \in G
  <2>1. n \in Nat /\ \A f : Adds(n, f) => f \in Frames
    BY <1>5, <1>6, <1>7
  <2> QED BY <1>1, <1>4, <1>7, <2>1
<1>8. CASE Throws
  <2>1. stack' = <<>>
    BY <1>8, Zenon DEF Throws
  <2> QED BY <2>1
<1>9. ASSUME NEW p \in Providers, Starts(p) PROVE \A i \in 1..Len(stack') : stack'[i] \in G
  <2>1. Realizing(p).kind # "freeze" /\ Adds(Len(stack), Realizing(p))
    BY <1>9 DEF Starts, Realizing, Frame
  <2> QED BY <1>7, <2>1
<1>10. CASE Runs \/ Visits \/ RunsRemoval
  <2>1. stack # <<>> /\ Top.kind # "freeze" /\ Adds(Below, Rest)
    BY <1>10 DEF Runs, Visits, RunsRemoval, Continues, On, Walks
  <2>2. Rest.kind # "freeze"
    BY <2>1, TopTyped DEF Rest, Frames
  <2> QED BY <1>7, <2>1, <2>2
<1>11. CASE Finishes \/ EndsWalk \/ Turns \/ FreezeReturns
  <2>1. PICK n : AddsNone(n)
    BY <1>11 DEF Finishes, EndsWalk, Turns, FreezeReturns
  <2> QED BY <1>7, <2>1
<1>12. CASE FreezeStarts
  <2> DEFINE f == [Frame("freeze", 0, AnyContainer, 0, <<>>) EXCEPT !.size = Len(made)]
  <2>1. Adds(Len(stack), f) /\ UNCHANGED <<otherVars, prov>>
    BY <1>12 DEF FreezeStarts
  <2>2. f.size = Len(made) /\ f.at = 0
    BY DEF Frame
  <2>3. Len(made) \in Nat /\ DOMAIN made = 1..Len(made)
    BY TypedParts
  <2>4. made' = made /\ entries' = entries
    BY <2>1 DEF otherVars
  <2>5. \A c \in Containers : \A p \in ToSet(entries[c]) : \E i \in 1..Len(made) : made[i] = c
    BY <2>3, EntriesAreProviders DEF Freezing, ToSet
  <2> HIDE DEF f
  <2>6. FreezeOK(f, program', made', entries', prov')
    BY <2>2, <2>3, <2>4, <2>5 DEF FreezeOK, Quiet
  <2> QED BY <1>4, <1>6, <2>1, <2>6 DEF G
<1>13. CASE FreezeMoves
  <2> DEFINE f == [Top EXCEPT !.at = @ + 1, !.todo = entries[made[Top.at + 1]]]
  <2>1. Adds(Below, f) /\ UNCHANGED <<otherVars, prov>> /\ Top.kind = "freeze" /\ Top.todo = <<>> /\ Top.at < Top.size
        /\ stack # <<>>
    BY <1>13 DEF FreezeMoves, On
  <2>2. /\ Top \in Frames /\ Top.at \in Nat /\ Top.size \in Nat /\ FreezeOK(Top, program, made, entries, prov)
    <3>1. Top = stack[Len(stack)] /\ Len(stack) \in 1..Len(stack) /\ Top \in Frames
      BY <1>0, <2>1, TopTyped
    <3>2. FreezeOK(Top, program, made, entries, prov)
      BY <3>1 DEF Freezing
    <3> QED BY <3>1, <3>2 DEF Frames
  <2>3. f.kind = Top.kind /\ f.at = Top.at + 1 /\ f.size = Top.size /\ f.todo = entries[made[Top.at + 1]]
    BY <2>2 DEF Frames
  <2> HIDE DEF f
  <2>4. made' = made /\ entries' = entries /\ program' = program /\ prov' = prov
    BY <2>1 DEF otherVars
  <2>5. f.size <= Len(made) /\ f.at <= f.size
    BY <2>1, <2>2, <2>3 DEF FreezeOK, Quiet
  <2>6. ASSUME Quiet, NEW c \in Containers, NEW p \in ToSet(entries[c])
        PROVE  \E i \in 1..f.size : made[i] = c /\ (i <= f.at => p \in ToSet(f.todo) \/ prov[p].state = "REALIZED")
    <3>1. PICK i \in 1..Top.size : made[i] = c /\ (i <= Top.at => p \in ToSet(Top.todo) \/ prov[p].state = "REALIZED")
      BY <2>1, <2>2, <2>6 DEF FreezeOK, Quiet
    <3>2. p \notin ToSet(Top.todo)
      BY <2>1 DEF ToSet
    <3>3. i = Top.at + 1 => p \in ToSet(f.todo)
      BY <2>3, <2>6, <3>1
    <3>4. i <= f.at => i <= Top.at \/ i = Top.at + 1
      BY <2>2, <2>3
    <3> QED BY <2>3, <3>1, <3>2, <3>3, <3>4
  <2>7. FreezeOK(f, program', made', entries', prov')
    BY <2>4, <2>5, <2>6 DEF FreezeOK, Quiet
  <2> QED BY <1>4, <1>6, <2>1, <2>7 DEF G
<1>14. CASE FreezePasses
  <2>1. Adds(Below, Rest) /\ UNCHANGED <<otherVars, prov>> /\ Top.kind = "freeze" /\ Top.todo # <<>>
        /\ stack # <<>> /\ prov[Head(Top.todo)].state = "REALIZED"
    BY <1>14 DEF FreezePasses, On, Continues
  <2>2. /\ Top \in Frames /\ FreezeOK(Top, program, made, entries, prov) /\ Top.todo \in Seq(Nat)
    <3>1. Top = stack[Len(stack)] /\ Len(stack) \in 1..Len(stack) /\ Top \in Frames
      BY <1>0, <2>1, TopTyped
    <3>2. FreezeOK(Top, program, made, entries, prov)
      BY <3>1 DEF Freezing
    <3> QED BY <3>1, <3>2 DEF Frames
  <2>3. Rest.kind = Top.kind /\ Rest.at = Top.at /\ Rest.size = Top.size /\ Rest.todo = Tail(Top.todo)
    BY <2>2 DEF Frames, Rest
  <2>4. made' = made /\ entries' = entries /\ program' = program /\ prov' = prov
    BY <2>1 DEF otherVars
  <2>5. ToSet(Top.todo) = {Head(Top.todo)} \cup ToSet(Rest.todo)
    BY <2>1, <2>2, <2>3, TailKeeps
  <2>6. FreezeOK(Rest, program, made, entries, prov)
    BY <2>1, <2>2, <2>3, <2>5 DEF FreezeOK, Quiet
  <2>7. FreezeOK(Rest, program', made', entries', prov')
    BY <2>4, <2>6 DEF FreezeOK, Quiet
  <2> QED BY <1>4, <1>6, <2>1, <2>7 DEF G
<1>15. ASSUME NEW c \in Containers, NEW p \in Nat, NEW own \in BOOLEAN, Registers(c, p, own)
       PROVE  \A i \in 1..Len(stack') : stack'[i] \in G
  <2>1. \A todo, size : [Frame("realize", p, c, 0, todo) EXCEPT !.size = size].kind # "freeze"
    BY DEF Frame
  <2> QED BY <1>7, <1>15, <2>1 DEF Registers
<1>16. ASSUME NEW c \in Containers, NEW kind \in Walks, StartsWalk(kind, c)
       PROVE  \A i \in 1..Len(stack') : stack'[i] \in G
  <2>1. Frame(kind, 0, c, Fresh, entries[c]).kind # "freeze"
    BY DEF Frame, Walks
  <2> QED BY <1>7, <1>16, <2>1 DEF StartsWalk
<1>17. ASSUME NEW c \in Containers, NEW i \in 1..Len(entries[c]), TakesOut(c, i)
       PROVE  \A j \in 1..Len(stack') : stack'[j] \in G
  <2>1. \A p, todo, size : [Frame("removed", p, c, 0, todo) EXCEPT !.size = size].kind # "freeze"
    BY DEF Frame
  <2> QED BY <1>7, <1>17, <2>1 DEF TakesOut
<1>18. ASSUME NEW c \in Containers, Listens(c) \/ \E p \in Providers : Configures(c, p)
       PROVE  \A j \in 1..Len(stack') : stack'[j] \in G
  BY <1>7, <1>18 DEF Listens, Configures
<1> QED BY <1>8, <1>9, <1>10, <1>11, <1>12, <1>13, <1>14, <1>15, <1>16, <1>17, <1>18 DEF Step

LEMMA StepFreezing ==
    ASSUME Typed, Step, Freezing
    PROVE  Freezing'
<1>1. \A c \in Containers : entries'[c] # <<>> => c \in ToSet(made')
  <2>1. entries' \in [Containers -> Seq(1..Len(prov'))]
    BY StepEntries DEF EntriesTyped
  <2>2. ASSUME NEW c \in Containers, entries'[c] # <<>> PROVE ToSet(entries'[c]) # {}
    <3>1. entries'[c] \in Seq(1..Len(prov'))
      BY <2>1
    <3>2. entries'[c][1] \in ToSet(entries'[c])
      BY <2>2, <3>1 DEF ToSet
    <3> QED BY <3>2
  <2>3. ToSet(made) \subseteq ToSet(made')
    <3>1. /\ \A i \in 1..Len(made) : made'[i] = made[i] /\ i \in 1..Len(made')
          /\ DOMAIN made = 1..Len(made) /\ DOMAIN made' = 1..Len(made')
      BY StepGrows, TypedParts DEF Grows, MadeGrows
    <3> QED BY <3>1 DEF ToSet
  <2>4. CASE EntriesShrink
    <3> SUFFICES ASSUME NEW c \in Containers, entries'[c] # <<>> PROVE c \in ToSet(made')
      OBVIOUS
    <3>1. ToSet(entries[c]) # {}
      BY <2>2, <2>4 DEF EntriesShrink
    <3> QED BY <2>3, <3>1, EntriesAreProviders DEF Freezing
  <2>5. ASSUME NEW c \in Containers, NEW p \in Nat, NEW own \in BOOLEAN, Registers(c, p, own)
        PROVE  \A d \in Containers : entries'[d] # <<>> => d \in ToSet(made')
    <3>1. c \in ToSet(made') /\ \A d \in Containers : d # c => entries'[d] = entries[d]
      BY <2>5, TypedParts DEF Registers
    <3> QED BY <2>3, <3>1 DEF Freezing
  <2> QED BY <2>4, <2>5, StepShrinks
<1>2. \A i \in 1..Len(stack') : FreezeOK(stack'[i], program', made', entries', prov')
  BY FreezingFrames
<1>3. \A c \in Containers : locked[c] => locked'[c]
  <2>1. UNCHANGED locked => \A c \in Containers : locked[c] => locked'[c]
    OBVIOUS
  <2>2. UNCHANGED locked \/ Turns \/ FreezeReturns
    <3>1. UNCHANGED otherVars => UNCHANGED locked
      BY DEF otherVars
    <3> QED BY <3>1 DEF Step, Throws, Starts, Runs, Finishes, Visits, RunsRemoval, EndsWalk, FreezeStarts,
               FreezeMoves, FreezePasses, Configures, Registers, StartsWalk, TakesOut, Listens
  <2> QED BY <2>1, <2>2 DEF Turns, FreezeReturns, FreezeEnds
<1>4. UNCHANGED frozen \/ FreezeReturns
  <2>1. UNCHANGED otherVars => UNCHANGED frozen
    BY DEF otherVars
  <2> QED BY <2>1 DEF Step, Throws, Starts, Runs, Finishes, Visits, RunsRemoval, EndsWalk, Turns, FreezeStarts,
             FreezeMoves, FreezePasses, Configures, Registers, StartsWalk, TakesOut, Listens
<1>5. frozen \subseteq Containers /\ program' = program
  BY StepGrows DEF Grows, Typed, TypeOK
<1>6. CASE UNCHANGED frozen
  <2> SUFFICES ASSUME NEW c \in frozen
               PROVE  locked'[c] /\ (Quiet => \A p \in ToSet(entries'[c]) : prov'[p].state = "REALIZED")
    BY <1>1, <1>2, <1>5, <1>6 DEF Freezing, Quiet
  <2>1. locked'[c] /\ locked[c] /\ c \in Containers
    BY <1>3, <1>5 DEF Freezing
  <2>2. ToSet(entries'[c]) \subseteq ToSet(entries[c])
    <3>1. ASSUME NEW d \in Containers, NEW p \in Nat, NEW own \in BOOLEAN, Registers(d, p, own)
          PROVE  entries'[c] = entries[c]
      BY <2>1, <3>1, TypedParts DEF Registers
    <3> QED BY <2>1, <3>1, StepShrinks DEF EntriesShrink
  <2>3. \A p \in ToSet(entries[c]) : p \in Providers
    BY <2>1, EntriesAreProviders
  <2> QED BY <2>1, <2>2, <2>3, StepSettled DEF Freezing, SettledStays
<1>7. CASE FreezeReturns
  <2>1. /\ Top.kind = "freeze" /\ Top.todo = <<>> /\ Top.at = Top.size /\ stack # <<>>
        /\ locked' = [c \in Containers |-> locked[c] \/ c \in ToSet(made)]
        /\ frozen' = frozen \cup ToSet(made)
        /\ UNCHANGED <<program, entries, prov>>
    BY <1>7 DEF FreezeReturns, FreezeEnds, On
  <2>2. FreezeOK(Top, program, made, entries, prov) /\ Top.at \in Nat
    <3>1. Top = stack[Len(stack)] /\ Len(stack) \in 1..Len(stack) /\ Top \in Frames
      BY <2>1, TopTyped, TypedParts
    <3>2. FreezeOK(Top, program, made, entries, prov)
      BY <3>1 DEF Freezing
    <3> QED BY <3>1, <3>2 DEF Frames
  <2>3. ASSUME Quiet, NEW c \in Containers, NEW p \in ToSet(entries[c]) PROVE prov[p].state = "REALIZED"
    <3>1. PICK i \in 1..Top.size : i <= Top.at => p \in ToSet(Top.todo) \/ prov[p].state = "REALIZED"
      BY <2>1, <2>2, <2>3 DEF FreezeOK, Quiet
    <3>2. p \notin ToSet(Top.todo)
      BY <2>1 DEF ToSet
    <3> QED BY <2>1, <2>2, <3>1, <3>2
  <2>4. ToSet(made) \subseteq Containers
    BY TypedParts DEF ToSet
  <2>5. \A c \in frozen' : c \in Containers /\ locked'[c]
    BY <1>5, <2>1, <2>4 DEF Freezing
  <2>6. Quiet' => \A c \in frozen' : \A p \in ToSet(entries'[c]) : prov'[p].state = "REALIZED"
    BY <2>1, <2>3, <2>5 DEF Quiet
  <2> QED BY <1>1, <1>2, <2>5, <2>6 DEF Freezing
<1> QED BY <1>4, <1>6, <1>7

\* A freeze that returned has realized what it locked, unless closures register
\* objects while it walks.
THEOREM FrozenIsRealizedHolds == Spec => []FrozenIsRealized
<1>1. Init => Freezing
  <2> SUFFICES ASSUME Init PROVE Freezing
    OBVIOUS
  <2>1. Len(stack) = 0 /\ frozen = {} /\ \A c \in Containers : entries[c] = <<>>
    BY DEF Init
  <2> QED BY <2>1 DEF Freezing
<1>2. Typed /\ Freezing /\ [Next]_vars => Freezing'
  <2> SUFFICES ASSUME Typed, Freezing, [Next]_vars PROVE Freezing'
    OBVIOUS
  <2>1. CASE Next
    BY <2>1, NextSteps, StepFreezing
  <2>2. CASE UNCHANGED vars
    BY <2>2 DEF vars, otherVars, Freezing, FreezeOK, Quiet
  <2> QED BY <2>1, <2>2
<1>3. Freezing => FrozenIsRealized
  BY DEF Freezing, FrozenIsRealized, Quiet
<1> QED BY <1>1, <1>2, <1>3, TypedAlways, PTL DEF Spec

(***************************************************************************)
(* What a step puts on the stack, and what it does to a provider.          *)
(***************************************************************************)

Goes == Runs \/ Visits \/ RunsRemoval \/ FreezePasses

\* A frame that the step makes.
Made(f) ==
    \/ f.kind = "freeze"
    \/ /\ f.kind = "realize" /\ f.p \in 1..Len(prov')
       /\ f.todo = prov'[f.p].actions /\ f.size = Len(f.todo)
       /\ prov'[f.p].state = "REALIZING" /\ prov'[f.p].applied = <<>>
       /\ \/ f.p \in Providers /\ Starts(f.p)
          \/ \E c \in Containers, own \in BOOLEAN : Registers(c, f.p, own)
    \/ f.kind \in Walks /\ f.a = Fresh /\ f.todo = entries[f.c] /\ StartsWalk(f.kind, f.c)
    \/ /\ f.kind = "removed" /\ f.todo = onRemove[f.c] /\ f.p \in Providers /\ prov[f.p].state = "REALIZED"
       /\ \E i \in 1..Len(entries[f.c]) : f.p = entries[f.c][i] /\ TakesOut(f.c, i)

\* The first n frames stay; of the others all but the k-th are mute.
Stack(n, k) ==
    /\ \A i \in 1..n : i \in 1..Len(stack) /\ stack'[i] = stack[i]
    /\ \A i \in 1..Len(stack') : i \in 1..n \/ stack'[i].kind \in Mute \/ i = k
    /\ k \in 1..Len(stack') =>
          /\ k > n
          /\ (Goes /\ n = Below /\ stack'[k] = Rest) \/ Made(stack'[k])

LEMMA StepStack ==
    ASSUME Typed, Step
    PROVE  stack' \in Seq(Frames) /\ \E n, k \in Nat : Stack(n, k)
<1> DEFINE Is == \E n, k \in Nat : Stack(n, k)
<1>0. Len(stack) \in Nat
  BY TypedParts
<1>1. stack' \in Seq(Frames) /\ Len(stack') \in Nat
  BY StepFrames
<1>2. ASSUME NEW n, AddsNone(n)
      PROVE  Is
  <2>1. n \in 0..Len(stack) /\ (\A i \in 1..n : stack'[i] = stack[i])
        /\ \A i \in n + 1..Len(stack') : stack'[i].kind \in Mute
    BY <1>2 DEF AddsNone
  <2>2. \A i \in 1..Len(stack') : i \in 1..n \/ i \in n + 1..Len(stack')
    BY <1>0, <1>1, <2>1
  <2>3. (\A i \in 1..n : i \in 1..Len(stack)) /\ n \in Nat
    BY <1>0, <2>1
  <2>4. Stack(n, 0)
    BY <2>1, <2>2, <2>3 DEF Stack
  <2> QED BY <2>3, <2>4
<1>3. ASSUME NEW n, NEW f, Adds(n, f), (Goes /\ n = Below /\ f = Rest) \/ Made(f)
      PROVE  Is
  <2>1. n \in 0..Len(stack) /\ \A i \in 1..n : stack'[i] = stack[i]
    BY <1>3 DEF Adds
  <2>2. PICK k \in n + 1..Len(stack') :
           stack'[k] = f /\ \A i \in n + 1..Len(stack') : i # k => stack'[i].kind \in Mute
    BY <1>3 DEF Adds
  <2>3. \A i \in 1..Len(stack') : i \in 1..n \/ i \in n + 1..Len(stack')
    BY <1>0, <1>1, <2>1
  <2>4. (\A i \in 1..n : i \in 1..Len(stack)) /\ n \in Nat /\ k \in Nat /\ k > n
    BY <1>0, <1>1, <2>1, <2>2
  <2>5. Stack(n, k)
    BY <1>3, <2>1, <2>2, <2>3, <2>4 DEF Stack
  <2> QED BY <2>4, <2>5
<1> SUFFICES Is
  BY <1>1
<1> HIDE DEF Is
<1>4. CASE Throws
  <2>1. stack' = <<>> /\ Len(stack') = 0
    BY <1>4, Zenon DEF Throws
  <2>2. Stack(0, 0)
    BY <2>1 DEF Stack
  <2> QED BY <2>2 DEF Is
<1>5. ASSUME NEW p \in Providers, Starts(p) PROVE Is
  <2> DEFINE f == Realizing(p)
  <2>1. f.kind = "realize" /\ f.p = p /\ f.todo = prov[p].actions /\ f.size = Len(prov[p].actions)
    BY DEF Realizing, Frame
  <2>2. prov[p] \in ProviderRecords /\ Len(prov') = Len(prov)
        /\ prov'[p] = [prov[p] EXCEPT !.state = "REALIZING", !.applied = <<>>]
    BY <1>5, TypedParts DEF Starts, Changes, Providers
  <2>3. prov'[p].actions = prov[p].actions /\ prov'[p].state = "REALIZING" /\ prov'[p].applied = <<>>
    BY <2>2 DEF ProviderRecords
  <2>4. Adds(Len(stack), f)
    BY <1>5 DEF Starts
  <2> HIDE DEF f
  <2>5. Made(f)
    BY <1>5, <2>1, <2>2, <2>3 DEF Made, Providers
  <2> QED BY <1>3, <2>4, <2>5
<1>6. CASE Goes
  <2>1. Adds(Below, Rest)
    BY <1>6 DEF Goes, Runs, Visits, RunsRemoval, FreezePasses, Continues
  <2> QED BY <1>3, <1>6, <2>1
<1>7. CASE Finishes \/ EndsWalk \/ Turns \/ FreezeReturns
  BY <1>2, <1>7 DEF Finishes, EndsWalk, Turns, FreezeReturns
<1>8. CASE FreezeStarts
  <2>1. Made([Frame("freeze", 0, AnyContainer, 0, <<>>) EXCEPT !.size = Len(made)])
    BY DEF Made, Frame
  <2> QED BY <1>3, <1>8, <2>1 DEF FreezeStarts
<1>9. CASE FreezeMoves
  <2>1. Top \in Frames /\ Top.kind = "freeze"
    BY <1>9, TopTyped DEF FreezeMoves, On
  <2>2. Made([Top EXCEPT !.at = @ + 1, !.todo = entries[made[Top.at + 1]]])
    BY <2>1 DEF Made, Frames
  <2> QED BY <1>3, <1>9, <2>2 DEF FreezeMoves
<1>10. ASSUME NEW c \in Containers, NEW p \in Nat, NEW own \in BOOLEAN, Registers(c, p, own)
       PROVE  Is
  <2>1. p \in 1..Len(prov') /\ prov'[p].applied = <<>>
    BY <1>10, TypedParts DEF Registers
  <2>2. ASSUME NEW f, f = [Frame("realize", p, c, 0, prov'[p].actions) EXCEPT !.size = Len(prov'[p].actions)],
               prov'[p].state = "REALIZING"
        PROVE  Made(f)
    <3>1. f.kind = "realize" /\ f.p = p /\ f.todo = prov'[p].actions /\ f.size = Len(prov'[p].actions)
      BY <2>2 DEF Frame
    <3> QED BY <1>10, <2>1, <2>2, <3>1 DEF Made
  <2>3. \/ AddsNone(Len(stack))
        \/ /\ prov'[p].state = "REALIZING"
           /\ Adds(Len(stack), [Frame("realize", p, c, 0, prov'[p].actions) EXCEPT !.size = Len(prov'[p].actions)])
    BY <1>10 DEF Registers
  <2> QED BY <1>2, <1>3, <2>2, <2>3
<1>11. ASSUME NEW c \in Containers, NEW kind \in Walks, StartsWalk(kind, c)
       PROVE  Is
  <2> DEFINE f == Frame(kind, 0, c, Fresh, entries[c])
  <2>1. f.kind = kind /\ f.a = Fresh /\ f.c = c /\ f.todo = entries[c]
    BY DEF Frame
  <2>2. Adds(Len(stack), f)
    BY <1>11 DEF StartsWalk
  <2> HIDE DEF f
  <2>3. Made(f)
    BY <1>11, <2>1 DEF Made
  <2> QED BY <1>3, <2>2, <2>3
<1>12. ASSUME NEW c \in Containers, NEW i \in 1..Len(entries[c]), TakesOut(c, i)
       PROVE  Is
  <2>1. entries[c][i] \in Providers
    BY TypedParts
  <2>2. ASSUME NEW f, f = [Frame("removed", entries[c][i], c, 0, onRemove[c]) EXCEPT !.size = Len(onRemove[c])],
               prov[entries[c][i]].state = "REALIZED"
        PROVE  Made(f)
    <3>1. f.kind = "removed" /\ f.p = entries[c][i] /\ f.c = c /\ f.todo = onRemove[c]
      BY <2>2 DEF Frame
    <3> QED BY <1>12, <2>1, <2>2, <3>1 DEF Made
  <2>3. PICK n : \/ AddsNone(n)
                 \/ /\ prov[entries[c][i]].state = "REALIZED"
                    /\ Adds(n, [Frame("removed", entries[c][i], c, 0, onRemove[c]) EXCEPT !.size = Len(onRemove[c])])
    BY <1>12 DEF TakesOut
  <2> QED BY <1>2, <1>3, <2>2, <2>3
<1>13. ASSUME NEW c \in Containers, Listens(c) \/ \E p \in Providers : Configures(c, p)
       PROVE  Is
  BY <1>2, <1>13 DEF Listens, Configures
<1> QED BY <1>4, <1>5, <1>6, <1>7, <1>8, <1>9, <1>10, <1>11, <1>12, <1>13 DEF Step, Goes

NewFrame(f) == f.kind \in Mute \/ (Goes /\ f = Rest) \/ Made(f)

LEMMA StepFrame ==
    ASSUME Typed, Step, NEW i \in 1..Len(stack')
    PROVE  stack'[i] \in Frames /\ (NewFrame(stack'[i]) \/ (i \in 1..Len(stack) /\ stack'[i] = stack[i]))
<1>1. PICK n, k \in Nat : Stack(n, k)
  BY StepStack
<1>2. stack'[i] \in Frames
  BY StepStack
<1> QED BY <1>1, <1>2 DEF Stack, NewFrame

\* Removal actions run on realized values.
RemovesRealized(s, ps) ==
    \A i \in 1..Len(s) : s[i].kind = "removed" => s[i].p \in 1..Len(ps) /\ ps[s[i].p].state = "REALIZED"

LEMMA StepRemoves ==
    ASSUME Typed, RemovesRealized(stack, prov), Step
    PROVE  RemovesRealized(stack', prov')
<1> SUFFICES ASSUME NEW i \in 1..Len(stack'), stack'[i].kind = "removed"
             PROVE  stack'[i].p \in Providers /\ prov[stack'[i].p].state = "REALIZED"
  <2>1. Len(prov) \in Nat /\ Len(prov') \in Nat /\ Len(prov) <= Len(prov')
    BY StepGrows, TypedParts DEF Grows, ProvidersStay
  <2> QED BY <2>1, StepSettled DEF SettledStays, RemovesRealized, Providers
<1>1. CASE i \in 1..Len(stack) /\ stack'[i] = stack[i]
  BY <1>1 DEF RemovesRealized, Providers
<1>2. CASE NewFrame(stack'[i])
  <2>1. CASE Goes /\ stack'[i] = Rest
    <3>1. stack # <<>>
      BY <2>1 DEF Goes, Runs, Visits, RunsRemoval, FreezePasses, On
    <3>2. Top \in Frames /\ Top = stack[Len(stack)] /\ Len(stack) \in 1..Len(stack)
      BY <3>1, TopTyped
    <3>3. Rest.kind = Top.kind /\ Rest.p = Top.p
      BY <3>2 DEF Rest, Frames
    <3> QED BY <2>1, <3>2, <3>3 DEF RemovesRealized, Providers
  <2> QED BY <1>2, <2>1 DEF NewFrame, Made, Mute, Walks
<1> QED BY <1>1, <1>2, StepFrame

(***************************************************************************)
(* A provider in a step: its realization begins, goes on, ends or is       *)
(* undone, or an action is called on its value or kept for it.             *)
(***************************************************************************)

Began(p) ==
    /\ prov[p].state = "REGISTERED"
    /\ prov'[p] = [prov[p] EXCEPT !.state = "REALIZING", !.applied = <<>>]
Ran(p) ==
    /\ Runs /\ p = Top.p /\ prov[p].state = "REALIZING"
    /\ prov'[p] = [prov[p] EXCEPT !.applied = Append(@, Head(Top.todo))]
Ended(p) ==
    /\ Finishes /\ p = Top.p /\ prov[p].state = "REALIZING"
    /\ prov'[p] = [prov[p] EXCEPT !.state = "REALIZED"]
Given(p, a) ==
    \/ Visits /\ p = Head(Top.todo) /\ a = Top.a
    \/ \E c \in Containers : Configures(c, p) /\ a = Fresh
Called(p, a) ==
    /\ prov[p].state = "REALIZED"
    /\ prov'[p] = [prov[p] EXCEPT !.applied = Append(@, a)]
    /\ Given(p, a) \/ (RunsRemoval /\ p = Top.p /\ a = Head(Top.todo))
Kept(p, a) ==
    /\ prov[p].state # "REALIZED"
    /\ prov'[p] = [prov[p] EXCEPT !.actions = Append(@, a)]
    /\ Given(p, a)
Undone(p) ==
    /\ stack' = <<>> /\ prov[p].state = "REALIZING"
    /\ prov'[p] = [prov[p] EXCEPT !.state = "REGISTERED", !.applied = <<>>]

ProviderStep(p) ==
    \/ prov'[p] = prov[p]
    \/ Began(p) \/ Ran(p) \/ Ended(p) \/ Undone(p)
    \/ \E a \in Actions : Called(p, a) \/ Kept(p, a)

LEMMA ProviderSteps ==
    ASSUME Typed, Running(stack, prov), RemovesRealized(stack, prov), Step, NEW p \in Providers
    PROVE  ProviderStep(p)
<1>1. CASE UNCHANGED prov
  BY <1>1 DEF ProviderStep
<1>2. CASE Throws
  <2>1. stack' = <<>>
    BY <1>2, Zenon DEF Throws
  <2>2. prov'[p] = IF prov[p].state # "REALIZING" THEN prov[p]
                   ELSE [prov[p] EXCEPT !.state = "REGISTERED", !.applied = <<>>]
    BY <1>2, Zenon DEF Throws
  <2> QED BY <2>1, <2>2 DEF ProviderStep, Undone
<1>3. ASSUME NEW q \in Providers, Starts(q) PROVE ProviderStep(p)
  <2>1. p # q => prov'[p] = prov[p]
    BY <1>3 DEF Starts, Changes
  <2>2. Began(q)
    BY <1>3 DEF Starts, Changes, Began
  <2> QED BY <2>1, <2>2 DEF ProviderStep
<1>4. ASSUME stack # <<>>, Top.kind = "realize" PROVE prov[Top.p].state = "REALIZING"
  <2>1. Len(stack) \in Nat /\ Realizes(stack, Len(stack)) /\ Top = stack[Len(stack)]
    BY <1>4, TopTyped DEF Realizes
  <2> QED BY <2>1 DEF Running
<1>5. CASE Runs
  <2>1. p # Top.p => prov'[p] = prov[p]
    BY <1>5 DEF Runs, Applies, Changes
  <2>2. Ran(Top.p)
    <3>1. prov'[Top.p] = [prov[Top.p] EXCEPT !.applied = Append(@, Head(Top.todo))]
      BY <1>5 DEF Runs, Applies, Changes
    <3>2. prov[Top.p].state = "REALIZING"
      BY <1>4, <1>5 DEF Runs, On
    <3> QED BY <1>5, <3>1, <3>2 DEF Ran
  <2> QED BY <2>1, <2>2 DEF ProviderStep
<1>6. CASE Finishes
  <2>1. p # Top.p => prov'[p] = prov[p]
    BY <1>6 DEF Finishes, Changes
  <2>2. Ended(Top.p)
    BY <1>4, <1>6 DEF Finishes, Changes, Ended, On
  <2> QED BY <2>1, <2>2 DEF ProviderStep
<1>7. ASSUME NEW q \in Providers, NEW a \in Actions, Gets(q, a), Given(q, a) PROVE ProviderStep(p)
  <2>1. p # q => prov'[p] = prov[p]
    BY <1>7 DEF Gets, Applies, Changes
  <2>2. CASE prov[q].state = "REALIZED"
    <3>1. Applies(q, a) /\ Given(q, a)
      BY <1>7, <2>2 DEF Gets
    <3>2. prov'[q] = [prov[q] EXCEPT !.applied = Append(@, a)]
      BY <3>1 DEF Applies, Changes
    <3>3. Called(q, a)
      BY <2>2, <3>1, <3>2 DEF Called
    <3> QED BY <2>1, <3>3 DEF ProviderStep
  <2>3. CASE prov[q].state # "REALIZED"
    <3>1. Kept(q, a)
      BY <1>7, <2>3 DEF Gets, Changes, Kept
    <3> QED BY <2>1, <3>1 DEF ProviderStep
  <2> QED BY <2>2, <2>3
<1>8. CASE Visits
  <2>1. stack # <<>> /\ Top.kind \in Walks /\ Top.todo # <<>> /\ Gets(Head(Top.todo), Top.a)
    BY <1>8 DEF Visits
  <2>2. Top.a \in Actions /\ Head(Top.todo) \in Providers
    <3>1. Top.a \in 1..issued /\ Head(Top.todo) \in Providers
      BY <2>1, TopTyped DEF FrameTyped, Providers
    <3>2. 1..issued \subseteq Actions
      BY TypedParts, BoundsAssumption DEF Actions
    <3> QED BY <3>1, <3>2
  <2>3. Given(Head(Top.todo), Top.a)
    BY <1>8 DEF Given
  <2> QED BY <1>7, <2>1, <2>2, <2>3
<1>9. ASSUME NEW c \in Containers, NEW q \in Providers, Configures(c, q) PROVE ProviderStep(p)
  <2>1. Fresh \in Actions /\ Gets(q, Fresh) /\ Given(q, Fresh)
    BY <1>9, IssueIsAction DEF Configures, Given
  <2> QED BY <1>7, <2>1
<1>10. CASE RunsRemoval
  <2>1. stack # <<>> /\ Top.kind = "removed" /\ Top.todo # <<>> /\ Applies(Top.p, Head(Top.todo))
    BY <1>10 DEF RunsRemoval, On
  <2>2. p # Top.p => prov'[p] = prov[p]
    BY <2>1 DEF Applies, Changes
  <2>3. Top.todo \in Seq(Actions) /\ prov[Top.p].state = "REALIZED"
    BY <2>1, TopTyped DEF FrameTyped, RemovesRealized
  <2>4. Head(Top.todo) \in Actions
    BY <2>1, <2>3, TailKeeps
  <2>5. Called(Top.p, Head(Top.todo))
    BY <1>10, <2>1, <2>3 DEF Called, Applies, Changes
  <2> QED BY <2>2, <2>4, <2>5 DEF ProviderStep
<1>11. ASSUME NEW c \in Containers, NEW q \in Nat, NEW own \in BOOLEAN, Registers(c, q, own) PROVE ProviderStep(p)
  BY <1>11 DEF Registers, ProviderStep
<1>12. UNCHANGED prov \/ Throws \/ Finishes \/ Runs \/ RunsRemoval \/ Visits
       \/ (\E q \in Providers : Starts(q))
       \/ \E c \in Containers : \/ \E q \in Providers : Configures(c, q)
                                \/ \E q \in Nat, own \in BOOLEAN : Registers(c, q, own)
  BY DEF Step, EndsWalk, Turns, FreezeStarts, FreezeMoves, FreezePasses, FreezeReturns, FreezeEnds,
         StartsWalk, TakesOut, Listens
<1> QED BY <1>1, <1>2, <1>3, <1>5, <1>6, <1>8, <1>9, <1>10, <1>11, <1>12

\* A provider that is new was registered.
LEMMA NewProviders ==
    ASSUME Typed, Step, NEW p \in 1..Len(prov'), p \notin Providers
    PROVE  \E c \in Containers, own \in BOOLEAN : Registers(c, p, own)
<1>1. Len(prov') # Len(prov)
  BY DEF Providers
<1>2. \A q, r : Changes(q, r) => Len(prov') = Len(prov)
  BY DEF Changes
<1>3. \A q, a : Gets(q, a) \/ Applies(q, a) => Len(prov') = Len(prov)
  BY <1>2 DEF Gets, Applies
<1>4. Throws => Len(prov') = Len(prov)
  BY Zenon DEF Throws
<1>5. PICK c \in Containers, q \in Nat, own \in BOOLEAN : Registers(c, q, own)
  BY <1>1, <1>2, <1>3, <1>4 DEF Step, Starts, Runs, Finishes, Visits, RunsRemoval, EndsWalk, Turns, FreezeStarts,
     FreezeMoves, FreezePasses, FreezeReturns, FreezeEnds, Configures, StartsWalk, TakesOut, Listens
<1>6. q = p
  BY <1>5, TypedParts DEF Registers, Providers
<1> QED BY <1>5, <1>6

(***************************************************************************)
(* Order.  A realization has run a first part of the actions and has the   *)
(* rest before it, so a value that is realized has had them all.           *)
(***************************************************************************)

InOrder(r, todo, size) ==
    /\ Len(r.applied) + Len(todo) = size
    /\ size <= Len(r.actions)
    /\ \A i \in 1..Len(r.applied) : r.applied[i] = r.actions[i]
    /\ \A i \in 1..Len(todo) : todo[i] = r.actions[Len(r.applied) + i]

HasHadAll(r) ==
    r.state = "REALIZED" =>
        /\ Len(r.actions) <= Len(r.applied)
        /\ \A i \in 1..Len(r.actions) : r.applied[i] = r.actions[i]

Ordering(s, ps) ==
    /\ \A i \in 1..Len(s) : s[i].kind = "realize" => InOrder(ps[s[i].p], s[i].todo, s[i].size)
    /\ \A p \in 1..Len(ps) : HasHadAll(ps[p])

LEMMA InOrderRuns ==
    ASSUME NEW r \in ProviderRecords, NEW todo \in Seq(Actions), todo # <<>>, NEW size, InOrder(r, todo, size)
    PROVE  InOrder([r EXCEPT !.applied = Append(@, Head(todo))], Tail(todo), size)
<1> DEFINE n == Len(r.applied)
           u == Append(r.applied, Head(todo))
           t == Tail(todo)
           v == [r EXCEPT !.applied = u]
<1>1. r.applied \in Seq(Actions) /\ r.actions \in Seq(Actions) /\ n \in Nat /\ Len(r.actions) \in Nat
  BY DEF ProviderRecords
<1>2. /\ t \in Seq(Actions) /\ Len(t) = Len(todo) - 1 /\ Len(todo) \in Nat \ {0}
      /\ \A i \in 1..Len(todo) - 1 : t[i] = todo[i + 1]
      /\ Head(todo) = todo[1] /\ Head(todo) \in Actions
  BY TailKeeps
<1>3. /\ Len(u) = n + 1 /\ u[n + 1] = Head(todo)
      /\ \A i \in 1..n : u[i] = r.applied[i]
  BY <1>1, <1>2
<1>4. v.applied = u /\ v.actions = r.actions
  BY DEF ProviderRecords
<1> HIDE DEF u, t, v, n
<1>5. n + Len(todo) = size /\ size <= Len(r.actions)
      /\ (\A i \in 1..n : r.applied[i] = r.actions[i])
      /\ (\A i \in 1..Len(todo) : todo[i] = r.actions[n + i])
  BY DEF InOrder, n
<1>6. n + 1 + Len(t) = size
  BY <1>1, <1>2, <1>5
<1>7. \A i \in 1..n + 1 : u[i] = r.actions[i]
  BY <1>1, <1>2, <1>3, <1>5
<1>8. \A i \in 1..Len(t) : t[i] = r.actions[n + 1 + i]
  <2> SUFFICES ASSUME NEW i \in 1..Len(t) PROVE t[i] = r.actions[n + 1 + i]
    OBVIOUS
  <2>1. t[i] = todo[i + 1] /\ i + 1 \in 1..Len(todo)
    BY <1>2
  <2>2. todo[i + 1] = r.actions[n + (i + 1)] /\ n + (i + 1) = n + 1 + i
    BY <1>1, <1>2, <1>5, <2>1
  <2> QED BY <2>1, <2>2
<1>9. InOrder(v, t, size)
  BY <1>3, <1>4, <1>5, <1>6, <1>7, <1>8 DEF InOrder
<1> QED BY <1>9 DEF v, t, u

LEMMA StepOrdering ==
    ASSUME Typed, Running(stack, prov), RemovesRealized(stack, prov), Ordering(stack, prov), Step
    PROVE  Ordering(stack', prov')
<1>0. /\ Len(stack) \in Nat /\ Len(prov) \in Nat
      /\ \A p \in Providers : prov[p] \in ProviderRecords
  BY TypedParts DEF Providers
<1>1. Running(stack', prov')
  BY StepRunning
<1>2. ASSUME Runs
      PROVE  /\ InOrder(prov'[Top.p], Rest.todo, Rest.size) /\ Rest.p = Top.p /\ Rest.kind = "realize"
             /\ Len(stack) \in 1..Len(stack') /\ stack'[Len(stack)] = Rest
  <2>1. stack # <<>> /\ Top.kind = "realize" /\ Top.todo # <<>> /\ Applies(Top.p, Head(Top.todo)) /\ Continues
    BY <1>2 DEF Runs, On
  <2>2. Top \in Frames /\ Top = stack[Len(stack)] /\ Len(stack) \in 1..Len(stack)
        /\ FrameTyped(Top, Len(prov), issued)
    BY <2>1, TopTyped
  <2>3. Top.todo \in Seq(Actions) /\ Top.p \in Providers
    BY <2>1, <2>2 DEF FrameTyped, Providers
  <2>4. InOrder(prov[Top.p], Top.todo, Top.size)
    BY <2>1, <2>2 DEF Ordering
  <2>5. prov'[Top.p] = [prov[Top.p] EXCEPT !.applied = Append(@, Head(Top.todo))]
    BY <2>1 DEF Applies, Changes
  <2>6. InOrder(prov'[Top.p], Tail(Top.todo), Top.size)
    <3>1. prov[Top.p] \in ProviderRecords
      BY <1>0, <2>3
    <3>2. InOrder([prov[Top.p] EXCEPT !.applied = Append(@, Head(Top.todo))], Tail(Top.todo), Top.size)
      BY ONLY <2>1, <2>3, <2>4, <3>1, InOrderRuns
    <3> QED BY <2>5, <3>2
  <2>7. Rest.todo = Tail(Top.todo) /\ Rest.size = Top.size /\ Rest.p = Top.p /\ Rest.kind = Top.kind
    BY <2>2 DEF Rest, Frames
  <2>8. Len(stack) <= Len(stack') /\ stack'[Len(stack)] = Rest /\ stack' \in Seq(Frames)
    BY <2>1 DEF Continues, Adds
  <2> QED BY <2>1, <2>2, <2>6, <2>7, <2>8
<1>3. ASSUME NEW i \in 1..Len(stack'), stack'[i].kind = "realize"
      PROVE  InOrder(prov'[stack'[i].p], stack'[i].todo, stack'[i].size)
  <2> DEFINE f == stack'[i]
  <2>0. i \in Nat /\ Realizes(stack', i)
    BY <1>3 DEF Realizes
  <2>1. ASSUME i \in 1..Len(stack), f = stack[i] PROVE InOrder(prov'[f.p], f.todo, f.size)
    <3>1. f.p \in Providers /\ prov[f.p].state = "REALIZING" /\ InOrder(prov[f.p], f.todo, f.size)
      <4>1. Realizes(stack, i)
        BY <1>3, <2>1 DEF Realizes
      <4> QED BY <1>3, <2>0, <2>1, <4>1, RealizesTyped DEF Running, Ordering
    <3>2. ProviderStep(f.p)
      BY <3>1, ProviderSteps
    <3>3. CASE prov'[f.p] = prov[f.p]
      BY <3>1, <3>3
    <3>4. CASE Ran(f.p)
      <4>1. Runs /\ f.p = Top.p
        BY <3>4 DEF Ran
      <4>2. Realizes(stack', Len(stack)) /\ stack'[Len(stack)].p = f.p
        BY <1>2, <4>1 DEF Realizes
      <4>3. i = Len(stack)
        BY <1>0, <1>1, <2>0, <4>2 DEF Running
      <4> QED BY <1>2, <4>1, <4>3
    <3>5. ~Ended(f.p)
      <4>1. prov'[f.p].state = "REALIZING"
        BY <1>1, <2>0 DEF Running
      <4>2. Ended(f.p) => prov'[f.p].state = "REALIZED"
        BY <1>0, <3>1 DEF Ended, ProviderRecords
      <4> QED BY <4>1, <4>2
    <3>6. ~Undone(f.p)
      BY DEF Undone
    <3>7. ASSUME NEW a \in Actions, Kept(f.p, a) PROVE InOrder(prov'[f.p], f.todo, f.size)
      <4>1. prov'[f.p] = [prov[f.p] EXCEPT !.actions = Append(@, a)] /\ prov[f.p] \in ProviderRecords
        BY <1>0, <3>1, <3>7 DEF Kept
      <4>2. prov'[f.p].actions = Append(prov[f.p].actions, a) /\ prov'[f.p].applied = prov[f.p].applied
            /\ prov[f.p].actions \in Seq(Actions) /\ prov[f.p].applied \in Seq(Actions)
        BY <4>1 DEF ProviderRecords
      <4>3. f \in Frames
        BY <2>1, TypedParts
      <4>4. f.todo \in Seq(Nat) /\ f.size \in Nat
        BY <4>3 DEF Frames
      <4> DEFINE r == prov[f.p]
                 m == Len(r.actions)
                 n == Len(r.applied)
                 u == Append(r.actions, a)
      <4>5. m \in Nat /\ n \in Nat /\ Len(u) = m + 1 /\ (\A k \in 1..m : u[k] = r.actions[k]) /\ Len(f.todo) \in Nat
        BY <4>2, <4>4
      <4>6. /\ n + Len(f.todo) = f.size /\ f.size <= m
            /\ \A k \in 1..n : r.applied[k] = r.actions[k]
            /\ \A k \in 1..Len(f.todo) : f.todo[k] = r.actions[n + k]
        BY <3>1 DEF InOrder
      <4>7. prov'[f.p].actions = u /\ prov'[f.p].applied = r.applied
        BY <4>2
      <4> HIDE DEF r, m, n, u, f
      <4>8. f.size <= Len(u) /\ \A k \in 1..n : r.applied[k] = u[k]
        BY <4>4, <4>5, <4>6
      <4>9. ASSUME NEW k \in 1..Len(f.todo) PROVE f.todo[k] = u[n + k]
        <5>1. n + k \in 1..m
          BY <4>4, <4>5, <4>6
        <5> QED BY <4>5, <4>6, <5>1
      <4> QED BY <4>6, <4>7, <4>8, <4>9 DEF InOrder, n
    <3> QED BY <3>1, <3>2, <3>3, <3>4, <3>5, <3>6, <3>7 DEF ProviderStep, Began, Called
  <2>2. ASSUME NewFrame(f) PROVE InOrder(prov'[f.p], f.todo, f.size)
    <3>1. CASE Goes /\ f = Rest
      <4>1. stack # <<>>
        BY <3>1 DEF Goes, Runs, Visits, RunsRemoval, FreezePasses, On
      <4>2. Top.kind = "realize"
        BY <1>3, <3>1, <4>1, TopTyped DEF Rest, Frames
      <4>3. Runs
        BY <3>1, <4>2 DEF Goes, Visits, RunsRemoval, FreezePasses, On, Walks
      <4> QED BY <1>2, <3>1, <4>3
    <3>2. CASE f.todo = prov'[f.p].actions /\ f.size = Len(f.todo) /\ prov'[f.p].applied = <<>> /\ f.p \in 1..Len(prov')
      <4>1. prov'[f.p] \in ProviderRecords
        BY <3>2, StepGrows DEF Grows, ProvidersStay
      <4>2. prov'[f.p].actions \in Seq(Actions)
        BY <4>1 DEF ProviderRecords
      <4> HIDE DEF f
      <4> QED BY <3>2, <4>2 DEF InOrder
    <3>3. f.kind = "realize"
      BY <1>3
    <3> HIDE DEF f
    <3> QED BY <2>2, <3>1, <3>2, <3>3 DEF NewFrame, Made, Mute, Walks
  <2> QED BY <2>1, <2>2, StepFrame
<1>4. ASSUME NEW p \in 1..Len(prov'), prov'[p].state = "REALIZED"
      PROVE  HasHadAll(prov'[p])
  <2>1. p \in Providers
    <3>1. \A c \in Containers, own \in BOOLEAN : ~Registers(c, p, own)
      BY <1>4 DEF Registers
    <3> QED BY <3>1, NewProviders
  <2>2. prov[p] \in ProviderRecords /\ HasHadAll(prov[p]) /\ ProviderStep(p)
    BY <1>0, <2>1, ProviderSteps DEF Ordering, Providers
  <2> DEFINE r == prov[p]
  <2>3. r.actions \in Seq(Actions) /\ r.applied \in Seq(Actions)
    BY <2>2 DEF ProviderRecords
  <2>4. CASE prov'[p] = prov[p]
    BY <2>2, <2>4
  <2>5. CASE Ended(p)
    <3>1. stack # <<>> /\ Top.kind = "realize" /\ Top.todo = <<>> /\ Len(prov[p].actions) = Top.size /\ p = Top.p
      BY <2>5 DEF Ended, Finishes, On
    <3>2. Top = stack[Len(stack)] /\ Len(stack) \in 1..Len(stack)
      BY <3>1, TopTyped
    <3>3. InOrder(r, <<>>, Len(r.actions))
      BY <3>1, <3>2 DEF Ordering
    <3>4. prov'[p].actions = r.actions /\ prov'[p].applied = r.applied
      BY <2>2, <2>5 DEF Ended, ProviderRecords
    <3>5. Len(r.applied) = Len(r.actions) /\ \A i \in 1..Len(r.applied) : r.applied[i] = r.actions[i]
      <4> HIDE DEF r
      <4> QED BY <2>3, <3>3 DEF InOrder
    <3> QED BY <2>3, <3>4, <3>5 DEF HasHadAll
  <2>6. ASSUME NEW a \in Actions, Called(p, a) PROVE HasHadAll(prov'[p])
    <3>1. prov'[p].actions = r.actions /\ prov'[p].applied = Append(r.applied, a) /\ r.state = "REALIZED"
      BY <2>2, <2>6 DEF Called, ProviderRecords
    <3>2. Len(r.actions) <= Len(r.applied) /\ \A i \in 1..Len(r.actions) : r.applied[i] = r.actions[i]
      BY <2>2, <3>1 DEF HasHadAll
    <3> HIDE DEF r
    <3> QED BY <2>3, <3>1, <3>2 DEF HasHadAll
  <2>7. ~Began(p) /\ ~Ran(p) /\ ~Undone(p) /\ \A a \in Actions : ~Kept(p, a)
    BY <1>4, <2>2 DEF Began, Ran, Undone, Kept, ProviderRecords
  <2> QED BY <2>2, <2>4, <2>5, <2>6, <2>7 DEF ProviderStep
<1>5. ASSUME NEW p \in 1..Len(prov') PROVE HasHadAll(prov'[p])
  BY <1>4 DEF HasHadAll
<1> QED BY <1>3, <1>5 DEF Ordering

Sound(s, ps) == Running(s, ps) /\ RemovesRealized(s, ps) /\ Ordering(s, ps)

LEMMA StepSound ==
    ASSUME Typed, Sound(stack, prov), Step
    PROVE  Sound(stack', prov')
  BY StepRunning, StepRemoves, StepOrdering DEF Sound

LEMMA SoundAlways == Spec => []Sound(stack, prov)
<1>1. Init => Sound(stack, prov)
  <2> SUFFICES ASSUME Init PROVE Sound(stack, prov)
    OBVIOUS
  <2>1. Len(stack) = 0 /\ Len(prov) = 0
    BY DEF Init
  <2> QED BY <2>1 DEF Sound, Running, Realizes, RemovesRealized, Ordering
<1>2. Typed /\ Sound(stack, prov) /\ [Next]_vars => Sound(stack, prov)'
  <2> SUFFICES ASSUME Typed, Sound(stack, prov), [Next]_vars PROVE Sound(stack', prov')
    OBVIOUS
  <2>1. CASE Next
    BY <2>1, NextSteps, StepSound
  <2>2. CASE UNCHANGED vars
    BY <2>2 DEF vars
  <2> QED BY <2>1, <2>2
<1> QED BY <1>1, <1>2, TypedAlways, PTL DEF Spec

(***************************************************************************)
(* Reach.  While an action is walked over the objects of a container,      *)
(* those that are left have not had it and those that are not have; what   *)
(* is registered meanwhile gets it from the actions for future objects.    *)
(***************************************************************************)

ReachedIn(r, a) == a \in ToSet(IF r.state = "REALIZED" THEN r.applied ELSE r.actions)

\* An action is walked over all objects, but not over those that closures
\* register while all() has it.
Walked(kind, g) == kind = "configureEach" \/ "register" \notin g.body

WalkReaches(f, g, es, ps, fu) ==
    f.kind \in Walks =>
        /\ f.kind = "configureEach" => f.a \in ToSet(fu[f.c])
        /\ Walked(f.kind, g) => \A p \in ToSet(es[f.c]) : p \in ToSet(f.todo) \/ ReachedIn(ps[p], f.a)

Reaching ==
    /\ \A i \in 1..Len(stack) : WalkReaches(stack[i], program, entries, prov, future)
    /\ \A c \in Containers : \A o \in observers[c] :
          /\ o[2] \in ToSet(future[c])
          /\ Walked(o[1], program) => \A p \in ToSet(entries[c]) : ReachedIn(prov[p], o[2])

LEMMA HadAllReached ==
    ASSUME NEW r \in ProviderRecords, r.state = "REALIZED", HasHadAll(r)
    PROVE  ToSet(r.actions) \subseteq ToSet(r.applied)
<1>1. /\ DOMAIN r.actions = 1..Len(r.actions) /\ DOMAIN r.applied = 1..Len(r.applied)
      /\ Len(r.actions) \in Nat /\ Len(r.applied) \in Nat
  BY DEF ProviderRecords
<1> QED BY <1>1 DEF HasHadAll, ToSet

\* What has reached an object has reached it for good.
LEMMA ReachedStays ==
    ASSUME Typed, Sound(stack, prov), Step, NEW p \in Providers, NEW a, ReachedIn(prov[p], a)
    PROVE  ReachedIn(prov'[p], a)
<1>1. prov[p] \in ProviderRecords /\ ProviderStep(p)
  BY TypedParts, ProviderSteps DEF Providers, Sound
<1>2. prov[p].actions \in Seq(Actions) /\ prov[p].applied \in Seq(Actions)
  BY <1>1 DEF ProviderRecords
<1>3. CASE prov'[p] = prov[p]
  BY <1>3
<1>4. CASE Began(p) \/ Ran(p) \/ Undone(p)
  <2>1. prov[p].state # "REALIZED" /\ prov'[p].state # "REALIZED" /\ prov'[p].actions = prov[p].actions
    BY <1>1, <1>4 DEF Began, Ran, Undone, ProviderRecords
  <2> QED BY <2>1 DEF ReachedIn
<1>5. CASE Ended(p)
  <2>1. prov[p].state # "REALIZED" /\ prov'[p].state = "REALIZED" /\ prov'[p].actions = prov[p].actions
    BY <1>1, <1>5 DEF Ended, ProviderRecords
  <2>2. Ordering(stack', prov') /\ Len(prov) <= Len(prov') /\ Len(prov) \in Nat /\ prov' \in Seq(ProviderRecords)
    BY StepSound, StepGrows, TypedParts DEF Sound, Grows, ProvidersStay
  <2>3. p \in 1..Len(prov')
    BY <2>2 DEF Providers
  <2>4. prov'[p] \in ProviderRecords /\ HasHadAll(prov'[p])
    BY <2>2, <2>3 DEF Ordering
  <2> QED BY <2>1, <2>4, HadAllReached DEF ReachedIn
<1>6. ASSUME NEW b \in Actions, Called(p, b) PROVE ReachedIn(prov'[p], a)
  <2>1. prov[p].state = "REALIZED" /\ prov'[p].state = "REALIZED" /\ prov'[p].applied = Append(prov[p].applied, b)
    BY <1>1, <1>6 DEF Called, ProviderRecords
  <2> QED BY <1>2, <2>1, AppendKeeps DEF ReachedIn
<1>7. ASSUME NEW b \in Actions, Kept(p, b) PROVE ReachedIn(prov'[p], a)
  <2>1. prov[p].state # "REALIZED" /\ prov'[p].state # "REALIZED" /\ prov'[p].actions = Append(prov[p].actions, b)
    BY <1>1, <1>7 DEF Kept, ProviderRecords
  <2> QED BY <1>2, <2>1, AppendKeeps DEF ReachedIn
<1> QED BY <1>1, <1>3, <1>4, <1>5, <1>6, <1>7 DEF ProviderStep

LEMMA GetsReaches ==
    ASSUME Typed, NEW p \in Providers, NEW a \in Actions, Gets(p, a)
    PROVE  ReachedIn(prov'[p], a)
<1>1. prov[p] \in ProviderRecords
  BY TypedParts DEF Providers
<1>2. prov[p].actions \in Seq(Actions) /\ prov[p].applied \in Seq(Actions)
  BY <1>1 DEF ProviderRecords
<1>3. CASE prov[p].state = "REALIZED"
  <2>1. prov'[p] = [prov[p] EXCEPT !.applied = Append(@, a)]
    BY <1>3 DEF Gets, Applies, Changes
  <2>2. prov'[p].state = "REALIZED" /\ prov'[p].applied = Append(prov[p].applied, a)
    BY <1>1, <1>3, <2>1 DEF ProviderRecords
  <2> QED BY <1>2, <2>2, AppendKeeps DEF ReachedIn
<1>4. CASE prov[p].state # "REALIZED"
  <2>1. prov'[p] = [prov[p] EXCEPT !.actions = Append(@, a)]
    BY <1>4 DEF Gets, Changes
  <2>2. prov'[p].state # "REALIZED" /\ prov'[p].actions = Append(prov[p].actions, a)
    BY <1>1, <1>4, <2>1 DEF ProviderRecords
  <2> QED BY <1>2, <2>2, AppendKeeps DEF ReachedIn
<1> QED BY <1>3, <1>4

\* Who joins a container has its actions for future objects from the start.
LEMMA RegisterReaches ==
    ASSUME Typed, NEW c \in Containers, NEW p, NEW own \in BOOLEAN, Registers(c, p, own), NEW a \in ToSet(future[c])
    PROVE  ReachedIn(prov'[p], a)
<1>1. future[c] \in Seq(Actions) /\ own => Fresh \in Actions
  BY TypedParts, IssueIsAction DEF Registers
<1> DEFINE h == IF own THEN <<Fresh>> ELSE <<>>
<1>2. h \in Seq(Nat) /\ future[c] \in Seq(Nat)
  BY TypedParts DEF Actions, Fresh
<1>3. prov'[p].actions = h \o future[c] /\ prov'[p].state # "REALIZED"
  BY DEF Registers
<1> HIDE DEF h
<1>4. PICK i \in 1..Len(future[c]) : future[c][i] = a
  BY <1>2 DEF ToSet
<1>5. /\ h \o future[c] \in Seq(Nat) /\ Len(h \o future[c]) = Len(h) + Len(future[c])
      /\ (h \o future[c])[Len(h) + i] = a
      /\ Len(h) \in Nat /\ Len(future[c]) \in Nat
  BY <1>2, <1>4
<1>6. Len(h) + i \in DOMAIN (h \o future[c])
  BY <1>4, <1>5
<1>7. a \in ToSet(h \o future[c])
  BY <1>5, <1>6 DEF ToSet
<1> QED BY <1>3, <1>7 DEF ReachedIn

\* Actions for future objects are never taken back.
FutureGrows == \A c \in Containers : ToSet(future[c]) \subseteq ToSet(future'[c])

LEMMA StepFuture ==
    ASSUME Typed, Step
    PROVE  FutureGrows
<1>0. future \in [Containers -> Seq(Actions)]
  BY TypedParts
<1>1. ASSUME NEW c \in Containers, NEW a \in Actions, future' = [future EXCEPT ![c] = Append(@, a)] PROVE FutureGrows
  BY <1>0, <1>1, AppendKeeps DEF FutureGrows
<1>2. ASSUME UNCHANGED future PROVE FutureGrows
  BY <1>2 DEF FutureGrows
<1>3. CASE EndsWalk
  <2>1. Top.a \in Actions /\ Top.c \in Containers
    <3>1. stack # <<>> /\ Top.kind \in Walks
      BY <1>3 DEF EndsWalk
    <3>2. Top.a \in 1..issued /\ Top \in Frames
      BY <3>1, TopTyped DEF FrameTyped
    <3>3. 1..issued \subseteq Actions
      BY TypedParts DEF Actions
    <3> QED BY <3>2, <3>3 DEF Frames
  <2> QED BY <1>1, <1>2, <1>3, <2>1 DEF EndsWalk
<1>4. ASSUME NEW c \in Containers, NEW kind \in Walks, StartsWalk(kind, c) PROVE FutureGrows
  BY <1>1, <1>2, <1>4, IssueIsAction DEF StartsWalk
<1>5. UNCHANGED future \/ EndsWalk \/ \E c \in Containers, kind \in Walks : StartsWalk(kind, c)
  <2>1. UNCHANGED otherVars => UNCHANGED future
    BY DEF otherVars
  <2> QED BY <2>1 DEF Step, Throws, Starts, Runs, Finishes, Visits, RunsRemoval, Turns, FreezeStarts, FreezeMoves,
             FreezePasses, FreezeReturns, FreezeEnds, Configures, Registers, TakesOut, Listens
<1> QED BY <1>2, <1>3, <1>4, <1>5

\* An object of the container after the step was in it before, or joined it now.
LEMMA EntriesFrom ==
    ASSUME Typed, Step, NEW c \in Containers, NEW p \in ToSet(entries'[c])
    PROVE  \/ p \in ToSet(entries[c]) /\ p \in Providers
           \/ \E own \in BOOLEAN : Registers(c, p, own)
<1>1. CASE EntriesShrink
  BY <1>1, EntriesAreProviders DEF EntriesShrink
<1>2. ASSUME NEW d \in Containers, NEW q \in Nat, NEW own \in BOOLEAN, Registers(d, q, own)
      PROVE  p \in ToSet(entries[c]) \/ (c = d /\ p = q)
  <2>1. entries \in [Containers -> Seq(Providers)] /\ entries' = [entries EXCEPT ![d] = Append(@, q)]
    BY <1>2, TypedParts DEF Registers
  <2>2. entries[d] \in Seq(Nat)
    BY <2>1 DEF Providers
  <2>3. ToSet(Append(entries[d], q)) = ToSet(entries[d]) \cup {q}
    BY <2>2, AppendKeeps
  <2> QED BY <2>1, <2>3
<1> QED BY <1>1, <1>2, StepShrinks, EntriesAreProviders

\* A frame that stays, or an observer, keeps what it had.
LEMMA ReachStays ==
    ASSUME Typed, Sound(stack, prov), Step, NEW c \in Containers, NEW kind, NEW a, NEW todo,
           kind = "configureEach" => a \in ToSet(future[c]),
           stack # <<>> \/ a \in ToSet(future[c]),
           Walked(kind, program) => \A p \in ToSet(entries[c]) : p \in todo \/ ReachedIn(prov[p], a),
           Walked(kind, program'), NEW p \in ToSet(entries'[c])
    PROVE  p \in todo \/ ReachedIn(prov'[p], a)
<1>1. program' = program
  BY StepGrows DEF Grows
<1>2. CASE p \in ToSet(entries[c]) /\ p \in Providers
  BY <1>1, <1>2, ReachedStays
<1>3. ASSUME NEW own \in BOOLEAN, Registers(c, p, own) PROVE ReachedIn(prov'[p], a)
  <2>1. CASE a \in ToSet(future[c])
    BY <1>3, <2>1, RegisterReaches
  <2>2. CASE stack # <<>> /\ kind # "configureEach"
    <3>1. Quiet
      BY <1>1, <2>2 DEF Walked, Quiet
    <3> QED BY <1>3, <2>2, <3>1, QuietRegisters
  <2> QED BY <2>1, <2>2
<1> QED BY <1>2, <1>3, EntriesFrom

LEMMA ReachFrames ==
    ASSUME Typed, Sound(stack, prov), Step, Reaching, NEW i \in 1..Len(stack')
    PROVE  WalkReaches(stack'[i], program', entries', prov', future')
<1> DEFINE f == stack'[i]
<1>0. f \in Frames /\ program' = program
  BY StepFrames, StepGrows DEF Grows
<1> SUFFICES ASSUME f.kind \in Walks
             PROVE  /\ f.kind = "configureEach" => f.a \in ToSet(future'[f.c])
                    /\ Walked(f.kind, program') => \A p \in ToSet(entries'[f.c]) :
                          p \in ToSet(f.todo) \/ ReachedIn(prov'[p], f.a)
  BY DEF WalkReaches
<1>1. f.c \in Containers
  BY <1>0 DEF Frames
<1>2. ASSUME i \in 1..Len(stack), f = stack[i]
      PROVE  /\ f.kind = "configureEach" => f.a \in ToSet(future'[f.c])
             /\ Walked(f.kind, program') => \A p \in ToSet(entries'[f.c]) :
                   p \in ToSet(f.todo) \/ ReachedIn(prov'[p], f.a)
  <2>1. WalkReaches(f, program, entries, prov, future) /\ stack # <<>>
    BY <1>2, TypedParts DEF Reaching
  <2> HIDE DEF f
  <2>2. /\ f.kind = "configureEach" => f.a \in ToSet(future[f.c])
        /\ Walked(f.kind, program) => \A p \in ToSet(entries[f.c]) : p \in ToSet(f.todo) \/ ReachedIn(prov[p], f.a)
    BY <2>1 DEF WalkReaches
  <2>3. FutureGrows
    BY StepFuture
  <2> QED BY <1>1, <2>1, <2>2, <2>3, ReachStays DEF FutureGrows
<1>3. CASE Goes /\ f = Rest
  <2>1. stack # <<>>
    BY <1>3 DEF Goes, Runs, Visits, RunsRemoval, FreezePasses, On
  <2>2. Top \in Frames /\ Top = stack[Len(stack)] /\ Len(stack) \in 1..Len(stack)
    BY <2>1, TopTyped
  <2>3. f.kind = Top.kind /\ f.a = Top.a /\ f.c = Top.c /\ f.todo = Tail(Top.todo)
    BY <1>3, <2>2 DEF Rest, Frames
  <2>4. Visits
    BY <1>3, <2>3 DEF Goes, Runs, RunsRemoval, FreezePasses, On, Walks
  <2>5. /\ Top.todo # <<>> /\ Gets(Head(Top.todo), Top.a) /\ Top.todo \in Seq(Nat)
        /\ UNCHANGED otherVars
    BY <2>2, <2>4 DEF Visits, Frames
  <2>6. Head(Top.todo) \in Providers /\ Top.a \in Actions
    <3>1. Top.a \in 1..issued /\ Head(Top.todo) \in Providers
      BY <2>1, <2>3, <2>5, TopTyped DEF FrameTyped, Providers
    <3>2. 1..issued \subseteq Actions
      BY TypedParts DEF Actions
    <3> QED BY <3>1, <3>2
  <2>7. entries' = entries /\ future' = future
    BY <2>5 DEF otherVars
  <2>8. WalkReaches(Top, program, entries, prov, future)
    BY <2>2 DEF Reaching
  <2>9. ToSet(Top.todo) = {Head(Top.todo)} \cup ToSet(f.todo)
    BY <2>3, <2>5, TailKeeps
  <2>10. ReachedIn(prov'[Head(Top.todo)], f.a)
    BY <2>3, <2>5, <2>6, GetsReaches
  <2>11. \A p \in ToSet(entries[f.c]) : ReachedIn(prov[p], f.a) => ReachedIn(prov'[p], f.a)
    BY <1>1, EntriesAreProviders, ReachedStays
  <2> HIDE DEF f
  <2>12. /\ f.kind = "configureEach" => f.a \in ToSet(future[f.c])
         /\ Walked(f.kind, program) => \A p \in ToSet(entries[f.c]) : p \in ToSet(Top.todo) \/ ReachedIn(prov[p], f.a)
    BY <2>3, <2>8 DEF WalkReaches
  <2> QED BY <1>0, <2>7, <2>9, <2>10, <2>11, <2>12
<1>4. CASE f.a = Fresh /\ f.todo = entries[f.c] /\ StartsWalk(f.kind, f.c)
  <2>1. entries' = entries
    BY <1>4 DEF StartsWalk
  <2>2. ASSUME f.kind = "configureEach" PROVE f.a \in ToSet(future'[f.c])
    <3>1. future' = [future EXCEPT ![f.c] = Append(@, Fresh)]
      BY <1>4, <2>2 DEF StartsWalk
    <3>2. Fresh \in Actions /\ future \in [Containers -> Seq(Actions)]
      BY <1>4, TypedParts, IssueIsAction DEF StartsWalk
    <3> QED BY <1>1, <1>4, <3>1, <3>2, AppendKeeps
  <2> QED BY <1>4, <2>1, <2>2
<1>5. NewFrame(f) => (Goes /\ f = Rest) \/ (f.a = Fresh /\ f.todo = entries[f.c] /\ StartsWalk(f.kind, f.c))
  BY DEF NewFrame, Made, Mute, Walks
<1> HIDE DEF f
<1> QED BY <1>2, <1>3, <1>4, <1>5, StepFrame DEF f

LEMMA StepReaching ==
    ASSUME Typed, Sound(stack, prov), Step, Reaching
    PROVE  Reaching'
<1>1. \A i \in 1..Len(stack') : WalkReaches(stack'[i], program', entries', prov', future')
  BY ReachFrames
<1>2. ASSUME NEW c \in Containers, NEW o \in observers[c]
      PROVE  /\ o[2] \in ToSet(future'[c])
             /\ Walked(o[1], program') => \A p \in ToSet(entries'[c]) : ReachedIn(prov'[p], o[2])
  <2>1. /\ o[2] \in ToSet(future[c])
        /\ Walked(o[1], program) => \A p \in ToSet(entries[c]) : ReachedIn(prov[p], o[2])
    BY DEF Reaching
  <2>2. ASSUME Walked(o[1], program'), NEW p \in ToSet(entries'[c]) PROVE ReachedIn(prov'[p], o[2])
    <3> DEFINE kind == o[1]
               a == o[2]
               none == {}
    <3>1. a \in ToSet(future[c])
      BY <2>1
    <3>2. Walked(kind, program) => \A q \in ToSet(entries[c]) : q \in none \/ ReachedIn(prov[q], a)
      BY <2>1
    <3>3. Walked(kind, program')
      BY <2>2
    <3>5. p \notin none
      OBVIOUS
    <3> HIDE DEF kind, a, none
    <3>4. p \in none \/ ReachedIn(prov'[p], a)
      BY <2>2, <3>1, <3>2, <3>3, ReachStays
    <3> QED BY <3>4, <3>5 DEF a
  <2> QED BY <2>1, <2>2, StepFuture DEF FutureGrows
<1>3. CASE UNCHANGED observers
  BY <1>1, <1>2, <1>3 DEF Reaching
<1>4. CASE EndsWalk
  <2>1. /\ stack # <<>> /\ Top.kind \in Walks /\ Top.todo = <<>>
        /\ observers' = [observers EXCEPT ![Top.c] = @ \cup {<<Top.kind, Top.a>>}]
        /\ future' = IF Top.kind = "all" THEN [future EXCEPT ![Top.c] = Append(@, Top.a)] ELSE future
        /\ UNCHANGED <<program, entries, prov>>
    BY <1>4 DEF EndsWalk
  <2>2. Top \in Frames /\ Top = stack[Len(stack)] /\ Len(stack) \in 1..Len(stack) /\ Top.a \in 1..issued
    BY <2>1, TopTyped DEF FrameTyped
  <2>3. Top.c \in Containers /\ Top.a \in Actions
    <3>1. 1..issued \subseteq Actions
      BY TypedParts DEF Actions
    <3> QED BY <2>2, <3>1 DEF Frames
  <2>4. /\ Top.kind = "configureEach" => Top.a \in ToSet(future[Top.c])
        /\ Walked(Top.kind, program) => \A p \in ToSet(entries[Top.c]) : p \in ToSet(Top.todo) \/ ReachedIn(prov[p], Top.a)
    BY <2>1, <2>2 DEF Reaching, WalkReaches
  <2>5. ToSet(Top.todo) = {}
    BY <2>1 DEF ToSet
  <2>6. Top.a \in ToSet(future'[Top.c])
    <3>1. future \in [Containers -> Seq(Actions)]
      BY TypedParts
    <3>2. Top.kind = "configureEach" \/ Top.kind = "all"
      BY <2>1 DEF Walks
    <3> QED BY <2>1, <2>3, <2>4, <3>1, <3>2, AppendKeeps
  <2>7. observers \in [Containers -> SUBSET ({"configureEach", "all"} \X Actions)]
    BY DEF Typed, TypeOK
  <2>8. ASSUME NEW c \in Containers, NEW o \in observers'[c]
        PROVE  /\ o[2] \in ToSet(future'[c])
               /\ Walked(o[1], program') => \A p \in ToSet(entries'[c]) : ReachedIn(prov'[p], o[2])
    <3>1. o \in observers[c] \/ (c = Top.c /\ o = <<Top.kind, Top.a>>)
      BY <2>1, <2>3, <2>7, <2>8
    <3>2. CASE c = Top.c /\ o = <<Top.kind, Top.a>>
      <4>1. o[1] = Top.kind /\ o[2] = Top.a
        BY <3>2
      <4> QED BY <2>1, <2>4, <2>5, <2>6, <3>2, <4>1
    <3> QED BY <1>2, <3>1, <3>2
  <2> QED BY <1>1, <2>8 DEF Reaching
<1>5. UNCHANGED observers \/ EndsWalk
  <2>1. UNCHANGED otherVars => UNCHANGED observers
    BY DEF otherVars
  <2> QED BY <2>1 DEF Step, Throws, Starts, Runs, Finishes, Visits, RunsRemoval, Turns, FreezeStarts, FreezeMoves,
             FreezePasses, FreezeReturns, FreezeEnds, Configures, Registers, StartsWalk, TakesOut, Listens
<1> QED BY <1>3, <1>4, <1>5

LEMMA ReachingAlways == Spec => []Reaching
<1>1. Init => Reaching
  <2> SUFFICES ASSUME Init PROVE Reaching
    OBVIOUS
  <2>1. Len(stack) = 0 /\ \A c \in Containers : observers[c] = {}
    BY DEF Init
  <2> QED BY <2>1 DEF Reaching
<1>2. Typed /\ Sound(stack, prov) /\ Reaching /\ [Next]_vars => Reaching'
  <2> SUFFICES ASSUME Typed, Sound(stack, prov), Reaching, [Next]_vars PROVE Reaching'
    OBVIOUS
  <2>1. CASE Next
    BY <2>1, NextSteps, StepReaching
  <2>2. CASE UNCHANGED vars
    BY <2>2 DEF vars, otherVars, Reaching
  <2> QED BY <2>1, <2>2
<1> QED BY <1>1, <1>2, TypedAlways, SoundAlways, PTL DEF Spec

LEMMA ObserversReached ==
    ASSUME Reaching, NEW c \in Containers, NEW call, Walked(call, program)
    PROVE  ObserversReach(c, call)
<1> SUFFICES ASSUME NEW a \in Actions, <<call, a>> \in observers[c], NEW p \in ToSet(entries[c])
             PROVE  Reached(p, a)
  BY DEF ObserversReach
<1>1. <<call, a>>[1] = call /\ <<call, a>>[2] = a
  OBVIOUS
<1>2. ReachedIn(prov[p], a)
  BY <1>1 DEF Reaching
<1> QED BY <1>2 DEF Reached, ReachedIn

\* An action given to configureEach reaches every object of the container, those
\* that closures register or remove while it is walked over them included.
THEOREM ConfigureEachReachesAllHolds == Spec => []ConfigureEachReachesAll
<1>1. Reaching => ConfigureEachReachesAll
  BY ObserversReached DEF ConfigureEachReachesAll, Walked
<1> QED BY <1>1, ReachingAlways, PTL

\* An action given to all does too, unless closures register objects meanwhile.
THEOREM AllReachesAllHolds == Spec => []AllReachesAll
<1>1. Reaching => AllReachesAll
  BY ObserversReached DEF AllReachesAll, Walked
<1> QED BY <1>1, ReachingAlways, PTL

(***************************************************************************)
(* Once.  A number is given to one action, and the action goes to a        *)
(* provider in one way: from the actions for future objects when it is     *)
(* registered, from the walk it is left in, or from the removal actions.   *)
(***************************************************************************)

UsedIn(r) == ToSet(r.actions) \cup ToSet(r.applied)

\* What providers have had and have before them.
OwnOnce(ps, m) ==
    \A p \in 1..Len(ps) : IsInjective(ps[p].actions) /\ IsInjective(ps[p].applied) /\ UsedIn(ps[p]) \subseteq 1..m

\* The actions of the containers, for future objects and for removed ones.
ListsOnce(fu, rm, m) ==
    \A c \in Containers :
        /\ IsInjective(fu[c]) /\ ToSet(fu[c]) \subseteq 1..m
        /\ IsInjective(rm[c]) /\ ToSet(rm[c]) \subseteq 1..m
        /\ \A d \in Containers : ToSet(fu[c]) \cap ToSet(rm[d]) = {}

Homes(es, ps) == \A c \in Containers : \A p \in ToSet(es[c]) : ps[p].home = c

\* No object that is in a container has had a removal action.
Unremoved(es, ps, rm) ==
    \A c, d \in Containers : \A p \in ToSet(es[c]) : UsedIn(ps[p]) \cap ToSet(rm[d]) = {}

\* What is left of a walk has not had its action.
WalkOnce(f, ps, fu, rm) ==
    f.kind \in Walks =>
        /\ IsInjective(f.todo)
        /\ \A c \in Containers : f.a \notin ToSet(rm[c])
        /\ f.kind = "all" => \A c \in Containers : f.a \notin ToSet(fu[c])
        /\ \A p \in ToSet(f.todo) : f.a \notin UsedIn(ps[p])

\* A removed object is in no container and has not had what is left of its removal actions.
RemoveOnce(f, es, ps, rm) ==
    f.kind = "removed" =>
        /\ \A c \in Containers : f.p \notin ToSet(es[c])
        /\ IsInjective(f.todo) /\ ToSet(f.todo) \subseteq ToSet(rm[f.c])
        /\ UsedIn(ps[f.p]) \cap ToSet(f.todo) = {}

\* An action is in one walk, an object in one removal.
Distinct(s) ==
    \A i, j \in 1..Len(s) :
        /\ s[i].kind \in Walks /\ s[j].kind \in Walks /\ s[i].a = s[j].a => i = j
        /\ s[i].kind = "removed" /\ s[j].kind = "removed" /\ s[i].p = s[j].p => i = j

Once ==
    /\ OwnOnce(prov, issued)
    /\ ListsOnce(future, onRemove, issued)
    /\ Homes(entries, prov)
    /\ Unremoved(entries, prov, onRemove)
    /\ \A i \in 1..Len(stack) : WalkOnce(stack[i], prov, future, onRemove)
    /\ \A i \in 1..Len(stack) : RemoveOnce(stack[i], entries, prov, onRemove)
    /\ Distinct(stack)

\* A walk or a removal goes on where it was, with the first of what it had done.
Keeps(f, g) ==
    /\ f.kind = g.kind /\ f.p = g.p /\ f.c = g.c /\ f.a = g.a
    /\ f.todo = g.todo \/ (g.todo # <<>> /\ f.todo = Tail(g.todo))

GoesOn(i) ==
    /\ i \in 1..Len(stack) /\ Keeps(stack'[i], stack[i])
    /\ (Visits \/ RunsRemoval) /\ i = Len(stack) =>
          Top = stack[i] /\ Top.todo # <<>> /\ stack'[i].todo = Tail(Top.todo)
    /\ EndsWalk => i # Len(stack)

LEMMA StepGoesOn ==
    ASSUME Typed, Step
    PROVE  \E k \in Nat : \A i \in 1..Len(stack') :
              stack'[i].kind \in Walks \cup {"removed"} => GoesOn(i) \/ (i = k /\ Made(stack'[i]))
<1>1. PICK n, k \in Nat : Stack(n, k)
  BY StepStack
<1>2. Len(stack) \in Nat /\ Len(stack') \in Nat /\ stack' \in Seq(Frames)
  BY StepStack, TypedParts
<1> SUFFICES ASSUME NEW i \in 1..Len(stack'), stack'[i].kind \in Walks \cup {"removed"}, ~(i = k /\ Made(stack'[i]))
             PROVE  GoesOn(i)
  OBVIOUS
<1>3. stack'[i].kind \notin Mute
  BY DEF Mute, Walks
<1>4. ASSUME stack # <<>> PROVE Top = stack[Len(stack)] /\ Top \in Frames /\ Len(stack) \in 1..Len(stack)
  BY <1>4, TopTyped
<1>5. ASSUME Goes, Continues, Top.todo # <<>>, stack # <<>>
      PROVE  /\ stack'[Len(stack)] = Rest /\ Keeps(Rest, Top) /\ Rest.todo = Tail(Top.todo)
  <2>1. Rest.kind = Top.kind /\ Rest.p = Top.p /\ Rest.c = Top.c /\ Rest.a = Top.a /\ Rest.todo = Tail(Top.todo)
    BY <1>4, <1>5 DEF Rest, Frames
  <2> QED BY <1>5, <2>1 DEF Keeps, Continues
<1>6. Goes => Continues /\ Top.todo # <<>> /\ stack # <<>>
  BY DEF Goes, Runs, Visits, RunsRemoval, FreezePasses, On
<1>7. i \in 1..Len(stack) /\ Keeps(stack'[i], stack[i])
  <2>1. CASE i \in 1..n
    BY <1>1, <2>1 DEF Stack, Keeps
  <2>2. CASE i \notin 1..n
    <3>1. i = k /\ Goes /\ n = Below /\ stack'[i] = Rest
      BY <1>1, <1>3, <2>2 DEF Stack
    <3>2. stack'[Len(stack)] = Rest /\ Keeps(Rest, Top) /\ Top = stack[Len(stack)] /\ Len(stack) \in 1..Len(stack)
          /\ Len(stack) <= Len(stack')
      BY <1>4, <1>5, <1>6, <3>1 DEF Continues
    <3>3. Len(stack) = k
      <4>1. Len(stack) \in 1..Len(stack') /\ Len(stack) \notin 1..n
        BY <1>2, <3>1, <3>2 DEF Below
      <4> QED BY <1>1, <1>3, <3>1, <3>2, <4>1 DEF Stack
    <3> QED BY <3>1, <3>2, <3>3
  <2> QED BY <2>1, <2>2
<1>8. (Visits \/ RunsRemoval) /\ i = Len(stack) => Top = stack[i] /\ Top.todo # <<>> /\ stack'[i].todo = Tail(Top.todo)
  BY <1>4, <1>5, <1>6 DEF Goes
<1>9. EndsWalk => i # Len(stack)
  <2> SUFFICES ASSUME EndsWalk, i = Len(stack) PROVE FALSE
    OBVIOUS
  <2>1. AddsNone(Below)
    BY DEF EndsWalk
  <2>2. i \in Below + 1..Len(stack')
    BY <1>2 DEF Below
  <2> QED BY <1>3, <2>1, <2>2 DEF AddsNone
<1> QED BY <1>7, <1>8, <1>9 DEF GoesOn

\* The frame on top of a step that walks on or removes on.
LEMMA TopOnce ==
    ASSUME Typed, Once, Visits \/ RunsRemoval \/ EndsWalk
    PROVE  /\ Top = stack[Len(stack)] /\ Len(stack) \in 1..Len(stack) /\ Top \in Frames
           /\ WalkOnce(Top, prov, future, onRemove) /\ RemoveOnce(Top, entries, prov, onRemove)
           /\ Top.todo # <<>> => Head(Top.todo) \in ToSet(Top.todo)
           /\ Visits => Top.kind \in Walks /\ Top.todo # <<>> /\ Top.a \in 1..issued
           /\ EndsWalk => Top.kind \in Walks /\ Top.a \in 1..issued
           /\ RunsRemoval => Top.kind = "removed" /\ Top.todo # <<>>
<1>1. stack # <<>>
  BY DEF Visits, RunsRemoval, EndsWalk, On
<1>2. Top = stack[Len(stack)] /\ Len(stack) \in 1..Len(stack) /\ Top \in Frames /\ FrameTyped(Top, Len(prov), issued)
  BY <1>1, TopTyped
<1>3. WalkOnce(Top, prov, future, onRemove) /\ RemoveOnce(Top, entries, prov, onRemove)
  BY <1>2 DEF Once
<1>4. Top.todo # <<>> => Head(Top.todo) \in ToSet(Top.todo)
  <2>1. Top.todo \in Seq(Nat)
    BY <1>2 DEF Frames
  <2> QED BY <2>1, TailKeeps
<1>5. Top.kind \in Walks => Top.a \in 1..issued
  BY <1>2 DEF FrameTyped
<1> QED BY <1>2, <1>3, <1>4, <1>5 DEF Visits, RunsRemoval, EndsWalk, On

LEMMA FreshIsNew ==
    ASSUME Typed, Once, Issue
    PROVE  /\ Fresh \notin 1..issued /\ issued' = Fresh /\ Fresh \in 1..issued'
           /\ \A c \in Containers : Fresh \notin ToSet(future[c]) /\ Fresh \notin ToSet(onRemove[c])
           /\ \A p \in Providers : Fresh \notin UsedIn(prov[p])
<1>1. issued \in Nat /\ Fresh = issued + 1 /\ issued' = Fresh
  BY TypedParts, IssueIsAction
<1>2. Fresh \notin 1..issued /\ Fresh \in 1..issued'
  BY <1>1
<1> QED BY <1>1, <1>2 DEF Once, ListsOnce, OwnOnce, Providers

\* An action that is given to an object is new to it, and no removal action.
LEMMA GivenIsNew ==
    ASSUME Typed, Once, NEW p \in Providers, NEW a, Given(p, a)
    PROVE  a \notin UsedIn(prov[p]) /\ a \in 1..issued' /\ \A c \in Containers : a \notin ToSet(onRemove[c])
<1>1. CASE Visits /\ p = Head(Top.todo) /\ a = Top.a
  <2>1. issued' = issued
    BY <1>1 DEF Visits, otherVars
  <2> QED BY <1>1, <2>1, TopOnce DEF WalkOnce
<1>2. ASSUME NEW c \in Containers, Configures(c, p), a = Fresh
      PROVE  a \notin UsedIn(prov[p]) /\ a \in 1..issued' /\ \A d \in Containers : a \notin ToSet(onRemove[d])
  BY <1>2, FreshIsNew DEF Configures
<1> QED BY <1>1, <1>2 DEF Given

\* What a provider has after the step it had before, or it is given it now, or
\* it is the removal action that runs on it.
LEMMA UsedFrom ==
    ASSUME Typed, Sound(stack, prov), Once, Step, NEW p \in Providers, NEW a \in UsedIn(prov'[p])
    PROVE  a \in UsedIn(prov[p]) \/ Given(p, a) \/ (RunsRemoval /\ p = Top.p /\ a = Head(Top.todo))
<1>1. prov[p] \in ProviderRecords /\ ProviderStep(p)
  BY TypedParts, ProviderSteps DEF Providers, Sound
<1>2. prov[p].actions \in Seq(Actions) /\ prov[p].applied \in Seq(Actions)
  BY <1>1 DEF ProviderRecords
<1>3. CASE prov'[p] = prov[p] \/ Ended(p)
  <2>1. prov'[p].actions = prov[p].actions /\ prov'[p].applied = prov[p].applied
    BY <1>1, <1>3 DEF Ended, ProviderRecords
  <2> QED BY <2>1 DEF UsedIn
<1>4. CASE Began(p) \/ Undone(p)
  <2>1. prov'[p].actions = prov[p].actions /\ prov'[p].applied = <<>>
    BY <1>1, <1>4 DEF Began, Undone, ProviderRecords
  <2> QED BY <2>1 DEF UsedIn, ToSet
<1>5. CASE Ran(p)
  <2>1. /\ prov'[p].actions = prov[p].actions /\ prov'[p].applied = Append(prov[p].applied, Head(Top.todo))
        /\ stack # <<>> /\ Top.kind = "realize" /\ Top.todo # <<>> /\ p = Top.p
    BY <1>1, <1>5 DEF Ran, Runs, On, ProviderRecords
  <2>2. Top = stack[Len(stack)] /\ Len(stack) \in 1..Len(stack) /\ Top.todo \in Seq(Actions)
    BY <2>1, TopTyped DEF FrameTyped
  <2>3. InOrder(prov[p], Top.todo, Top.size)
    BY <2>1, <2>2 DEF Sound, Ordering
  <2>4. Head(Top.todo) \in ToSet(prov[p].actions) /\ Head(Top.todo) \in Actions
    <3>1. 1 \in 1..Len(Top.todo) /\ Head(Top.todo) = Top.todo[1] /\ Len(Top.todo) \in Nat /\ Head(Top.todo) \in Actions
      BY <2>1, <2>2, TailKeeps
    <3>2. Len(prov[p].applied) + 1 \in 1..Len(prov[p].actions)
      <4>1. Len(prov[p].applied) \in Nat /\ Len(prov[p].actions) \in Nat
        BY <1>2
      <4>2. Len(prov[p].applied) + Len(Top.todo) = Top.size /\ Top.size <= Len(prov[p].actions)
        BY <2>3 DEF InOrder
      <4>3. Len(prov[p].applied) + Len(Top.todo) <= Len(prov[p].actions)
        BY <4>2
      <4>4. \A x, y, z \in Nat : y >= 1 /\ x + y <= z => x + 1 \in 1..z
        OBVIOUS
      <4>5. Len(Top.todo) \in Nat /\ Len(Top.todo) >= 1
        BY <3>1
      <4> QED BY ONLY <4>1, <4>3, <4>4, <4>5
    <3>3. Head(Top.todo) = prov[p].actions[Len(prov[p].applied) + 1]
      BY <2>3, <3>1 DEF InOrder
    <3> QED BY <1>2, <3>1, <3>2, <3>3 DEF ToSet
  <2>5. ToSet(prov'[p].applied) = ToSet(prov[p].applied) \cup {Head(Top.todo)}
    BY <1>2, <2>1, <2>4, AppendKeeps
  <2> QED BY <2>1, <2>4, <2>5 DEF UsedIn
<1>6. ASSUME NEW b \in Actions, Called(p, b) \/ Kept(p, b)
      PROVE  a \in UsedIn(prov[p]) \/ Given(p, a) \/ (RunsRemoval /\ p = Top.p /\ a = Head(Top.todo))
  <2>1. \/ prov'[p].actions = prov[p].actions /\ prov'[p].applied = Append(prov[p].applied, b)
        \/ prov'[p].actions = Append(prov[p].actions, b) /\ prov'[p].applied = prov[p].applied
    BY <1>1, <1>6 DEF Called, Kept, ProviderRecords
  <2>2. a \in UsedIn(prov[p]) \/ a = b
    <3>1. /\ ToSet(Append(prov[p].actions, b)) = ToSet(prov[p].actions) \cup {b}
          /\ ToSet(Append(prov[p].applied, b)) = ToSet(prov[p].applied) \cup {b}
      BY <1>2, AppendKeeps
    <3>2. a \in ToSet(prov'[p].actions) \/ a \in ToSet(prov'[p].applied)
      BY DEF UsedIn
    <3>3. UsedIn(prov[p]) = ToSet(prov[p].actions) \cup ToSet(prov[p].applied)
      BY DEF UsedIn
    <3>4. CASE prov'[p].actions = prov[p].actions /\ prov'[p].applied = Append(prov[p].applied, b)
      BY ONLY <3>1, <3>2, <3>3, <3>4
    <3>5. CASE prov'[p].actions = Append(prov[p].actions, b) /\ prov'[p].applied = prov[p].applied
      BY ONLY <3>1, <3>2, <3>3, <3>5
    <3> QED BY <2>1, <3>4, <3>5
  <2> QED BY <1>6, <2>2 DEF Called, Kept
<1> QED BY <1>1, <1>3, <1>4, <1>5, <1>6 DEF ProviderStep

\* A new object starts with its own action and those of its container.
LEMMA RegisterOnce ==
    ASSUME Typed, Once, NEW c \in Containers, NEW p, NEW own \in BOOLEAN, Registers(c, p, own)
    PROVE  /\ IsInjective(prov'[p].actions) /\ prov'[p].applied = <<>>
           /\ \A a \in UsedIn(prov'[p]) : a \in ToSet(future[c]) \/ (Issue /\ a = Fresh)
<1> DEFINE h == IF own THEN <<Fresh>> ELSE <<>>
           s == future[c]
           t == h \o s
<1>1. prov'[p].actions = t /\ prov'[p].applied = <<>> /\ (own => Issue)
  BY DEF Registers
<1>2. s \in Seq(Nat) /\ Fresh \in Nat /\ IsInjective(s)
  BY TypedParts DEF Actions, Fresh, Once, ListsOnce
<1>3. IsInjective(t) /\ \A a \in ToSet(t) : a \in ToSet(s) \/ (own /\ a = Fresh)
  <2>1. CASE ~own
    <3>1. h = <<>>
      BY <2>1
    <3>2. t = s
      <4> HIDE DEF h, s
      <4> QED BY <1>2, <3>1
    <3> HIDE DEF t
    <3> QED BY <1>2, <3>2
  <2>2. CASE own
    <3>1. Fresh \notin ToSet(s)
      BY <1>1, <2>2, FreshIsNew
    <3>2. h = <<Fresh>>
      BY <2>2
    <3> HIDE DEF s, h
    <3>3. /\ t \in Seq(Nat) /\ Len(t) = Len(s) + 1 /\ t[1] = Fresh /\ Len(s) \in Nat
          /\ \A k \in 1..Len(s) : t[k + 1] = s[k]
      BY <1>2, <3>2
    <3> HIDE DEF t
    <3>4. DOMAIN t = 1..Len(s) + 1 /\ DOMAIN s = 1..Len(s)
      BY <1>2, <3>3
    <3>5. \A k \in 2..Len(s) + 1 : k - 1 \in 1..Len(s) /\ t[k] = s[k - 1] /\ t[k] \in ToSet(s)
      <4> SUFFICES ASSUME NEW k \in 2..Len(s) + 1 PROVE k - 1 \in 1..Len(s) /\ t[k] = s[k - 1] /\ t[k] \in ToSet(s)
        OBVIOUS
      <4>1. k - 1 \in 1..Len(s) /\ (k - 1) + 1 = k
        BY <3>3
      <4> QED BY <3>3, <3>4, <4>1 DEF ToSet
    <3>6. \A k \in 1..Len(s) + 1 : k = 1 \/ k \in 2..Len(s) + 1
      BY <3>3
    <3>7. \A a \in ToSet(t) : a \in ToSet(s) \/ a = Fresh
      BY <3>3, <3>4, <3>5, <3>6 DEF ToSet
    <3>8. ASSUME NEW k \in 1..Len(s) + 1, NEW l \in 1..Len(s) + 1, t[k] = t[l] PROVE k = l
      <4>1. k \in 2..Len(s) + 1 /\ l \in 2..Len(s) + 1 => s[k - 1] = s[l - 1] /\ k - 1 \in DOMAIN s /\ l - 1 \in DOMAIN s
        BY <3>4, <3>5, <3>8
      <4>2. k \in 2..Len(s) + 1 /\ l \in 2..Len(s) + 1 => k - 1 = l - 1
        BY <1>2, <4>1 DEF IsInjective
      <4>3. (k = 1 <=> l = 1)
        BY <3>1, <3>3, <3>5, <3>6, <3>8
      <4> QED BY <3>3, <3>6, <4>2, <4>3
    <3> QED BY <2>2, <3>4, <3>7, <3>8 DEF IsInjective
  <2> QED BY <2>1, <2>2
<1>4. UsedIn(prov'[p]) = ToSet(t)
  <2> HIDE DEF t
  <2> QED BY <1>1 DEF UsedIn, ToSet
<1> HIDE DEF t
<1> QED BY <1>1, <1>3, <1>4

LEMMA OwnStep ==
    ASSUME Typed, Sound(stack, prov), Once, Step
    PROVE  OwnOnce(prov', issued')
<1> SUFFICES ASSUME NEW p \in 1..Len(prov')
             PROVE  /\ IsInjective(prov'[p].actions) /\ IsInjective(prov'[p].applied)
                    /\ UsedIn(prov'[p]) \subseteq 1..issued'
  BY DEF OwnOnce
<1>1. issued \in Nat /\ issued' \in Nat /\ issued <= issued' /\ 1..issued \subseteq 1..issued'
  BY StepGrows, TypedParts DEF Grows
<1>2. \A c \in Containers : ToSet(future[c]) \subseteq 1..issued /\ ToSet(onRemove[c]) \subseteq 1..issued
  BY DEF Once, ListsOnce
<1>3. IsInjective(<<>>)
  BY DEF IsInjective
<1>4. ASSUME NEW c \in Containers, NEW own \in BOOLEAN, Registers(c, p, own)
      PROVE  /\ IsInjective(prov'[p].actions) /\ IsInjective(prov'[p].applied)
             /\ UsedIn(prov'[p]) \subseteq 1..issued'
  <2>1. \A a \in UsedIn(prov'[p]) : a \in 1..issued'
    BY <1>1, <1>2, <1>4, RegisterOnce, FreshIsNew
  <2> QED BY <1>3, <1>4, <2>1, RegisterOnce
<1>5. ASSUME p \in Providers
      PROVE  /\ IsInjective(prov'[p].actions) /\ IsInjective(prov'[p].applied)
             /\ UsedIn(prov'[p]) \subseteq 1..issued'
  <2> DEFINE r == prov[p]
  <2>1. /\ r \in ProviderRecords /\ ProviderStep(p)
        /\ IsInjective(r.actions) /\ IsInjective(r.applied) /\ UsedIn(r) \subseteq 1..issued
    BY <1>5, TypedParts, ProviderSteps DEF Providers, Sound, Once, OwnOnce
  <2>2. r.actions \in Seq(Actions) /\ r.applied \in Seq(Actions)
    BY <2>1 DEF ProviderRecords
  <2>3. RunsRemoval => /\ Head(Top.todo) \in 1..issued
                       /\ p = Top.p => Head(Top.todo) \notin UsedIn(r)
    <3> SUFFICES ASSUME RunsRemoval PROVE Head(Top.todo) \in 1..issued /\ (p = Top.p => Head(Top.todo) \notin UsedIn(r))
      OBVIOUS
    <3>1. Head(Top.todo) \in ToSet(Top.todo) /\ Top.c \in Containers
          /\ ToSet(Top.todo) \subseteq ToSet(onRemove[Top.c]) /\ UsedIn(prov[Top.p]) \cap ToSet(Top.todo) = {}
      BY TopOnce DEF RemoveOnce, Frames
    <3> QED BY <1>2, <3>1
  <2>4. UsedIn(prov'[p]) \subseteq 1..issued'
    <3> SUFFICES ASSUME NEW a \in UsedIn(prov'[p]) PROVE a \in 1..issued'
      OBVIOUS
    <3>1. a \in UsedIn(r) \/ Given(p, a) \/ (RunsRemoval /\ p = Top.p /\ a = Head(Top.todo))
      BY <1>5, UsedFrom
    <3> QED BY <1>1, <1>5, <2>1, <2>3, <3>1, GivenIsNew
  <2>5. CASE prov'[p] = prov[p] \/ Ended(p)
    <3>1. prov'[p].actions = r.actions /\ prov'[p].applied = r.applied
      BY <2>1, <2>5 DEF Ended, ProviderRecords
    <3> QED BY <2>1, <2>4, <3>1
  <2>6. CASE Began(p) \/ Undone(p)
    <3>1. prov'[p].actions = r.actions /\ prov'[p].applied = <<>>
      BY <2>1, <2>6 DEF Began, Undone, ProviderRecords
    <3> QED BY <1>3, <2>1, <2>4, <3>1
  <2>7. CASE Ran(p)
    <3>1. /\ prov'[p].actions = r.actions /\ prov'[p].applied = Append(r.applied, Head(Top.todo))
          /\ stack # <<>> /\ Top.kind = "realize" /\ Top.todo # <<>> /\ p = Top.p
      BY <2>1, <2>7 DEF Ran, Runs, On, ProviderRecords
    <3>2. Top = stack[Len(stack)] /\ Len(stack) \in 1..Len(stack) /\ Top.todo \in Seq(Actions)
      BY <3>1, TopTyped DEF FrameTyped
    <3>3. InOrder(r, Top.todo, Top.size)
      BY <3>1, <3>2 DEF Sound, Ordering
    <3> DEFINE n == Len(r.applied)
               m == Len(r.actions)
               l == Len(Top.todo)
    <3>4. Head(Top.todo) \in Actions /\ Head(Top.todo) = Top.todo[1] /\ l \in Nat \ {0} /\ n \in Nat /\ m \in Nat
          /\ DOMAIN r.actions = 1..m /\ DOMAIN r.applied = 1..n
      BY <2>2, <3>1, <3>2, TailKeeps
    <3>5. n + l <= m /\ (\A i \in 1..n : r.applied[i] = r.actions[i])
          /\ (\A i \in 1..l : Top.todo[i] = r.actions[n + i])
      BY <3>3 DEF InOrder
    <3> HIDE DEF n, m, l, r
    <3>6. n + 1 \in 1..m /\ 1 \in 1..l /\ \A i \in 1..n : i \in 1..m /\ i # n + 1
      BY <3>4, <3>5
    <3>7. Head(Top.todo) = r.actions[n + 1]
      BY <3>4, <3>5, <3>6
    <3>8. Head(Top.todo) \notin ToSet(r.applied)
      <4>1. ASSUME NEW i \in 1..n PROVE r.applied[i] # Head(Top.todo)
        <5>1. r.applied[i] = r.actions[i] /\ i \in 1..m /\ i # n + 1
          BY <3>5, <3>6
        <5>2. r.actions[i] # r.actions[n + 1]
          BY <2>1, <3>4, <3>6, <5>1 DEF IsInjective
        <5> QED BY <3>7, <5>1, <5>2
      <4> QED BY <3>4, <4>1 DEF ToSet
    <3>9. IsInjective(Append(r.applied, Head(Top.todo)))
      BY <2>1, <2>2, <3>4, <3>8, AppendKeeps
    <3> QED BY <2>1, <2>4, <3>1, <3>9
  <2>8. ASSUME NEW b \in Actions, Called(p, b) \/ Kept(p, b)
        PROVE  IsInjective(prov'[p].actions) /\ IsInjective(prov'[p].applied)
    <3>1. \/ prov'[p].actions = r.actions /\ prov'[p].applied = Append(r.applied, b)
          \/ prov'[p].actions = Append(r.actions, b) /\ prov'[p].applied = r.applied
      BY <2>1, <2>8 DEF Called, Kept, ProviderRecords
    <3>2. b \notin UsedIn(r)
      BY <1>5, <2>3, <2>8, GivenIsNew DEF Called, Kept
    <3>3. b \notin ToSet(r.actions) /\ b \notin ToSet(r.applied)
      BY <3>2 DEF UsedIn
    <3>4. IsInjective(Append(r.actions, b)) /\ IsInjective(Append(r.applied, b))
      BY <2>1, <2>2, <3>3, AppendKeeps
    <3> HIDE DEF r
    <3> QED BY <2>1, <3>1, <3>4
  <2> QED BY <2>1, <2>4, <2>5, <2>6, <2>7, <2>8 DEF ProviderStep
<1> QED BY <1>4, <1>5, NewProviders

\* What joins the lists of a container.
LEMMA ListsFrom ==
    ASSUME Typed, Once, Step, NEW c \in Containers
    PROVE  /\ \/ future'[c] = future[c]
              \/ \E a \in Actions :
                    /\ future'[c] = Append(future[c], a) /\ a \in 1..issued' /\ onRemove' = onRemove
                    /\ \A d \in Containers : a \notin ToSet(future[d]) /\ a \notin ToSet(onRemove[d])
                    /\ (Issue /\ a = Fresh) \/ (EndsWalk /\ a = Top.a)
           /\ \/ onRemove'[c] = onRemove[c]
              \/ Issue /\ onRemove'[c] = Append(onRemove[c], Fresh) /\ future' = future /\ prov' = prov
<1>1. future \in [Containers -> Seq(Actions)] /\ onRemove \in [Containers -> Seq(Actions)]
  BY TypedParts
<1>2. CASE UNCHANGED <<future, onRemove>>
  BY <1>2
<1>3. ASSUME NEW d \in Containers, Listens(d)
      PROVE  /\ future' = future /\ Issue /\ prov' = prov
             /\ onRemove'[c] = onRemove[c] \/ onRemove'[c] = Append(onRemove[c], Fresh)
  BY <1>1, <1>3 DEF Listens
<1>4. ASSUME NEW d \in Containers, NEW kind \in Walks, StartsWalk(kind, d)
      PROVE  /\ onRemove' = onRemove /\ Issue
             /\ future'[c] = future[c] \/ future'[c] = Append(future[c], Fresh)
  BY <1>1, <1>4 DEF StartsWalk
<1>5. ASSUME Issue
      PROVE  /\ Fresh \in Actions /\ Fresh \in 1..issued'
             /\ \A d \in Containers : Fresh \notin ToSet(future[d]) /\ Fresh \notin ToSet(onRemove[d])
  BY <1>5, IssueIsAction, FreshIsNew
<1>6. CASE EndsWalk
  <2>1. Top.kind \in Walks /\ Top.a \in 1..issued /\ Top.c \in Containers /\ WalkOnce(Top, prov, future, onRemove)
    BY <1>6, TopOnce DEF Frames
  <2>2. /\ onRemove' = onRemove /\ issued' = issued
        /\ future' = IF Top.kind = "all" THEN [future EXCEPT ![Top.c] = Append(@, Top.a)] ELSE future
    BY <1>6 DEF EndsWalk
  <2>3. Top.a \in Actions
    <3>1. 1..issued \subseteq Actions
      BY TypedParts DEF Actions
    <3> QED BY <2>1, <3>1
  <2>4. CASE Top.kind # "all"
    BY <2>2, <2>4
  <2>5. CASE Top.kind = "all"
    <3>1. \A d \in Containers : Top.a \notin ToSet(future[d]) /\ Top.a \notin ToSet(onRemove[d])
      BY <2>1, <2>5 DEF WalkOnce
    <3>2. future'[c] = future[c] \/ future'[c] = Append(future[c], Top.a)
      BY <1>1, <2>1, <2>2, <2>5
    <3> QED BY <1>6, <2>1, <2>2, <2>3, <3>1, <3>2
  <2> QED BY <2>4, <2>5
<1>7. UNCHANGED <<future, onRemove>> \/ EndsWalk
      \/ \E d \in Containers : Listens(d) \/ \E kind \in Walks : StartsWalk(kind, d)
  <2>1. UNCHANGED otherVars => UNCHANGED <<future, onRemove>>
    BY DEF otherVars
  <2> QED BY <2>1 DEF Step, Throws, Starts, Runs, Finishes, Visits, RunsRemoval, Turns, FreezeStarts, FreezeMoves,
             FreezePasses, FreezeReturns, FreezeEnds, Configures, Registers, TakesOut
<1>8. ASSUME NEW d \in Containers, NEW kind \in Walks, StartsWalk(kind, d)
      PROVE  /\ onRemove'[c] = onRemove[c]
             /\ \/ future'[c] = future[c]
                \/ \E a \in Actions :
                      /\ future'[c] = Append(future[c], a) /\ a \in 1..issued' /\ onRemove' = onRemove
                      /\ \A e \in Containers : a \notin ToSet(future[e]) /\ a \notin ToSet(onRemove[e])
                      /\ (Issue /\ a = Fresh) \/ (EndsWalk /\ a = Top.a)
  BY <1>4, <1>5, <1>8
<1> QED BY <1>2, <1>3, <1>6, <1>7, <1>8

LEMMA ListsStep ==
    ASSUME Typed, Once, Step
    PROVE  ListsOnce(future', onRemove', issued')
<1>1. /\ future \in [Containers -> Seq(Actions)] /\ onRemove \in [Containers -> Seq(Actions)]
      /\ 1..issued \subseteq 1..issued'
  BY StepGrows, TypedParts DEF Grows
<1>2. ASSUME NEW c \in Containers
      PROVE  IsInjective(future'[c]) /\ ToSet(future'[c]) \subseteq 1..issued'
  <2>1. IsInjective(future[c]) /\ ToSet(future[c]) \subseteq 1..issued'
    BY <1>1 DEF Once, ListsOnce
  <2>2. ASSUME NEW a \in Actions, future'[c] = Append(future[c], a), a \in 1..issued', a \notin ToSet(future[c])
        PROVE  IsInjective(future'[c]) /\ ToSet(future'[c]) \subseteq 1..issued'
    BY <1>1, <2>1, <2>2, AppendKeeps
  <2> QED BY <2>1, <2>2, ListsFrom
<1>3. ASSUME NEW c \in Containers
      PROVE  IsInjective(onRemove'[c]) /\ ToSet(onRemove'[c]) \subseteq 1..issued'
  <2>1. IsInjective(onRemove[c]) /\ ToSet(onRemove[c]) \subseteq 1..issued'
    BY <1>1 DEF Once, ListsOnce
  <2>2. ASSUME Issue, onRemove'[c] = Append(onRemove[c], Fresh)
        PROVE  IsInjective(onRemove'[c]) /\ ToSet(onRemove'[c]) \subseteq 1..issued'
    <3>1. Fresh \in Actions /\ Fresh \in 1..issued' /\ Fresh \notin ToSet(onRemove[c])
      BY <2>2, IssueIsAction, FreshIsNew
    <3> QED BY <1>1, <2>1, <2>2, <3>1, AppendKeeps
  <2> QED BY <2>1, <2>2, ListsFrom
<1>4. ASSUME NEW c \in Containers, NEW d \in Containers
      PROVE  ToSet(future'[c]) \cap ToSet(onRemove'[d]) = {}
  <2>1. ToSet(future[c]) \cap ToSet(onRemove[d]) = {}
    BY DEF Once, ListsOnce
  <2>2. ASSUME NEW a \in Actions, future'[c] = Append(future[c], a), onRemove' = onRemove, a \notin ToSet(onRemove[d])
        PROVE  ToSet(future'[c]) \cap ToSet(onRemove'[d]) = {}
    <3>1. ToSet(future'[c]) = ToSet(future[c]) \cup {a}
      BY <1>1, <2>2, AppendKeeps
    <3> QED BY <2>1, <2>2, <3>1
  <2>3. ASSUME Issue, onRemove'[d] = Append(onRemove[d], Fresh), future' = future
        PROVE  ToSet(future'[c]) \cap ToSet(onRemove'[d]) = {}
    <3>1. ToSet(onRemove'[d]) = ToSet(onRemove[d]) \cup {Fresh} /\ Fresh \notin ToSet(future[c])
      BY <1>1, <2>3, IssueIsAction, FreshIsNew, AppendKeeps
    <3> QED BY <2>1, <2>3, <3>1
  <2>4. CASE future'[c] = future[c]
    BY <2>1, <2>3, <2>4, ListsFrom
  <2>5. CASE future'[c] # future[c]
    BY <2>2, <2>5, ListsFrom
  <2> QED BY <2>4, <2>5
<1> QED BY <1>2, <1>3, <1>4 DEF ListsOnce

LEMMA RemovalsFrom ==
    ASSUME Typed, Once, Step, NEW c \in Containers
    PROVE  /\ ToSet(onRemove[c]) \subseteq ToSet(onRemove'[c])
           /\ \A a \in ToSet(onRemove'[c]) : a \in ToSet(onRemove[c]) \/ (Issue /\ a = Fresh /\ prov' = prov)
<1>1. onRemove[c] \in Seq(Actions)
  BY TypedParts
<1>2. ASSUME Issue, onRemove'[c] = Append(onRemove[c], Fresh)
      PROVE  ToSet(onRemove'[c]) = ToSet(onRemove[c]) \cup {Fresh}
  BY <1>1, <1>2, IssueIsAction, AppendKeeps
<1> QED BY <1>2, ListsFrom

LEMMA HomesStep ==
    ASSUME Typed, Once, Step
    PROVE  Homes(entries', prov')
<1> SUFFICES ASSUME NEW c \in Containers, NEW p \in ToSet(entries'[c]) PROVE prov'[p].home = c
  BY DEF Homes
<1>1. CASE p \in ToSet(entries[c]) /\ p \in Providers
  <2>1. prov[p].home = c
    BY <1>1 DEF Once, Homes
  <2> QED BY <1>1, <2>1, StepGrows DEF Grows, ProvidersStay
<1>2. ASSUME NEW own \in BOOLEAN, Registers(c, p, own) PROVE prov'[p].home = c
  BY <1>2 DEF Registers
<1> QED BY <1>1, <1>2, EntriesFrom

LEMMA UnremovedStep ==
    ASSUME Typed, Sound(stack, prov), Once, Step
    PROVE  Unremoved(entries', prov', onRemove')
<1> SUFFICES ASSUME NEW c \in Containers, NEW d \in Containers, NEW p \in ToSet(entries'[c]),
                    NEW a \in UsedIn(prov'[p]), a \in ToSet(onRemove'[d])
             PROVE  FALSE
  BY DEF Unremoved
<1>1. ASSUME NEW own \in BOOLEAN, Registers(c, p, own) PROVE FALSE
  <2>1. onRemove' = onRemove
    BY <1>1 DEF Registers
  <2>2. a \in ToSet(future[c]) \/ (Issue /\ a = Fresh)
    BY <1>1, RegisterOnce
  <2>3. ToSet(future[c]) \cap ToSet(onRemove[d]) = {}
    BY DEF Once, ListsOnce
  <2> QED BY <2>1, <2>2, <2>3, FreshIsNew
<1>2. CASE p \in ToSet(entries[c]) /\ p \in Providers
  <2>1. UsedIn(prov[p]) \cap ToSet(onRemove[d]) = {}
    BY <1>2 DEF Once, Unremoved
  <2>2. CASE a \in ToSet(onRemove[d])
    <3>1. ~Given(p, a)
      BY <1>2, <2>2, GivenIsNew
    <3>2. RunsRemoval => p # Top.p
      BY <1>2, TopOnce DEF RemoveOnce
    <3> QED BY <1>2, <2>1, <2>2, <3>1, <3>2, UsedFrom
  <2>3. CASE Issue /\ a = Fresh /\ prov' = prov
    BY <1>2, <2>3, FreshIsNew
  <2> QED BY <2>2, <2>3, RemovalsFrom
<1> QED BY <1>1, <1>2, EntriesFrom

LEMMA KeepsLess ==
    ASSUME NEW f, NEW g \in Frames, Keeps(f, g), IsInjective(g.todo)
    PROVE  IsInjective(f.todo) /\ ToSet(f.todo) \subseteq ToSet(g.todo)
<1>1. g.todo \in Seq(Nat)
  BY DEF Frames
<1> QED BY <1>1, TailKeeps DEF Keeps

LEMMA WalkStep ==
    ASSUME Typed, Sound(stack, prov), Once, Step, NEW i \in 1..Len(stack')
    PROVE  WalkOnce(stack'[i], prov', future', onRemove')
<1> DEFINE f == stack'[i]
           g == stack[i]
<1> SUFFICES ASSUME f.kind \in Walks
             PROVE  WalkOnce(f, prov', future', onRemove')
  BY DEF WalkOnce
<1>0. stack \in Seq(Frames) /\ Len(stack) \in Nat
  BY TypedParts
<1>1. CASE GoesOn(i)
  <2>1. /\ i \in 1..Len(stack) /\ Keeps(f, g) /\ g \in Frames /\ FrameTyped(g, Len(prov), issued)
        /\ WalkOnce(g, prov, future, onRemove)
    BY <1>0, <1>1 DEF GoesOn, Typed, Once
  <2>2. g.kind \in Walks /\ g.kind = f.kind /\ f.a = g.a
    BY <2>1 DEF Keeps
  <2>3. g.a \in 1..issued /\ ToSet(g.todo) \subseteq Providers
    <3>1. g.a \in 1..issued /\ \A k \in 1..Len(g.todo) : g.todo[k] \in Providers
      BY <2>1, <2>2 DEF FrameTyped, Providers
    <3>2. DOMAIN g.todo = 1..Len(g.todo)
      BY <2>1 DEF Frames
    <3> QED BY <3>1, <3>2 DEF ToSet
  <2>4. IsInjective(f.todo) /\ ToSet(f.todo) \subseteq ToSet(g.todo)
    BY <2>1, <2>2, KeepsLess DEF WalkOnce
  <2>5. \A c \in Containers : f.a \notin ToSet(onRemove'[c])
    BY <2>1, <2>2, <2>3, RemovalsFrom, FreshIsNew DEF WalkOnce
  <2>6. ASSUME f.kind = "all", NEW c \in Containers PROVE f.a \notin ToSet(future'[c])
    <3>1. f.a \notin ToSet(future[c]) /\ future[c] \in Seq(Actions)
      BY <2>1, <2>2, <2>6, TypedParts DEF WalkOnce
    <3>2. EndsWalk => Top.a # f.a
      <4>1. EndsWalk => Top = stack[Len(stack)] /\ Len(stack) \in 1..Len(stack) /\ Top.kind \in Walks /\ i # Len(stack)
        BY <1>1, TopOnce DEF GoesOn
      <4> QED BY <2>1, <2>2, <4>1 DEF Once, Distinct
    <3>3. Issue => f.a # Fresh
      BY <2>2, <2>3, FreshIsNew
    <3>4. ASSUME NEW a \in Actions, future'[c] = Append(future[c], a), (Issue /\ a = Fresh) \/ (EndsWalk /\ a = Top.a)
          PROVE  f.a \notin ToSet(future'[c])
      <4>1. ToSet(future'[c]) = ToSet(future[c]) \cup {a}
        BY <3>1, <3>4, AppendKeeps
      <4> QED BY <3>1, <3>2, <3>3, <3>4, <4>1
    <3> QED BY <3>1, <3>4, ListsFrom
  <2>7. ASSUME NEW p \in ToSet(f.todo), f.a \in UsedIn(prov'[p]) PROVE FALSE
    <3>1. p \in Providers /\ p \in ToSet(g.todo) /\ f.a \notin UsedIn(prov[p])
      BY <2>1, <2>2, <2>3, <2>4, <2>7 DEF WalkOnce
    <3>2. ~(RunsRemoval /\ f.a = Head(Top.todo))
      <4>1. RunsRemoval => /\ Head(Top.todo) \in ToSet(Top.todo) /\ Top.c \in Containers
                           /\ ToSet(Top.todo) \subseteq ToSet(onRemove[Top.c])
        BY TopOnce DEF RemoveOnce, Frames
      <4> QED BY <2>1, <2>2, <4>1 DEF WalkOnce
    <3>3. ~(Visits /\ p = Head(Top.todo) /\ f.a = Top.a)
      <4> SUFFICES ASSUME Visits, p = Head(Top.todo), f.a = Top.a PROVE FALSE
        OBVIOUS
      <4>1. Top = stack[Len(stack)] /\ Len(stack) \in 1..Len(stack) /\ Top.kind \in Walks /\ Top.todo # <<>>
            /\ Top \in Frames /\ WalkOnce(Top, prov, future, onRemove)
        BY TopOnce
      <4>2. i = Len(stack)
        BY <2>1, <2>2, <4>1 DEF Once, Distinct
      <4>3. f.todo = Tail(Top.todo)
        BY <1>1, <4>2 DEF GoesOn
      <4>4. Top.todo \in Seq(Nat) /\ IsInjective(Top.todo)
        BY <4>1 DEF Frames, WalkOnce
      <4> QED BY <2>7, <4>1, <4>3, <4>4, TailKeeps
    <3>4. ASSUME NEW c \in Containers, Configures(c, p) PROVE f.a # Fresh
      BY <2>2, <2>3, <3>4, FreshIsNew DEF Configures
    <3>5. ~Given(p, f.a)
      BY <3>3, <3>4 DEF Given
    <3> QED BY <2>7, <3>1, <3>2, <3>5, UsedFrom
  <2> QED BY <2>4, <2>5, <2>6, <2>7 DEF WalkOnce
<1>2. CASE Made(f)
  <2>1. f.a = Fresh /\ f.todo = entries[f.c] /\ StartsWalk(f.kind, f.c)
    BY <1>2 DEF Made, Walks
  <2>2. f.c \in Containers
    <3>1. stack'[i] \in Frames
      BY StepFrame
    <3> QED BY <3>1 DEF Frames
  <2>3. Issue /\ onRemove' = onRemove /\ prov' = prov /\ (f.kind = "all" => future' = future)
    BY <2>1 DEF StartsWalk
  <2>4. IsInjective(entries[f.c]) /\ ToSet(entries[f.c]) \subseteq Providers
    BY <2>2, EntriesApart, EntriesAreProviders
  <2> HIDE DEF f
  <2> QED BY <2>1, <2>3, <2>4, FreshIsNew DEF WalkOnce
<1> QED BY <1>1, <1>2, StepGoesOn

LEMMA RemoveStep ==
    ASSUME Typed, Sound(stack, prov), Once, Step, NEW i \in 1..Len(stack')
    PROVE  RemoveOnce(stack'[i], entries', prov', onRemove')
<1> DEFINE f == stack'[i]
           g == stack[i]
<1> SUFFICES ASSUME f.kind = "removed"
             PROVE  RemoveOnce(f, entries', prov', onRemove')
  BY DEF RemoveOnce
<1>0. stack \in Seq(Frames) /\ Len(stack) \in Nat
  BY TypedParts
<1>1. CASE GoesOn(i)
  <2>1. /\ i \in 1..Len(stack) /\ Keeps(f, g) /\ g \in Frames /\ FrameTyped(g, Len(prov), issued)
        /\ RemoveOnce(g, entries, prov, onRemove)
    BY <1>0, <1>1 DEF GoesOn, Typed, Once
  <2>2. g.kind = "removed" /\ f.p = g.p /\ f.c = g.c /\ f.p \in Providers /\ f.c \in Containers
    BY <2>1 DEF Keeps, FrameTyped, Frames, Providers
  <2>3. /\ \A c \in Containers : f.p \notin ToSet(entries[c])
        /\ IsInjective(g.todo) /\ ToSet(g.todo) \subseteq ToSet(onRemove[f.c])
        /\ UsedIn(prov[f.p]) \cap ToSet(g.todo) = {}
    BY <2>1, <2>2 DEF RemoveOnce
  <2>4. IsInjective(f.todo) /\ ToSet(f.todo) \subseteq ToSet(g.todo)
    BY <2>1, <2>3, KeepsLess
  <2>5. ASSUME NEW c \in Containers PROVE f.p \notin ToSet(entries'[c])
    <3>1. \A own \in BOOLEAN : ~Registers(c, f.p, own)
      BY <2>2, TypedParts DEF Registers, Providers
    <3> QED BY <2>3, <3>1, EntriesFrom
  <2>6. ToSet(f.todo) \subseteq ToSet(onRemove'[f.c])
    BY <2>2, <2>3, <2>4, RemovalsFrom
  <2>7. ASSUME NEW a \in ToSet(f.todo), a \in UsedIn(prov'[f.p]) PROVE FALSE
    <3>1. a \in ToSet(onRemove[f.c]) /\ a \notin UsedIn(prov[f.p])
      BY <2>3, <2>4
    <3>2. ~Given(f.p, a)
      BY <2>2, <3>1, GivenIsNew
    <3>3. ~(RunsRemoval /\ f.p = Top.p /\ a = Head(Top.todo))
      <4> SUFFICES ASSUME RunsRemoval, f.p = Top.p, a = Head(Top.todo) PROVE FALSE
        OBVIOUS
      <4>1. Top = stack[Len(stack)] /\ Len(stack) \in 1..Len(stack) /\ Top.kind = "removed" /\ Top.todo # <<>>
            /\ Top \in Frames /\ RemoveOnce(Top, entries, prov, onRemove)
        BY TopOnce
      <4>2. i = Len(stack)
        BY <2>1, <2>2, <4>1 DEF Once, Distinct
      <4>3. f.todo = Tail(Top.todo)
        BY <1>1, <4>2 DEF GoesOn
      <4>4. Top.todo \in Seq(Nat) /\ IsInjective(Top.todo)
        BY <4>1 DEF Frames, RemoveOnce
      <4> QED BY <2>7, <4>1, <4>3, <4>4, TailKeeps
    <3> QED BY <2>2, <2>7, <3>1, <3>2, <3>3, UsedFrom
  <2> QED BY <2>4, <2>5, <2>6, <2>7 DEF RemoveOnce
<1>2. CASE Made(f)
  <2>1. f.todo = onRemove[f.c] /\ \E k \in 1..Len(entries[f.c]) : f.p = entries[f.c][k] /\ TakesOut(f.c, k)
    BY <1>2 DEF Made, Walks
  <2>2. PICK k \in 1..Len(entries[f.c]) : f.p = entries[f.c][k] /\ TakesOut(f.c, k)
    BY <2>1
  <2>3. f.c \in Containers
    <3>1. stack'[i] \in Frames
      BY StepFrame
    <3> QED BY <3>1 DEF Frames
  <2>4. entries' = [entries EXCEPT ![f.c] = RemoveAt(@, k)] /\ prov' = prov /\ onRemove' = onRemove
    BY <2>2 DEF TakesOut
  <2>5. entries \in [Containers -> Seq(Providers)] /\ IsInjective(entries[f.c]) /\ DOMAIN entries[f.c] = 1..Len(entries[f.c])
    BY <2>3, TypedParts, EntriesApart
  <2>6. f.p \in ToSet(entries[f.c])
    BY <2>2, <2>5 DEF ToSet
  <2>7. ASSUME NEW c \in Containers PROVE f.p \notin ToSet(entries'[c])
    <3>1. CASE c = f.c
      <4>1. entries'[c] = RemoveAt(entries[f.c], k)
        BY <2>3, <2>4, <2>5, <3>1
      <4> QED BY <2>2, <2>3, <2>5, <4>1, RemoveAtKeeps
    <3>2. CASE c # f.c
      <4>1. entries'[c] = entries[c]
        BY <2>4, <2>5, <3>2
      <4>2. prov[f.p].home = f.c /\ (f.p \in ToSet(entries[c]) => prov[f.p].home = c)
        BY <2>3, <2>6 DEF Once, Homes
      <4> QED BY <3>2, <4>1, <4>2
    <3> QED BY <3>1, <3>2
  <2>8. IsInjective(onRemove[f.c]) /\ UsedIn(prov[f.p]) \cap ToSet(onRemove[f.c]) = {}
    BY <2>3, <2>6 DEF Once, ListsOnce, Unremoved
  <2> HIDE DEF f
  <2> QED BY <2>1, <2>4, <2>7, <2>8 DEF RemoveOnce
<1> QED BY <1>1, <1>2, StepGoesOn

LEMMA DistinctStep ==
    ASSUME Typed, Once, Step
    PROVE  Distinct(stack')
<1>1. PICK k \in Nat : \A i \in 1..Len(stack') :
         stack'[i].kind \in Walks \cup {"removed"} => GoesOn(i) \/ (i = k /\ Made(stack'[i]))
  BY StepGoesOn
<1>2. ASSUME NEW i \in 1..Len(stack'), GoesOn(i)
      PROVE  /\ i \in 1..Len(stack) /\ stack'[i].kind = stack[i].kind
             /\ stack'[i].a = stack[i].a /\ stack'[i].p = stack[i].p
             /\ stack[i].kind \in Walks => stack[i].a \in 1..issued
             /\ stack[i].kind = "removed" => \A c \in Containers : stack[i].p \notin ToSet(entries[c])
  BY <1>2 DEF GoesOn, Keeps, Typed, FrameTyped, Once, RemoveOnce
<1>3. ASSUME NEW i \in 1..Len(stack'), Made(stack'[i])
      PROVE  /\ stack'[i].kind \in Walks => stack'[i].a \notin 1..issued
             /\ stack'[i].kind = "removed" => \E c \in Containers : stack'[i].p \in ToSet(entries[c])
  <2>1. stack'[i].c \in Containers
    <3>1. stack'[i] \in Frames
      BY StepFrame
    <3> QED BY <3>1 DEF Frames
  <2>2. ASSUME stack'[i].kind \in Walks PROVE stack'[i].a \notin 1..issued
    <3>1. stack'[i].a = Fresh /\ StartsWalk(stack'[i].kind, stack'[i].c)
      BY <1>3, <2>2 DEF Made, Walks
    <3> QED BY <3>1, FreshIsNew DEF StartsWalk
  <2>3. ASSUME stack'[i].kind = "removed" PROVE stack'[i].p \in ToSet(entries[stack'[i].c])
    <3>1. \E j \in 1..Len(entries[stack'[i].c]) : stack'[i].p = entries[stack'[i].c][j]
      BY <1>3, <2>3 DEF Made, Walks
    <3>2. DOMAIN entries[stack'[i].c] = 1..Len(entries[stack'[i].c])
      BY <2>1, TypedParts
    <3> QED BY <3>1, <3>2 DEF ToSet
  <2> QED BY <2>1, <2>2, <2>3
<1> SUFFICES ASSUME NEW i \in 1..Len(stack'), NEW j \in 1..Len(stack'),
                    \/ stack'[i].kind \in Walks /\ stack'[j].kind \in Walks /\ stack'[i].a = stack'[j].a
                    \/ stack'[i].kind = "removed" /\ stack'[j].kind = "removed" /\ stack'[i].p = stack'[j].p
             PROVE  i = j
  BY DEF Distinct
<1>4. CASE GoesOn(i) /\ GoesOn(j)
  BY <1>2, <1>4 DEF Once, Distinct
<1>5. CASE GoesOn(i) /\ Made(stack'[j])
  BY <1>2, <1>3, <1>5
<1>6. CASE Made(stack'[i]) /\ GoesOn(j)
  BY <1>2, <1>3, <1>6
<1> QED BY <1>1, <1>4, <1>5, <1>6

LEMMA StepOnce ==
    ASSUME Typed, Sound(stack, prov), Once, Step
    PROVE  Once'
<1>1. OwnOnce(prov', issued') /\ ListsOnce(future', onRemove', issued') /\ Homes(entries', prov')
      /\ Unremoved(entries', prov', onRemove') /\ Distinct(stack')
  BY OwnStep, ListsStep, HomesStep, UnremovedStep, DistinctStep
<1>2. \A i \in 1..Len(stack') : /\ WalkOnce(stack'[i], prov', future', onRemove')
                                /\ RemoveOnce(stack'[i], entries', prov', onRemove')
  BY WalkStep, RemoveStep
<1> QED BY <1>1, <1>2 DEF Once

LEMMA OnceAlways == Spec => []Once
<1>1. Init => Once
  <2> SUFFICES ASSUME Init PROVE Once
    OBVIOUS
  <2>1. /\ stack = <<>> /\ prov = <<>> /\ Len(stack) = 0 /\ Len(prov) = 0
        /\ \A c \in Containers : entries[c] = <<>> /\ future[c] = <<>> /\ onRemove[c] = <<>>
    BY DEF Init
  <2>2. IsInjective(<<>>) /\ ToSet(<<>>) = {}
    BY DEF IsInjective, ToSet
  <2>3. OwnOnce(prov, issued) /\ Distinct(stack)
        /\ \A i \in 1..Len(stack) : /\ WalkOnce(stack[i], prov, future, onRemove)
                                    /\ RemoveOnce(stack[i], entries, prov, onRemove)
    BY <2>1 DEF OwnOnce, Distinct
  <2>4. ListsOnce(future, onRemove, issued)
    BY <2>1, <2>2 DEF ListsOnce
  <2>5. Homes(entries, prov) /\ Unremoved(entries, prov, onRemove)
    BY <2>1, <2>2 DEF Homes, Unremoved
  <2> QED BY <2>3, <2>4, <2>5 DEF Once
<1>2. Typed /\ Sound(stack, prov) /\ Once /\ [Next]_vars => Once'
  <2> SUFFICES ASSUME Typed, Sound(stack, prov), Once, [Next]_vars PROVE Once'
    OBVIOUS
  <2>1. CASE Next
    BY <2>1, NextSteps, StepOnce
  <2>2. CASE UNCHANGED vars
    BY <2>2 DEF vars, otherVars, Once
  <2> QED BY <2>1, <2>2
<1> QED BY <1>1, <1>2, TypedAlways, SoundAlways, PTL DEF Spec

LEMMA PrefixPointwise ==
    ASSUME NEW S, NEW s \in Seq(S), NEW t \in Seq(S), Len(s) <= Len(t),
           \A i \in 1..Len(s) : t[i] = s[i]
    PROVE  IsPrefix(s, t)
<1>1. s = [i \in 1..Len(s) |-> s[i]]
  OBVIOUS
<1>2. SubSeq(t, 1, Len(s)) = [i \in 1..Len(s) |-> t[i]]
  <2>1. SubSeq(t, 1, Len(s)) \in Seq(S) /\ Len(SubSeq(t, 1, Len(s))) = Len(s)
        /\ \A i \in 1..Len(s) : SubSeq(t, 1, Len(s))[i] = t[i]
    OBVIOUS
  <2> QED BY <2>1
<1>3. SubSeq(s, 1, Len(s)) = [i \in 1..Len(s) |-> s[i]]
  <2>1. SubSeq(s, 1, Len(s)) \in Seq(S) /\ Len(SubSeq(s, 1, Len(s))) = Len(s)
        /\ \A i \in 1..Len(s) : SubSeq(s, 1, Len(s))[i] = s[i]
    OBVIOUS
  <2> QED BY <2>1
<1> QED BY <1>2, <1>3 DEF IsPrefix

\* Once a value is realized, every action its provider has been given has run on
\* it in the order it was given, and no action, of a walk, of a container's future
\* or removed objects or of a caller, ever runs twice on it: realize, configure,
\* register and remove cannot be interleaved by closures so that one does.
THEOREM AppliedInOrderHolds == Spec => []AppliedInOrder
<1>1. Typed /\ Sound(stack, prov) /\ Once => AppliedInOrder
  <2> SUFFICES ASSUME Typed, Sound(stack, prov), Once, NEW p \in Providers
               PROVE  /\ prov[p].state = "REALIZED" => IsPrefix(prov[p].actions, prov[p].applied)
                      /\ IsInjective(prov[p].applied)
    BY DEF AppliedInOrder
  <2>1. p \in 1..Len(prov)
    BY DEF Providers
  <2>2. IsInjective(prov[p].applied)
    BY <2>1 DEF Once, OwnOnce
  <2>3. HasHadAll(prov[p])
    BY <2>1 DEF Sound, Ordering
  <2>4. prov[p].actions \in Seq(Actions) /\ prov[p].applied \in Seq(Actions)
    <3>1. prov[p] \in ProviderRecords
      BY <2>1, TypedParts
    <3> QED BY <3>1 DEF ProviderRecords
  <2>5. prov[p].state = "REALIZED" => IsPrefix(prov[p].actions, prov[p].applied)
    BY <2>3, <2>4, PrefixPointwise DEF HasHadAll
  <2> QED BY <2>2, <2>5
<1> QED BY <1>1, TypedAlways, SoundAlways, OnceAlways, PTL

==============================================================================
