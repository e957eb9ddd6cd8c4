-------------------------- MODULE EnginePoolProofs ---------------------------
(***************************************************************************)
(* Proofs about EnginePool, for every set of threads and engines, every    *)
(* capacity and every set of faults.                                       *)
(***************************************************************************)
EXTENDS EnginePool, FiniteSetTheorems, SequenceTheorems, TLAPS

(***************************************************************************)
(* Where the engines are.  Type correctness alone is not inductive: what   *)
(* Offer appends to the queue is an engine only because a returning thread *)
(* holds one.                                                              *)
(***************************************************************************)

Placed == TypeOK /\ InPlace /\ Exclusive

LEMMA InitPlaced == Init => Placed
<1> SUFFICES ASSUME Init PROVE Placed
  OBVIOUS
<1>1. /\ permits \in Nat
      /\ waiters \in Seq(Threads)
      /\ idleEngines \in Seq(Engines)
      /\ Len(idleEngines) = 0
  BY CapacityAssumption DEF Init
<1>2. TypeOK
  <2>1. shuttingDown \in BOOLEAN
    BY DEF Init
  <2>5. totalCreated \in Int
    BY DEF Init
  <2>2. engine \in [Engines -> {"absent", "valid", "invalid"}]
    BY DEF Init
  <2>3. session \in [Threads -> [engine : Engines \cup {None}, closed : BOOLEAN]]
    BY DEF Init
  <2>4. pc \in [Threads -> Where] /\ hand \in [Threads -> Engines \cup {None}]
    BY DEF Init, Where
  <2> QED BY <1>1, <2>1, <2>2, <2>3, <2>4, <2>5 DEF TypeOK
<1>3. Leasing = {} /\ Holding = {} /\ \A places \in SUBSET (Where \ {"out"}) : At(places) = {}
  BY DEF Init, Leasing, Holding, At
<1>4. InPlace
  BY <1>1, <1>3 DEF Init, InPlace, Where
<1>5. Exclusive
  BY <1>1, <1>3 DEF Init, Exclusive
<1> QED BY <1>2, <1>4, <1>5 DEF Placed

\* The steps of acquire.
LEMMA AcquirePlaced ==
    ASSUME Placed, NEW t \in Threads, Acquire(t)
    PROVE  Placed'
<1> USE DEF Placed, TypeOK, Goto, Where, InPlace, Exclusive, Leasing, Holding, At
<1>1. CASE AcquireCheck(t)
  BY <1>1 DEF AcquireCheck
<1>2. CASE GrantPermit(t)
  BY <1>2 DEF GrantPermit
<1>3. CASE AcquireTimeout(t)
  <2>1. waiters' \in Seq(Threads)
    <3>1. waiters \in Seq(Threads)
      OBVIOUS
    <3>2. PICK i \in DOMAIN waiters :
             waiters' = SubSeq(waiters, 1, i - 1) \o SubSeq(waiters, i + 1, Len(waiters))
      BY <1>3 DEF AcquireTimeout
    <3> QED BY ONLY <3>1, <3>2
  <2>2. /\ Goto(t, "waiting", "out")
        /\ UNCHANGED <<shuttingDown, permits, idleEngines, totalCreated, engine, session, hand>>
    BY <1>3 DEF AcquireTimeout
  <2> QED BY <2>1, <2>2
<1>4. CASE Poll(t)
  <2>1. /\ pc[t] = "polling" /\ pc' = [pc EXCEPT ![t] = "checking"]
        /\ idleEngines # << >> /\ idleEngines' = Tail(idleEngines)
        /\ hand' = [hand EXCEPT ![t] = Head(idleEngines)]
        /\ UNCHANGED <<shuttingDown, permits, waiters, totalCreated, engine, session>>
    BY <1>4 DEF Poll
  <2>2. /\ Head(idleEngines) = idleEngines[1] /\ 1 \in DOMAIN idleEngines
        /\ idleEngines' \in Seq(Engines)
        /\ \A i \in DOMAIN idleEngines' :
              i + 1 \in DOMAIN idleEngines /\ idleEngines'[i] = idleEngines[i + 1] /\ i \in Nat
    <3>1. idleEngines \in Seq(Engines) /\ idleEngines # << >> /\ idleEngines' = Tail(idleEngines)
      BY <2>1
    <3> QED BY ONLY <3>1
  <2>3. TypeOK'
    <3>1. hand' \in [Threads -> Engines \cup {None}] /\ pc' \in [Threads -> Where]
      BY <2>1, <2>2
    <3> HIDE DEF InPlace, Exclusive
    <3> QED BY <2>1, <2>2, <3>1
  <2>4. /\ Holding' = Holding \cup {t} /\ t \notin Holding /\ Leasing' = Leasing
        /\ hand'[t] = idleEngines[1] /\ \A u \in Holding : hand'[u] = hand[u]
    <3>1. t \notin Holding
      BY <2>1
    <3>2. idleEngines[1] \in Engines /\ idleEngines[1] # None
      BY <2>2, NoneAssumption
    <3>3. hand' = [hand EXCEPT ![t] = idleEngines[1]] /\ hand \in [Threads -> Engines \cup {None}]
      BY <2>1, <2>2
    <3>4. Leasing' = Leasing
      BY <2>1
    <3> HIDE DEF Placed, TypeOK, InPlace, Exclusive, Leasing, Where
    <3> QED BY <3>1, <3>2, <3>3, <3>4
  <2>5. InPlace'
    BY <2>1, <2>2, <2>4
  <2>6. Exclusive'
    <3>1. /\ \A i \in DOMAIN idleEngines' : idleEngines'[i] # idleEngines[1]
          /\ \A i, j \in DOMAIN idleEngines' : idleEngines'[i] = idleEngines'[j] => i = j
      BY <2>2
    <3> HIDE DEF Leasing, Holding, TypeOK, InPlace, At, Goto
    <3> QED BY <2>1, <2>2, <2>4, <3>1
  <2> QED BY <2>3, <2>5, <2>6
<1>5. CASE PollEmpty(t)
  BY <1>5 DEF PollEmpty
<1>6. CASE CheckValid(t)
  BY <1>6 DEF CheckValid
<1>7. CASE CheckInvalid(t)
  BY <1>7 DEF CheckInvalid
<1>8. CASE Create(t)
  <2>1. PICK e \in Engines :
          /\ engine[e] = "absent"
          /\ pc[t] = "creating" /\ pc' = [pc EXCEPT ![t] = "counting"]
          /\ engine' = [engine EXCEPT ![e] = "valid"]
          /\ hand' = [hand EXCEPT ![t] = e]
          /\ UNCHANGED <<shuttingDown, permits, waiters, idleEngines, totalCreated, session>>
    BY <1>8 DEF Create
  <2>2. TypeOK'
    <3> HIDE DEF InPlace, Exclusive
    <3> QED BY <2>1
  <2>3. /\ Holding' = Holding \cup {t} /\ t \notin Holding /\ Leasing' = Leasing
        /\ hand'[t] = e /\ \A u \in Holding : hand'[u] = hand[u] /\ hand[u] # e
        /\ \A u \in Leasing : session[u].engine # e
        /\ \A i \in DOMAIN idleEngines : idleEngines[i] # e
    BY <2>1, NoneAssumption
  <2>4. InPlace'
    BY <2>1, <2>3
  <2>5. Exclusive'
    <3> HIDE DEF Leasing, Holding, TypeOK, InPlace, At, Goto
    <3> QED BY <2>1, <2>3
  <2> QED BY <2>2, <2>4, <2>5
<1>9. CASE CreateThrows(t)
  BY <1>9 DEF CreateThrows
<1>10. CASE CreateNull(t)
  BY <1>10 DEF CreateNull
<1>11. CASE Count(t)
  BY <1>11 DEF Count
<1>12. CASE Open(t)
  BY <1>12 DEF Open
<1>13. CASE OpenThrows(t)
  BY <1>13 DEF OpenThrows
<1> QED BY <1>1, <1>2, <1>3, <1>4, <1>5, <1>6, <1>7, <1>8, <1>9, <1>10, <1>11, <1>12, <1>13 DEF Acquire

\* The steps of returnEngine.
LEMMA ReturnPlaced ==
    ASSUME Placed, NEW t \in Threads, Return(t)
    PROVE  Placed'
<1> USE DEF Placed, TypeOK, Goto, Where, InPlace, Exclusive, Leasing, Holding, At
<1>1. CASE ReturnCheck(t)
  BY <1>1 DEF ReturnCheck
<1>2. CASE Offer(t)
  BY <1>2 DEF Offer
<1>3. CASE Retire(t)
  BY <1>3 DEF Retire
<1>4. CASE RetireThrows(t)
  BY <1>4 DEF RetireThrows
<1>5. CASE Uncount(t)
  BY <1>5 DEF Uncount
<1>6. CASE Release(t)
  BY <1>6 DEF Release
<1> QED BY <1>1, <1>2, <1>3, <1>4, <1>5, <1>6 DEF Return

\* The steps of close.
LEMMA ClosePlaced ==
    ASSUME Placed, NEW t \in Threads, Close(t)
    PROVE  Placed'
<1> USE DEF Placed, TypeOK, Goto, Where, InPlace, Exclusive, Leasing, Holding, At
<1>1. CASE CloseBegin(t)
  BY <1>1 DEF CloseBegin
<1>2. CASE Drain(t)
  <2>1. /\ pc[t] = "draining" /\ pc' = [pc EXCEPT ![t] = "destroying"]
        /\ idleEngines # << >> /\ idleEngines' = Tail(idleEngines)
        /\ hand' = [hand EXCEPT ![t] = Head(idleEngines)]
        /\ UNCHANGED <<shuttingDown, permits, waiters, totalCreated, engine, session>>
    BY <1>2 DEF Drain
  <2>2. /\ Head(idleEngines) = idleEngines[1] /\ 1 \in DOMAIN idleEngines
        /\ idleEngines' \in Seq(Engines)
        /\ \A i \in DOMAIN idleEngines' :
              i + 1 \in DOMAIN idleEngines /\ idleEngines'[i] = idleEngines[i + 1] /\ i \in Nat
    <3>1. idleEngines \in Seq(Engines) /\ idleEngines # << >> /\ idleEngines' = Tail(idleEngines)
      BY <2>1
    <3> QED BY ONLY <3>1
  <2>3. TypeOK'
    <3>1. hand' \in [Threads -> Engines \cup {None}] /\ pc' \in [Threads -> Where]
      BY <2>1, <2>2
    <3> HIDE DEF InPlace, Exclusive
    <3> QED BY <2>1, <2>2, <3>1
  <2>4. /\ Holding' = Holding \cup {t} /\ t \notin Holding /\ Leasing' = Leasing
        /\ hand'[t] = idleEngines[1] /\ \A u \in Holding : hand'[u] = hand[u]
    <3>1. t \notin Holding
      BY <2>1
    <3>2. idleEngines[1] \in Engines /\ idleEngines[1] # None
      BY <2>2, NoneAssumption
    <3>3. hand' = [hand EXCEPT ![t] = idleEngines[1]] /\ hand \in [Threads -> Engines \cup {None}]
      BY <2>1, <2>2
    <3>4. Leasing' = Leasing
      BY <2>1
    <3> HIDE DEF Placed, TypeOK, InPlace, Exclusive, Leasing, Where
    <3> QED BY <3>1, <3>2, <3>3, <3>4
  <2>5. InPlace'
    BY <2>1, <2>2, <2>4
  <2>6. Exclusive'
    <3>1. /\ \A i \in DOMAIN idleEngines' : idleEngines'[i] # idleEngines[1]
          /\ \A i, j \in DOMAIN idleEngines' : idleEngines'[i] = idleEngines'[j] => i = j
      BY <2>2
    <3> HIDE DEF Leasing, Holding, TypeOK, InPlace, At, Goto
    <3> QED BY <2>1, <2>2, <2>4, <3>1
  <2> QED BY <2>3, <2>5, <2>6
<1>3. CASE DrainDestroy(t)
  BY <1>3 DEF DrainDestroy
<1>4. CASE DrainCount(t)
  BY <1>4 DEF DrainCount
<1>5. CASE DrainThrows(t)
  BY <1>5 DEF DrainThrows
<1>6. CASE DrainEnd(t)
  BY <1>6 DEF DrainEnd
<1> QED BY <1>1, <1>2, <1>3, <1>4, <1>5, <1>6 DEF Close

LEMMA NextPlaced == Placed /\ [Next]_vars => Placed'
<1> SUFFICES ASSUME Placed, [Next]_vars PROVE Placed'
  OBVIOUS
<1> USE DEF Placed, TypeOK, Goto, Where, InPlace, Exclusive, Leasing, Holding, At
<1>1. ASSUME NEW t \in Threads, NEW u \in Threads, CloseSession(t, u) PROVE Placed'
  <2> USE <1>1 DEF CloseSession
  <2>1. TypeOK'
    <3>1. session' \in [Threads -> [engine : Engines \cup {None}, closed : BOOLEAN]]
      <4> HIDE DEF InPlace, Exclusive, Leasing, Holding, At
      <4>1. session[u] \in [engine : Engines \cup {None}, closed : BOOLEAN]
        OBVIOUS
      <4>2. [session[u] EXCEPT !.closed = TRUE]
              \in [engine : Engines \cup {None}, closed : BOOLEAN]
        BY ONLY <4>1
      <4> QED BY <4>2
    <3>2. hand' \in [Threads -> Engines \cup {None}] /\ pc' \in [Threads -> Where]
      OBVIOUS
    <3> HIDE DEF InPlace, Exclusive, Leasing, Holding, At
    <3> QED BY <3>1, <3>2
  <2>2. /\ session[u].engine \in Engines /\ session[u].engine # None
        /\ Leasing' = Leasing \ {u}
        /\ Holding' = Holding \cup {t}
        /\ hand' = [hand EXCEPT ![t] = session[u].engine]
        /\ \A v \in Threads : session'[v].engine = session[v].engine
        /\ t \notin Holding
    <3>1. /\ session[u].engine \in Engines /\ session[u].engine # None
          /\ Leasing' = Leasing \ {u}
          /\ \A v \in Threads : session'[v].engine = session[v].engine
      BY NoneAssumption
    <3>2. t \notin Holding
      OBVIOUS
    <3>3. /\ hand' = [hand EXCEPT ![t] = session[u].engine] /\ hand \in [Threads -> Engines \cup {None}]
      OBVIOUS
    <3> HIDE DEF Placed, TypeOK, InPlace, Exclusive, Leasing, Where, CloseSession
    <3> QED BY <3>1, <3>2, <3>3
  <2>3. InPlace'
    BY <2>2
  <2>4. Exclusive'
    <3>1. /\ \A v \in Holding : hand'[v] = hand[v] /\ hand[v] # session[u].engine
          /\ hand'[t] = session[u].engine
          /\ u \in Leasing /\ \A v \in Leasing' : v \in Leasing /\ v # u
          /\ idleEngines' = idleEngines
      BY <2>2
    <3>2. \A i \in DOMAIN idleEngines : idleEngines[i] # session[u].engine
      BY <3>1
    <3>3. \A v \in Leasing' : session'[v].engine = session[v].engine
                                /\ session[v].engine # session[u].engine
      BY <2>2, <3>1
    <3> HIDE DEF Leasing, Holding, TypeOK, InPlace, CloseSession
    <3> QED BY <2>2, <3>1, <3>2, <3>3
  <2> QED BY <2>1, <2>3, <2>4
<1>2. ASSUME NEW e \in Engines, EngineDies(e) PROVE Placed'
  BY <1>2 DEF EngineDies
<1>3. CASE UNCHANGED vars
  BY <1>3 DEF vars
<1> QED BY <1>1, <1>2, <1>3, AcquirePlaced, ReturnPlaced, ClosePlaced DEF Next

THEOREM PlacedAlways == Spec => []Placed
BY InitPlaced, NextPlaced, PTL DEF Spec

(***************************************************************************)
(* Counting.  Making holds a permit and an engine of its own or the right  *)
(* to create one; Giving has an engine to return that is not back in the   *)
(* queue, or is still counted.                                             *)
(***************************************************************************)

Making == {"checking", "creating", "counting", "opening"}
Giving == {"returning", "offering", "retiring", "uncounting"}

LEMMA AtMoves ==
    ASSUME NEW CONSTANT places, NEW t \in Threads, NEW from, NEW to,
           pc \in [Threads -> Where], Goto(t, from, to)
    PROVE  /\ Cardinality(At(places)) \in Nat
           /\ Cardinality(At(places))' \in Nat
           /\ Cardinality(At(places))' = Cardinality(At(places))
                  + (IF to \in places THEN 1 ELSE 0) - (IF from \in places THEN 1 ELSE 0)
<1> DEFINE rest == At(places) \ {t}
<1>1. IsFiniteSet(Threads)
  BY ThreadsAssumption
<1>2. IsFiniteSet(rest) /\ IsFiniteSet(At(places)) /\ IsFiniteSet(At(places)')
  BY <1>1, FS_Subset DEF At
<1>3. t \notin rest
  OBVIOUS
<1>4. At(places) = IF from \in places THEN rest \cup {t} ELSE rest
  BY DEF At, Goto
<1>5. At(places)' = IF to \in places THEN rest \cup {t} ELSE rest
  BY DEF At, Goto
<1>6. /\ Cardinality(rest) \in Nat
      /\ Cardinality(rest \cup {t}) = Cardinality(rest) + 1
  BY <1>2, <1>3, FS_AddElement, FS_CardinalityType
<1> HIDE DEF rest
<1> QED BY <1>4, <1>5, <1>6

\* What a step from one place to another adds to the threads at some places.
Delta(places, from, to) ==
    (IF to \in places THEN 1 ELSE 0) - (IF from \in places THEN 1 ELSE 0)

\* The permits held, the engines that a permit stands for, and the error of
\* totalCreated.
Claimed == Len(idleEngines) + Cardinality(Leasing) + Cardinality(At(Making))
             + Cardinality(At(Giving))
Covered == Reachable + StillCounted - Uncounted

AcquirePlaces == {"polling", "checking", "creating", "counting", "opening"}
ReturnPlaces  == {"returning", "offering", "retiring", "uncounting", "releasing"}

Lossy   == Faults \cap {"createNull", "destroyThrows"} # {}
Drifts  == Faults \cap {"createNull", "destroyThrows", "engineDies"} # {}

Accounts ==
    /\ permits + PermitsOut <= Capacity
    /\ Lossy \/ permits + PermitsOut = Capacity
    /\ Claimed <= Capacity
    /\ Covered <= totalCreated
    /\ Drifts \/ Covered = totalCreated

\* One session at a time, also while its owner is inside acquire.
SessionClosedInAcquire ==
    \A t \in Threads : pc[t] \in AcquirePlaces \cup {"waiting"} => session[t].closed

\* close() runs once.
ClosePlaces == {"draining", "destroying", "discounting"}
OneCloser ==
    /\ shuttingDown \/ At(ClosePlaces) = {}
    /\ \A t, u \in At(ClosePlaces) : t = u

Counted == Placed /\ SessionClosedInAcquire /\ OneCloser /\ Accounts

LEMMA CountsAreNat ==
    ASSUME TypeOK
    PROVE  /\ Cardinality(Leasing) \in Nat
           /\ Cardinality(Holding) \in Nat
           /\ \A places : Cardinality(At(places)) \in Nat
           /\ Len(idleEngines) \in Nat
<1>1. Len(idleEngines) \in Nat
  BY DEF TypeOK
<1>2. \A places : IsFiniteSet(At(places))
  BY ThreadsAssumption, FS_Subset DEF At
<1> QED BY <1>1, <1>2, ThreadsAssumption, FS_Subset, FS_CardinalityType DEF Leasing, Holding

LEMMA LeasingGrows ==
    ASSUME TypeOK, NEW t \in Threads, session[t].closed, Open(t)
    PROVE  Cardinality(Leasing)' = Cardinality(Leasing) + 1
<1>1. Leasing' = Leasing \cup {t} /\ t \notin Leasing
  BY DEF TypeOK, Leasing, Open
<1>2. IsFiniteSet(Leasing)
  BY ThreadsAssumption, FS_Subset DEF Leasing
<1> QED BY <1>1, <1>2, FS_AddElement

LEMMA LeasingShrinks ==
    ASSUME TypeOK, NEW t \in Threads, NEW u \in Threads, CloseSession(t, u)
    PROVE  Cardinality(Leasing)' = Cardinality(Leasing) + (-1)
<1>1. Leasing' = Leasing \ {u} /\ u \in Leasing
  BY DEF TypeOK, Leasing, CloseSession
<1>2. IsFiniteSet(Leasing)
  BY ThreadsAssumption, FS_Subset DEF Leasing
<1> QED BY <1>1, <1>2, FS_RemoveElement, CountsAreNat

\* Taking an engine into the hand, and putting it down.
LEMMA HandTakes ==
    ASSUME TypeOK, NEW t \in Threads, NEW e, e # None, hand[t] = None,
           hand' = [hand EXCEPT ![t] = e]
    PROVE  Cardinality(Holding)' = Cardinality(Holding) + 1
<1>1. Holding' = Holding \cup {t} /\ t \notin Holding
  BY DEF TypeOK, Holding
<1>2. IsFiniteSet(Holding)
  BY ThreadsAssumption, FS_Subset DEF Holding
<1> QED BY <1>1, <1>2, FS_AddElement

LEMMA HandPutsDown ==
    ASSUME TypeOK, NEW t \in Threads, t \in Holding, hand' = [hand EXCEPT ![t] = None]
    PROVE  Cardinality(Holding)' = Cardinality(Holding) + (-1)
<1>1. Holding' = Holding \ {t}
  BY DEF TypeOK, Holding
<1>2. IsFiniteSet(Holding)
  BY ThreadsAssumption, FS_Subset DEF Holding
<1> QED BY <1>1, <1>2, FS_RemoveElement, CountsAreNat

LEMMA InitCounted == Init => Counted
<1> SUFFICES ASSUME Init PROVE Counted
  OBVIOUS
<1>1. Placed
  BY InitPlaced
<1>2. /\ Leasing = {} /\ Holding = {}
      /\ \A places \in SUBSET (Where \ {"out"}) : At(places) = {}
  BY DEF Init, Leasing, Holding, At
<1>3. /\ AcquirePlaces \in SUBSET (Where \ {"out"}) /\ ReturnPlaces \in SUBSET (Where \ {"out"})
      /\ Making \in SUBSET (Where \ {"out"}) /\ Giving \in SUBSET (Where \ {"out"})
      /\ ClosePlaces \in SUBSET (Where \ {"out"})
      /\ {"counting"} \in SUBSET (Where \ {"out"})
      /\ {"uncounting", "discounting"} \in SUBSET (Where \ {"out"})
  BY DEF AcquirePlaces, ReturnPlaces, Making, Giving, ClosePlaces, Where
<1>4. Len(idleEngines) = 0 /\ totalCreated = 0 /\ permits = Capacity
  BY DEF Init
<1>5. Cardinality({}) = 0
  BY FS_EmptySet
<1>6. PermitsOut = 0 /\ Claimed = 0 /\ Covered = 0
  <2>1. /\ Acquiring = {} /\ Returning = {} /\ At(Making) = {} /\ At(Giving) = {}
        /\ At({"counting"}) = {} /\ At({"uncounting", "discounting"}) = {}
    BY <1>2, <1>3 DEF Acquiring, Returning, AcquirePlaces, ReturnPlaces
  <2>2. /\ Cardinality(Leasing) = 0 /\ Cardinality(Holding) = 0
        /\ Cardinality(Acquiring) = 0 /\ Cardinality(Returning) = 0
        /\ Cardinality(At(Making)) = 0 /\ Cardinality(At(Giving)) = 0
        /\ Uncounted = 0 /\ StillCounted = 0
    BY <1>2, <1>5, <2>1 DEF Uncounted, StillCounted
  <2> QED BY <1>4, <2>2 DEF PermitsOut, Claimed, Covered, Reachable
<1>7. Accounts
  BY <1>4, <1>6, CapacityAssumption DEF Accounts
<1>8. OneCloser
  BY <1>2, <1>3 DEF OneCloser
<1>9. SessionClosedInAcquire
  BY DEF Init, SessionClosedInAcquire
<1> QED BY <1>1, <1>7, <1>8, <1>9 DEF Counted

\* What a step does to queue, sessions, hands, permits and counter, and whether
\* that keeps the accounts of a thread that goes from one place to another.
Changes(dQ, dL, dH, dP, dT) ==
    /\ Len(idleEngines)' = Len(idleEngines) + dQ
    /\ Cardinality(Leasing)' = Cardinality(Leasing) + dL
    /\ Cardinality(Holding)' = Cardinality(Holding) + dH
    /\ permits' = permits + dP
    /\ totalCreated' = totalCreated + dT

Keeps(from, to, dQ, dL, dH, dP, dT) ==
    LET dOut   == dL + Delta(AcquirePlaces, from, to) + Delta(ReturnPlaces, from, to)
        dClaim == dQ + dL + Delta(Making, from, to) + Delta(Giving, from, to)
        dCover == dQ + dL + dH + Delta({"uncounting", "discounting"}, from, to)
                    - Delta({"counting"}, from, to)
    IN  /\ dP + dOut <= 0
        /\ Lossy \/ dP + dOut = 0
        /\ dClaim <= 0 \/ Claimed' <= Capacity
        /\ dCover <= dT
        /\ Drifts \/ dCover = dT

LEMMA Balance ==
    ASSUME TypeOK, Accounts, NEW t \in Threads, NEW from, NEW to, Goto(t, from, to),
           NEW dQ \in Int, NEW dL \in Int, NEW dH \in Int, NEW dP \in Int, NEW dT \in Int,
           Changes(dQ, dL, dH, dP, dT), Keeps(from, to, dQ, dL, dH, dP, dT)
    PROVE  Accounts'
<1>1. pc \in [Threads -> Where] /\ permits \in Int /\ totalCreated \in Int /\ Capacity \in Int
  BY CapacityAssumption DEF TypeOK
<1> DEFINE SC == {"uncounting", "discounting"}
<1>2. ASSUME NEW CONSTANT places
      PROVE  /\ Cardinality(At(places)) \in Int /\ Delta(places, from, to) \in Int
             /\ Cardinality(At(places))' = Cardinality(At(places)) + Delta(places, from, to)
  <2>1. /\ Cardinality(At(places)) \in Nat
        /\ Cardinality(At(places))' = Cardinality(At(places))
                + (IF to \in places THEN 1 ELSE 0) - (IF from \in places THEN 1 ELSE 0)
    BY <1>1, AtMoves
  <2>2. Delta(places, from, to)
          = (IF to \in places THEN 1 ELSE 0) - (IF from \in places THEN 1 ELSE 0)
    BY DEF Delta
  <2> QED BY <2>1, <2>2
<1> DEFINE q == Len(idleEngines)
           l == Cardinality(Leasing)
           h == Cardinality(Holding)
           a == Cardinality(At(AcquirePlaces))
           r == Cardinality(At(ReturnPlaces))
           m == Cardinality(At(Making))
           g == Cardinality(At(Giving))
           s == Cardinality(At(SC))
           u == Cardinality(At({"counting"}))
           da == Delta(AcquirePlaces, from, to)
           dr == Delta(ReturnPlaces, from, to)
           dm == Delta(Making, from, to)
           dg == Delta(Giving, from, to)
           ds == Delta(SC, from, to)
           du == Delta({"counting"}, from, to)
<1>3. a \in Int /\ a' = a + da /\ da \in Int
  BY <1>2
<1>4. r \in Int /\ r' = r + dr /\ dr \in Int
  BY <1>2
<1>5. m \in Int /\ m' = m + dm /\ dm \in Int
  BY <1>2
<1>6. g \in Int /\ g' = g + dg /\ dg \in Int
  BY <1>2
<1>7. s \in Int /\ s' = s + ds /\ ds \in Int
  BY <1>2
<1>8. u \in Int /\ u' = u + du /\ du \in Int
  BY <1>2
<1>9. q \in Int /\ l \in Int /\ h \in Int
  BY CountsAreNat
<1>10. /\ q' = q + dQ /\ l' = l + dL /\ h' = h + dH
       /\ permits' = permits + dP /\ totalCreated' = totalCreated + dT
  BY DEF Changes
<1>11. /\ PermitsOut = l + a + r /\ Claimed = q + l + m + g
       /\ Covered = q + l + h + s - u
  BY DEF PermitsOut, Acquiring, Returning, AcquirePlaces, ReturnPlaces, Claimed, Covered,
         Reachable, StillCounted, Uncounted
<1>12. /\ PermitsOut' = l' + a' + r' /\ Claimed' = q' + l' + m' + g'
       /\ Covered' = q' + l' + h' + s' - u'
  BY DEF PermitsOut, Acquiring, Returning, AcquirePlaces, ReturnPlaces, Claimed, Covered,
         Reachable, StillCounted, Uncounted
<1>13. /\ dP + (dL + da + dr) <= 0
       /\ Lossy \/ dP + (dL + da + dr) = 0
       /\ dQ + dL + dm + dg <= 0 \/ Claimed' <= Capacity
       /\ dQ + dL + dH + ds - du <= dT
       /\ Drifts \/ dQ + dL + dH + ds - du = dT
  BY DEF Keeps
<1>14. /\ permits + PermitsOut <= Capacity
       /\ Lossy \/ permits + PermitsOut = Capacity
       /\ Claimed <= Capacity
       /\ Covered <= totalCreated
       /\ Drifts \/ Covered = totalCreated
  BY DEF Accounts
<1> HIDE DEF q, l, h, a, r, m, g, s, u, da, dr, dm, dg, ds, du
<1>15. /\ permits' + PermitsOut' <= Capacity
       /\ Lossy \/ permits' + PermitsOut' = Capacity
  BY ONLY <1>1, <1>3, <1>4, <1>9, <1>10, <1>11, <1>12, <1>13, <1>14, dP \in Int, dL \in Int
<1>16. Claimed' <= Capacity
  BY ONLY <1>1, <1>5, <1>6, <1>9, <1>10, <1>11, <1>12, <1>13, <1>14, dQ \in Int, dL \in Int
<1>17. /\ Covered' <= totalCreated'
       /\ Drifts \/ Covered' = totalCreated'
  BY ONLY <1>1, <1>7, <1>8, <1>9, <1>10, <1>11, <1>12, <1>13, <1>14,
          dQ \in Int, dL \in Int, dH \in Int, dT \in Int
<1> QED BY <1>15, <1>16, <1>17 DEF Accounts, Lossy, Drifts

\* A polling thread has a permit that no engine answers for yet.
LEMMA PollingIsNotMaking ==
    ASSUME NEW t \in Threads, pc[t] = "polling"
    PROVE  Cardinality(At(Making)) + 1 <= Cardinality(Acquiring)
<1>1. IsFiniteSet(Acquiring)
  BY ThreadsAssumption, FS_Subset DEF Acquiring, At
<1>2. IsFiniteSet(Acquiring \ {t}) /\ Cardinality(Acquiring \ {t}) = Cardinality(Acquiring) - 1
  BY <1>1, FS_RemoveElement DEF Acquiring, At
<1>3. At(Making) \subseteq Acquiring \ {t}
  BY DEF Acquiring, At, Making
<1>4. /\ Cardinality(At(Making)) <= Cardinality(Acquiring \ {t})
      /\ Cardinality(Acquiring) \in Nat
      /\ Cardinality(At(Making)) \in Nat
  BY <1>1, <1>2, <1>3, FS_Subset, FS_CardinalityType
<1> QED BY <1>2, <1>4

LEMMA GivingReturns == Cardinality(At(Giving)) <= Cardinality(Returning)
<1>1. IsFiniteSet(Returning)
  BY ThreadsAssumption, FS_Subset DEF Returning, At
<1>2. At(Giving) \subseteq Returning
  BY DEF Giving, Returning, At
<1> QED BY <1>1, <1>2, FS_Subset

\* Each step of acquire, with what it changes of the accounts.
LEMMA AcquireCounted ==
    ASSUME Counted, NEW t \in Threads, Acquire(t)
    PROVE  Accounts'
<1>1. TypeOK /\ InPlace /\ Accounts /\ SessionClosedInAcquire /\ pc \in [Threads -> Where]
  BY DEF Counted, Placed, TypeOK
<1> USE <1>1
<1>2. CASE AcquireCheck(t)
  <2>1. Goto(t, "out", "waiting")
    BY <1>2 DEF AcquireCheck
  <2>2. Len(idleEngines)' = Len(idleEngines) + 0
    BY <1>2, CountsAreNat DEF AcquireCheck
  <2>3. Cardinality(Leasing)' = Cardinality(Leasing) + 0
    <3>1. Leasing' = Leasing
      BY <1>2 DEF AcquireCheck, Leasing
    <3> QED BY <3>1, CountsAreNat
  <2>4. Cardinality(Holding)' = Cardinality(Holding) + 0
    <3>1. Holding' = Holding
      BY <1>2 DEF AcquireCheck, Holding
    <3> QED BY <3>1, CountsAreNat
  <2>5. permits' = permits + 0 /\ totalCreated' = totalCreated + 0
    BY <1>2 DEF AcquireCheck, TypeOK
  <2>6. Changes(0, 0, 0, 0, 0)
    BY <2>2, <2>3, <2>4, <2>5 DEF Changes
  <2>7. Keeps("out", "waiting", 0, 0, 0, 0, 0)
    BY DEF Keeps, Delta, AcquirePlaces, ReturnPlaces, Making, Giving
  <2> QED BY <2>1, <2>6, <2>7, Balance
<1>3. CASE GrantPermit(t)
  <2>1. Goto(t, "waiting", "polling")
    BY <1>3 DEF GrantPermit
  <2>2. Len(idleEngines)' = Len(idleEngines) + 0
    BY <1>3, CountsAreNat DEF GrantPermit
  <2>3. Cardinality(Leasing)' = Cardinality(Leasing) + 0
    <3>1. Leasing' = Leasing
      BY <1>3 DEF GrantPermit, Leasing
    <3> QED BY <3>1, CountsAreNat
  <2>4. Cardinality(Holding)' = Cardinality(Holding) + 0
    <3>1. Holding' = Holding
      BY <1>3 DEF GrantPermit, Holding
    <3> QED BY <3>1, CountsAreNat
  <2>5. permits' = permits + (-1) /\ totalCreated' = totalCreated + 0
    BY <1>3 DEF GrantPermit, TypeOK
  <2>6. Changes(0, 0, 0, -1, 0)
    BY <2>2, <2>3, <2>4, <2>5 DEF Changes
  <2>7. Keeps("waiting", "polling", 0, 0, 0, -1, 0)
    BY DEF Keeps, Delta, AcquirePlaces, ReturnPlaces, Making, Giving
  <2> QED BY <2>1, <2>6, <2>7, Balance
<1>4. CASE AcquireTimeout(t)
  <2>1. Goto(t, "waiting", "out")
    BY <1>4 DEF AcquireTimeout
  <2>2. Len(idleEngines)' = Len(idleEngines) + 0
    BY <1>4, CountsAreNat DEF AcquireTimeout
  <2>3. Cardinality(Leasing)' = Cardinality(Leasing) + 0
    <3>1. Leasing' = Leasing
      BY <1>4 DEF AcquireTimeout, Leasing
    <3> QED BY <3>1, CountsAreNat
  <2>4. Cardinality(Holding)' = Cardinality(Holding) + 0
    <3>1. Holding' = Holding
      BY <1>4 DEF AcquireTimeout, Holding
    <3> QED BY <3>1, CountsAreNat
  <2>5. permits' = permits + 0 /\ totalCreated' = totalCreated + 0
    BY <1>4 DEF AcquireTimeout, TypeOK
  <2>6. Changes(0, 0, 0, 0, 0)
    BY <2>2, <2>3, <2>4, <2>5 DEF Changes
  <2>7. Keeps("waiting", "out", 0, 0, 0, 0, 0)
    BY DEF Keeps, Delta, AcquirePlaces, ReturnPlaces, Making, Giving
  <2> QED BY <2>1, <2>6, <2>7, Balance
<1>5. CASE Poll(t)
  <2>1. Goto(t, "polling", "checking")
    BY <1>5 DEF Poll
  <2>2. Len(idleEngines)' = Len(idleEngines) + (-1)
    BY <1>5 DEF Poll, TypeOK
  <2>3. Cardinality(Leasing)' = Cardinality(Leasing) + 0
    <3>1. Leasing' = Leasing
      BY <1>5 DEF Poll, Leasing
    <3> QED BY <3>1, CountsAreNat
  <2>4. Cardinality(Holding)' = Cardinality(Holding) + 1
    <3>1. hand' = [hand EXCEPT ![t] = Head(idleEngines)]
      BY <1>5 DEF Poll
    <3>2. Head(idleEngines) \in Engines
      BY <1>5 DEF Poll, TypeOK
    <3>3. Head(idleEngines) # None /\ hand[t] = None
      BY <2>1, <3>2, NoneAssumption DEF InPlace, Holding, At, Goto
    <3> QED BY <3>1, <3>3, HandTakes
  <2>5. permits' = permits + 0 /\ totalCreated' = totalCreated + 0
    BY <1>5 DEF Poll, TypeOK
  <2>6. Changes(-1, 0, 1, 0, 0)
    BY <2>2, <2>3, <2>4, <2>5 DEF Changes
  <2>7. Keeps("polling", "checking", -1, 0, 1, 0, 0)
    BY DEF Keeps, Delta, AcquirePlaces, ReturnPlaces, Making, Giving
  <2> QED BY <2>1, <2>6, <2>7, Balance
<1>6. CASE PollEmpty(t)
  <2>1. Goto(t, "polling", "creating")
    BY <1>6 DEF PollEmpty
  <2>2. Len(idleEngines)' = Len(idleEngines) + 0
    BY <1>6, CountsAreNat DEF PollEmpty
  <2>3. Cardinality(Leasing)' = Cardinality(Leasing) + 0
    <3>1. Leasing' = Leasing
      BY <1>6 DEF PollEmpty, Leasing
    <3> QED BY <3>1, CountsAreNat
  <2>4. Cardinality(Holding)' = Cardinality(Holding) + 0
    <3>1. Holding' = Holding
      BY <1>6 DEF PollEmpty, Holding
    <3> QED BY <3>1, CountsAreNat
  <2>5. permits' = permits + 0 /\ totalCreated' = totalCreated + 0
    BY <1>6 DEF PollEmpty, TypeOK
  <2>6. Claimed' <= Capacity
    <3>1. Len(idleEngines)' = 0
      BY <1>6 DEF PollEmpty
    <3>2. Cardinality(At(Making))' = Cardinality(At(Making)) + 1
      BY <2>1, AtMoves DEF Making
    <3>3. Cardinality(At(Giving))' = Cardinality(At(Giving)) + 0
      BY <2>1, AtMoves DEF Giving
    <3>4. Cardinality(At(Making)) + 1 <= Cardinality(Acquiring)
      BY <2>1, PollingIsNotMaking DEF Goto
    <3>5. Cardinality(At(Giving)) <= Cardinality(Returning)
      BY GivingReturns
    <3>6. permits + PermitsOut <= Capacity /\ permits \in Nat /\ Capacity \in Nat
      BY CapacityAssumption DEF Accounts, TypeOK
    <3>7. Cardinality(Leasing) + Cardinality(Acquiring) + Cardinality(Returning) <= Capacity
      BY <3>6, CountsAreNat DEF PermitsOut, Acquiring, Returning
    <3> QED BY <2>3, <3>1, <3>2, <3>3, <3>4, <3>5, <3>6, <3>7, CountsAreNat DEF Claimed, Acquiring, Returning
  <2>7. Changes(0, 0, 0, 0, 0)
    BY <2>2, <2>3, <2>4, <2>5 DEF Changes
  <2>8. Keeps("polling", "creating", 0, 0, 0, 0, 0)
    BY <2>6 DEF Keeps, Delta, AcquirePlaces, ReturnPlaces, Making, Giving
  <2> QED BY <2>1, <2>7, <2>8, Balance
<1>7. CASE CheckValid(t)
  <2>1. Goto(t, "checking", "opening")
    BY <1>7 DEF CheckValid
  <2>2. Len(idleEngines)' = Len(idleEngines) + 0
    BY <1>7, CountsAreNat DEF CheckValid
  <2>3. Cardinality(Leasing)' = Cardinality(Leasing) + 0
    <3>1. Leasing' = Leasing
      BY <1>7 DEF CheckValid, Leasing
    <3> QED BY <3>1, CountsAreNat
  <2>4. Cardinality(Holding)' = Cardinality(Holding) + 0
    <3>1. Holding' = Holding
      BY <1>7 DEF CheckValid, Holding
    <3> QED BY <3>1, CountsAreNat
  <2>5. permits' = permits + 0 /\ totalCreated' = totalCreated + 0
    BY <1>7 DEF CheckValid, TypeOK
  <2>6. Changes(0, 0, 0, 0, 0)
    BY <2>2, <2>3, <2>4, <2>5 DEF Changes
  <2>7. Keeps("checking", "opening", 0, 0, 0, 0, 0)
    BY DEF Keeps, Delta, AcquirePlaces, ReturnPlaces, Making, Giving
  <2> QED BY <2>1, <2>6, <2>7, Balance
<1>8. CASE CheckInvalid(t)
  <2>1. Goto(t, "checking", "creating")
    BY <1>8 DEF CheckInvalid
  <2>2. Len(idleEngines)' = Len(idleEngines) + 0
    BY <1>8, CountsAreNat DEF CheckInvalid
  <2>3. Cardinality(Leasing)' = Cardinality(Leasing) + 0
    <3>1. Leasing' = Leasing
      BY <1>8 DEF CheckInvalid, Leasing
    <3> QED BY <3>1, CountsAreNat
  <2>4. Cardinality(Holding)' = Cardinality(Holding) + (-1)
    <3>1. t \in Holding
      BY <2>1 DEF InPlace, At, Goto
    <3>2. hand' = [hand EXCEPT ![t] = None]
      BY <1>8 DEF CheckInvalid
    <3> QED BY <3>1, <3>2, HandPutsDown
  <2>5. permits' = permits + 0 /\ totalCreated' = totalCreated + 0
    BY <1>8 DEF CheckInvalid, TypeOK
  <2>6. Drifts
    <3>1. hand[t] \in Engines /\ t \in Holding
      BY <2>1 DEF InPlace, At, Goto, Holding, TypeOK
    <3>2. engine[hand[t]] = "invalid"
      BY <1>8, <3>1 DEF CheckInvalid, InPlace, TypeOK
    <3>3. "engineDies" \in Faults
      BY <3>1, <3>2 DEF InPlace
    <3> QED BY <3>3 DEF Drifts
  <2>7. Changes(0, 0, -1, 0, 0)
    BY <2>2, <2>3, <2>4, <2>5 DEF Changes
  <2>8. Keeps("checking", "creating", 0, 0, -1, 0, 0)
    BY <2>6 DEF Keeps, Delta, AcquirePlaces, ReturnPlaces, Making, Giving
  <2> QED BY <2>1, <2>7, <2>8, Balance
<1>9. CASE Create(t)
  <2>1. Goto(t, "creating", "counting")
    BY <1>9 DEF Create
  <2>2. Len(idleEngines)' = Len(idleEngines) + 0
    BY <1>9, CountsAreNat DEF Create
  <2>3. Cardinality(Leasing)' = Cardinality(Leasing) + 0
    <3>1. Leasing' = Leasing
      BY <1>9 DEF Create, Leasing
    <3> QED BY <3>1, CountsAreNat
  <2>4. Cardinality(Holding)' = Cardinality(Holding) + 1
    <3>1. PICK e \in Engines : hand' = [hand EXCEPT ![t] = e]
      BY <1>9 DEF Create
    <3>2. e # None /\ hand[t] = None
      BY <2>1, NoneAssumption DEF InPlace, Holding, At, Goto
    <3> QED BY <3>1, <3>2, HandTakes
  <2>5. permits' = permits + 0 /\ totalCreated' = totalCreated + 0
    BY <1>9 DEF Create, TypeOK
  <2>6. Changes(0, 0, 1, 0, 0)
    BY <2>2, <2>3, <2>4, <2>5 DEF Changes
  <2>7. Keeps("creating", "counting", 0, 0, 1, 0, 0)
    BY DEF Keeps, Delta, AcquirePlaces, ReturnPlaces, Making, Giving
  <2> QED BY <2>1, <2>6, <2>7, Balance
<1>10. CASE CreateThrows(t)
  <2>1. Goto(t, "creating", "out")
    BY <1>10 DEF CreateThrows
  <2>2. Len(idleEngines)' = Len(idleEngines) + 0
    BY <1>10, CountsAreNat DEF CreateThrows
  <2>3. Cardinality(Leasing)' = Cardinality(Leasing) + 0
    <3>1. Leasing' = Leasing
      BY <1>10 DEF CreateThrows, Leasing
    <3> QED BY <3>1, CountsAreNat
  <2>4. Cardinality(Holding)' = Cardinality(Holding) + 0
    <3>1. Holding' = Holding
      BY <1>10 DEF CreateThrows, Holding
    <3> QED BY <3>1, CountsAreNat
  <2>5. permits' = permits + 1 /\ totalCreated' = totalCreated + 0
    BY <1>10 DEF CreateThrows, TypeOK
  <2>6. Changes(0, 0, 0, 1, 0)
    BY <2>2, <2>3, <2>4, <2>5 DEF Changes
  <2>7. Keeps("creating", "out", 0, 0, 0, 1, 0)
    BY DEF Keeps, Delta, AcquirePlaces, ReturnPlaces, Making, Giving
  <2> QED BY <2>1, <2>6, <2>7, Balance
<1>11. CASE CreateNull(t)
  <2>1. Goto(t, "creating", "counting")
    BY <1>11 DEF CreateNull
  <2>2. Len(idleEngines)' = Len(idleEngines) + 0
    BY <1>11, CountsAreNat DEF CreateNull
  <2>3. Cardinality(Leasing)' = Cardinality(Leasing) + 0
    <3>1. Leasing' = Leasing
      BY <1>11 DEF CreateNull, Leasing
    <3> QED BY <3>1, CountsAreNat
  <2>4. Cardinality(Holding)' = Cardinality(Holding) + 0
    <3>1. Holding' = Holding
      BY <1>11 DEF CreateNull, Holding
    <3> QED BY <3>1, CountsAreNat
  <2>5. permits' = permits + 0 /\ totalCreated' = totalCreated + 0
    BY <1>11 DEF CreateNull, TypeOK
  <2>6. Drifts
    BY <1>11 DEF CreateNull, Drifts
  <2>7. Changes(0, 0, 0, 0, 0)
    BY <2>2, <2>3, <2>4, <2>5 DEF Changes
  <2>8. Keeps("creating", "counting", 0, 0, 0, 0, 0)
    BY <2>6 DEF Keeps, Delta, AcquirePlaces, ReturnPlaces, Making, Giving
  <2> QED BY <2>1, <2>7, <2>8, Balance
<1>12. CASE Count(t)
  <2>1. Goto(t, "counting", "opening")
    BY <1>12 DEF Count
  <2>2. Len(idleEngines)' = Len(idleEngines) + 0
    BY <1>12, CountsAreNat DEF Count
  <2>3. Cardinality(Leasing)' = Cardinality(Leasing) + 0
    <3>1. Leasing' = Leasing
      BY <1>12 DEF Count, Leasing
    <3> QED BY <3>1, CountsAreNat
  <2>4. Cardinality(Holding)' = Cardinality(Holding) + 0
    <3>1. Holding' = Holding
      BY <1>12 DEF Count, Holding
    <3> QED BY <3>1, CountsAreNat
  <2>5. permits' = permits + 0 /\ totalCreated' = totalCreated + 1
    BY <1>12 DEF Count, TypeOK
  <2>6. Changes(0, 0, 0, 0, 1)
    BY <2>2, <2>3, <2>4, <2>5 DEF Changes
  <2>7. Keeps("counting", "opening", 0, 0, 0, 0, 1)
    BY DEF Keeps, Delta, AcquirePlaces, ReturnPlaces, Making, Giving
  <2> QED BY <2>1, <2>6, <2>7, Balance
<1>13. CASE Open(t)
  <2>1. Goto(t, "opening", "out")
    BY <1>13 DEF Open
  <2>2. Len(idleEngines)' = Len(idleEngines) + 0
    BY <1>13, CountsAreNat DEF Open
  <2>3. Cardinality(Leasing)' = Cardinality(Leasing) + 1
    BY <1>13, <2>1, LeasingGrows DEF SessionClosedInAcquire, AcquirePlaces, Goto
  <2>4. Cardinality(Holding)' = Cardinality(Holding) + (-1)
    <3>1. t \in Holding
      BY <1>13 DEF Open, Holding
    <3>2. hand' = [hand EXCEPT ![t] = None]
      BY <1>13 DEF Open
    <3> QED BY <3>1, <3>2, HandPutsDown
  <2>5. permits' = permits + 0 /\ totalCreated' = totalCreated + 0
    BY <1>13 DEF Open, TypeOK
  <2>6. Changes(0, 1, -1, 0, 0)
    BY <2>2, <2>3, <2>4, <2>5 DEF Changes
  <2>7. Keeps("opening", "out", 0, 1, -1, 0, 0)
    BY DEF Keeps, Delta, AcquirePlaces, ReturnPlaces, Making, Giving
  <2> QED BY <2>1, <2>6, <2>7, Balance
<1>14. CASE OpenThrows(t)
  <2>1. Goto(t, "opening", "out")
    BY <1>14 DEF OpenThrows
  <2>2. Len(idleEngines)' = Len(idleEngines) + 0
    BY <1>14, CountsAreNat DEF OpenThrows
  <2>3. Cardinality(Leasing)' = Cardinality(Leasing) + 0
    <3>1. Leasing' = Leasing
      BY <1>14 DEF OpenThrows, Leasing
    <3> QED BY <3>1, CountsAreNat
  <2>4. Cardinality(Holding)' = Cardinality(Holding) + 0
    <3>1. Holding' = Holding
      BY <1>14 DEF OpenThrows, Holding
    <3> QED BY <3>1, CountsAreNat
  <2>5. permits' = permits + 0 /\ totalCreated' = totalCreated + 0
    BY <1>14 DEF OpenThrows, TypeOK
  <2>6. Lossy
    BY <1>14, <2>1 DEF OpenThrows, Lossy, InPlace, Holding, At, Goto
  <2>7. Changes(0, 0, 0, 0, 0)
    BY <2>2, <2>3, <2>4, <2>5 DEF Changes
  <2>8. Keeps("opening", "out", 0, 0, 0, 0, 0)
    BY <2>6 DEF Keeps, Delta, AcquirePlaces, ReturnPlaces, Making, Giving
  <2> QED BY <2>1, <2>7, <2>8, Balance
<1> QED BY <1>2, <1>3, <1>4, <1>5, <1>6, <1>7, <1>8, <1>9, <1>10, <1>11, <1>12, <1>13, <1>14 DEF Acquire

\* Each step of returnEngine.
LEMMA ReturnCounted ==
    ASSUME Counted, NEW t \in Threads, Return(t)
    PROVE  Accounts'
<1>1. TypeOK /\ InPlace /\ Accounts /\ SessionClosedInAcquire /\ pc \in [Threads -> Where]
  BY DEF Counted, Placed, TypeOK
<1> USE <1>1
<1>2. CASE ReturnCheck(t)
  <2>1. Goto(t, "returning", "retiring") \/ Goto(t, "returning", "offering")
    BY <1>2 DEF ReturnCheck
  <2>2. Len(idleEngines)' = Len(idleEngines) + 0
    BY <1>2, CountsAreNat DEF ReturnCheck
  <2>3. Cardinality(Leasing)' = Cardinality(Leasing) + 0
    <3>1. Leasing' = Leasing
      BY <1>2 DEF ReturnCheck, Leasing
    <3> QED BY <3>1, CountsAreNat
  <2>4. Cardinality(Holding)' = Cardinality(Holding) + 0
    <3>1. Holding' = Holding
      BY <1>2 DEF ReturnCheck, Holding
    <3> QED BY <3>1, CountsAreNat
  <2>5. permits' = permits + 0 /\ totalCreated' = totalCreated + 0
    BY <1>2 DEF ReturnCheck, TypeOK
  <2>6. Changes(0, 0, 0, 0, 0)
    BY <2>2, <2>3, <2>4, <2>5 DEF Changes
  <2>7. /\ Keeps("returning", "retiring", 0, 0, 0, 0, 0)
        /\ Keeps("returning", "offering", 0, 0, 0, 0, 0)
    BY DEF Keeps, Delta, AcquirePlaces, ReturnPlaces, Making, Giving
  <2> QED BY <2>1, <2>6, <2>7, Balance
<1>3. CASE Offer(t)
  <2>1. Goto(t, "offering", "releasing")
    BY <1>3 DEF Offer
  <2>2. Len(idleEngines)' = Len(idleEngines) + 1
    BY <1>3 DEF Offer, TypeOK
  <2>3. Cardinality(Leasing)' = Cardinality(Leasing) + 0
    <3>1. Leasing' = Leasing
      BY <1>3 DEF Offer, Leasing
    <3> QED BY <3>1, CountsAreNat
  <2>4. Cardinality(Holding)' = Cardinality(Holding) + (-1)
    <3>1. t \in Holding
      BY <2>1 DEF InPlace, At, Goto
    <3>2. hand' = [hand EXCEPT ![t] = None]
      BY <1>3 DEF Offer
    <3> QED BY <3>1, <3>2, HandPutsDown
  <2>5. permits' = permits + 0 /\ totalCreated' = totalCreated + 0
    BY <1>3 DEF Offer, TypeOK
  <2>6. Changes(1, 0, -1, 0, 0)
    BY <2>2, <2>3, <2>4, <2>5 DEF Changes
  <2>7. Keeps("offering", "releasing", 1, 0, -1, 0, 0)
    BY DEF Keeps, Delta, AcquirePlaces, ReturnPlaces, Making, Giving
  <2> QED BY <2>1, <2>6, <2>7, Balance
<1>4. CASE Retire(t)
  <2>1. Goto(t, "retiring", "uncounting")
    BY <1>4 DEF Retire
  <2>2. Len(idleEngines)' = Len(idleEngines) + 0
    BY <1>4, CountsAreNat DEF Retire
  <2>3. Cardinality(Leasing)' = Cardinality(Leasing) + 0
    <3>1. Leasing' = Leasing
      BY <1>4 DEF Retire, Leasing
    <3> QED BY <3>1, CountsAreNat
  <2>4. Cardinality(Holding)' = Cardinality(Holding) + (-1)
    <3>1. t \in Holding
      BY <2>1 DEF InPlace, At, Goto
    <3>2. hand' = [hand EXCEPT ![t] = None]
      BY <1>4 DEF Retire
    <3> QED BY <3>1, <3>2, HandPutsDown
  <2>5. permits' = permits + 0 /\ totalCreated' = totalCreated + 0
    BY <1>4 DEF Retire, TypeOK
  <2>6. Changes(0, 0, -1, 0, 0)
    BY <2>2, <2>3, <2>4, <2>5 DEF Changes
  <2>7. Keeps("retiring", "uncounting", 0, 0, -1, 0, 0)
    BY DEF Keeps, Delta, AcquirePlaces, ReturnPlaces, Making, Giving
  <2> QED BY <2>1, <2>6, <2>7, Balance
<1>5. CASE RetireThrows(t)
  <2>1. Goto(t, "retiring", "out")
    BY <1>5 DEF RetireThrows
  <2>2. Len(idleEngines)' = Len(idleEngines) + 0
    BY <1>5, CountsAreNat DEF RetireThrows
  <2>3. Cardinality(Leasing)' = Cardinality(Leasing) + 0
    <3>1. Leasing' = Leasing
      BY <1>5 DEF RetireThrows, Leasing
    <3> QED BY <3>1, CountsAreNat
  <2>4. Cardinality(Holding)' = Cardinality(Holding) + (-1)
    <3>1. t \in Holding
      BY <2>1 DEF InPlace, At, Goto
    <3>2. hand' = [hand EXCEPT ![t] = None]
      BY <1>5 DEF RetireThrows
    <3> QED BY <3>1, <3>2, HandPutsDown
  <2>5. permits' = permits + 0 /\ totalCreated' = totalCreated + 0
    BY <1>5 DEF RetireThrows, TypeOK
  <2>6. Lossy
    BY <1>5 DEF RetireThrows, Lossy
  <2>7. Drifts
    BY <1>5 DEF RetireThrows, Drifts
  <2>8. Changes(0, 0, -1, 0, 0)
    BY <2>2, <2>3, <2>4, <2>5 DEF Changes
  <2>9. Keeps("retiring", "out", 0, 0, -1, 0, 0)
    BY <2>6, <2>7 DEF Keeps, Delta, AcquirePlaces, ReturnPlaces, Making, Giving
  <2> QED BY <2>1, <2>8, <2>9, Balance
<1>6. CASE Uncount(t)
  <2>1. Goto(t, "uncounting", "releasing")
    BY <1>6 DEF Uncount
  <2>2. Len(idleEngines)' = Len(idleEngines) + 0
    BY <1>6, CountsAreNat DEF Uncount
  <2>3. Cardinality(Leasing)' = Cardinality(Leasing) + 0
    <3>1. Leasing' = Leasing
      BY <1>6 DEF Uncount, Leasing
    <3> QED BY <3>1, CountsAreNat
  <2>4. Cardinality(Holding)' = Cardinality(Holding) + 0
    <3>1. Holding' = Holding
      BY <1>6 DEF Uncount, Holding
    <3> QED BY <3>1, CountsAreNat
  <2>5. permits' = permits + 0 /\ totalCreated' = totalCreated + (-1)
    BY <1>6 DEF Uncount, TypeOK
  <2>6. Changes(0, 0, 0, 0, -1)
    BY <2>2, <2>3, <2>4, <2>5 DEF Changes
  <2>7. Keeps("uncounting", "releasing", 0, 0, 0, 0, -1)
    BY DEF Keeps, Delta, AcquirePlaces, ReturnPlaces, Making, Giving
  <2> QED BY <2>1, <2>6, <2>7, Balance
<1>7. CASE Release(t)
  <2>1. Goto(t, "releasing", "out")
    BY <1>7 DEF Release
  <2>2. Len(idleEngines)' = Len(idleEngines) + 0
    BY <1>7, CountsAreNat DEF Release
  <2>3. Cardinality(Leasing)' = Cardinality(Leasing) + 0
    <3>1. Leasing' = Leasing
      BY <1>7 DEF Release, Leasing
    <3> QED BY <3>1, CountsAreNat
  <2>4. Cardinality(Holding)' = Cardinality(Holding) + 0
    <3>1. Holding' = Holding
      BY <1>7 DEF Release, Holding
    <3> QED BY <3>1, CountsAreNat
  <2>5. permits' = permits + 1 /\ totalCreated' = totalCreated + 0
    BY <1>7 DEF Release, TypeOK
  <2>6. Changes(0, 0, 0, 1, 0)
    BY <2>2, <2>3, <2>4, <2>5 DEF Changes
  <2>7. Keeps("releasing", "out", 0, 0, 0, 1, 0)
    BY DEF Keeps, Delta, AcquirePlaces, ReturnPlaces, Making, Giving
  <2> QED BY <2>1, <2>6, <2>7, Balance
<1> QED BY <1>2, <1>3, <1>4, <1>5, <1>6, <1>7 DEF Return

\* Each step of close.
LEMMA CloseCounted ==
    ASSUME Counted, NEW t \in Threads, Close(t)
    PROVE  Accounts'
<1>1. TypeOK /\ InPlace /\ Accounts /\ SessionClosedInAcquire /\ pc \in [Threads -> Where]
  BY DEF Counted, Placed, TypeOK
<1> USE <1>1
<1>2. CASE CloseBegin(t)
  <2>1. Goto(t, "out", "draining")
    BY <1>2 DEF CloseBegin
  <2>2. Len(idleEngines)' = Len(idleEngines) + 0
    BY <1>2, CountsAreNat DEF CloseBegin
  <2>3. Cardinality(Leasing)' = Cardinality(Leasing) + 0
    <3>1. Leasing' = Leasing
      BY <1>2 DEF CloseBegin, Leasing
    <3> QED BY <3>1, CountsAreNat
  <2>4. Cardinality(Holding)' = Cardinality(Holding) + 0
    <3>1. Holding' = Holding
      BY <1>2 DEF CloseBegin, Holding
    <3> QED BY <3>1, CountsAreNat
  <2>5. permits' = permits + 0 /\ totalCreated' = totalCreated + 0
    BY <1>2 DEF CloseBegin, TypeOK
  <2>6. Changes(0, 0, 0, 0, 0)
    BY <2>2, <2>3, <2>4, <2>5 DEF Changes
  <2>7. Keeps("out", "draining", 0, 0, 0, 0, 0)
    BY DEF Keeps, Delta, AcquirePlaces, ReturnPlaces, Making, Giving
  <2> QED BY <2>1, <2>6, <2>7, Balance
<1>3. CASE Drain(t)
  <2>1. Goto(t, "draining", "destroying")
    BY <1>3 DEF Drain
  <2>2. Len(idleEngines)' = Len(idleEngines) + (-1)
    BY <1>3 DEF Drain, TypeOK
  <2>3. Cardinality(Leasing)' = Cardinality(Leasing) + 0
    <3>1. Leasing' = Leasing
      BY <1>3 DEF Drain, Leasing
    <3> QED BY <3>1, CountsAreNat
  <2>4. Cardinality(Holding)' = Cardinality(Holding) + 1
    <3>1. hand' = [hand EXCEPT ![t] = Head(idleEngines)]
      BY <1>3 DEF Drain
    <3>2. Head(idleEngines) \in Engines
      BY <1>3 DEF Drain, TypeOK
    <3>3. Head(idleEngines) # None /\ hand[t] = None
      BY <2>1, <3>2, NoneAssumption DEF InPlace, Holding, At, Goto
    <3> QED BY <3>1, <3>3, HandTakes
  <2>5. permits' = permits + 0 /\ totalCreated' = totalCreated + 0
    BY <1>3 DEF Drain, TypeOK
  <2>6. Changes(-1, 0, 1, 0, 0)
    BY <2>2, <2>3, <2>4, <2>5 DEF Changes
  <2>7. Keeps("draining", "destroying", -1, 0, 1, 0, 0)
    BY DEF Keeps, Delta, AcquirePlaces, ReturnPlaces, Making, Giving
  <2> QED BY <2>1, <2>6, <2>7, Balance
<1>4. CASE DrainDestroy(t)
  <2>1. Goto(t, "destroying", "discounting")
    BY <1>4 DEF DrainDestroy
  <2>2. Len(idleEngines)' = Len(idleEngines) + 0
    BY <1>4, CountsAreNat DEF DrainDestroy
  <2>3. Cardinality(Leasing)' = Cardinality(Leasing) + 0
    <3>1. Leasing' = Leasing
      BY <1>4 DEF DrainDestroy, Leasing
    <3> QED BY <3>1, CountsAreNat
  <2>4. Cardinality(Holding)' = Cardinality(Holding) + (-1)
    <3>1. t \in Holding
      BY <2>1 DEF InPlace, At, Goto
    <3>2. hand' = [hand EXCEPT ![t] = None]
      BY <1>4 DEF DrainDestroy
    <3> QED BY <3>1, <3>2, HandPutsDown
  <2>5. permits' = permits + 0 /\ totalCreated' = totalCreated + 0
    BY <1>4 DEF DrainDestroy, TypeOK
  <2>6. Changes(0, 0, -1, 0, 0)
    BY <2>2, <2>3, <2>4, <2>5 DEF Changes
  <2>7. Keeps("destroying", "discounting", 0, 0, -1, 0, 0)
    BY DEF Keeps, Delta, AcquirePlaces, ReturnPlaces, Making, Giving
  <2> QED BY <2>1, <2>6, <2>7, Balance
<1>5. CASE DrainCount(t)
  <2>1. Goto(t, "discounting", "draining")
    BY <1>5 DEF DrainCount
  <2>2. Len(idleEngines)' = Len(idleEngines) + 0
    BY <1>5, CountsAreNat DEF DrainCount
  <2>3. Cardinality(Leasing)' = Cardinality(Leasing) + 0
    <3>1. Leasing' = Leasing
      BY <1>5 DEF DrainCount, Leasing
    <3> QED BY <3>1, CountsAreNat
  <2>4. Cardinality(Holding)' = Cardinality(Holding) + 0
    <3>1. Holding' = Holding
      BY <1>5 DEF DrainCount, Holding
    <3> QED BY <3>1, CountsAreNat
  <2>5. permits' = permits + 0 /\ totalCreated' = totalCreated + (-1)
    BY <1>5 DEF DrainCount, TypeOK
  <2>6. Changes(0, 0, 0, 0, -1)
    BY <2>2, <2>3, <2>4, <2>5 DEF Changes
  <2>7. Keeps("discounting", "draining", 0, 0, 0, 0, -1)
    BY DEF Keeps, Delta, AcquirePlaces, ReturnPlaces, Making, Giving
  <2> QED BY <2>1, <2>6, <2>7, Balance
<1>6. CASE DrainThrows(t)
  <2>1. Goto(t, "destroying", "out")
    BY <1>6 DEF DrainThrows
  <2>2. Len(idleEngines)' = Len(idleEngines) + 0
    BY <1>6, CountsAreNat DEF DrainThrows
  <2>3. Cardinality(Leasing)' = Cardinality(Leasing) + 0
    <3>1. Leasing' = Leasing
      BY <1>6 DEF DrainThrows, Leasing
    <3> QED BY <3>1, CountsAreNat
  <2>4. Cardinality(Holding)' = Cardinality(Holding) + (-1)
    <3>1. t \in Holding
      BY <2>1 DEF InPlace, At, Goto
    <3>2. hand' = [hand EXCEPT ![t] = None]
      BY <1>6 DEF DrainThrows
    <3> QED BY <3>1, <3>2, HandPutsDown
  <2>5. permits' = permits + 0 /\ totalCreated' = totalCreated + 0
    BY <1>6 DEF DrainThrows, TypeOK
  <2>6. Drifts
    BY <1>6 DEF DrainThrows, Drifts
  <2>7. Changes(0, 0, -1, 0, 0)
    BY <2>2, <2>3, <2>4, <2>5 DEF Changes
  <2>8. Keeps("destroying", "out", 0, 0, -1, 0, 0)
    BY <2>6 DEF Keeps, Delta, AcquirePlaces, ReturnPlaces, Making, Giving
  <2> QED BY <2>1, <2>7, <2>8, Balance
<1>7. CASE DrainEnd(t)
  <2>1. Goto(t, "draining", "out")
    BY <1>7 DEF DrainEnd
  <2>2. Len(idleEngines)' = Len(idleEngines) + 0
    BY <1>7, CountsAreNat DEF DrainEnd
  <2>3. Cardinality(Leasing)' = Cardinality(Leasing) + 0
    <3>1. Leasing' = Leasing
      BY <1>7 DEF DrainEnd, Leasing
    <3> QED BY <3>1, CountsAreNat
  <2>4. Cardinality(Holding)' = Cardinality(Holding) + 0
    <3>1. Holding' = Holding
      BY <1>7 DEF DrainEnd, Holding
    <3> QED BY <3>1, CountsAreNat
  <2>5. permits' = permits + 0 /\ totalCreated' = totalCreated + 0
    BY <1>7 DEF DrainEnd, TypeOK
  <2>6. Changes(0, 0, 0, 0, 0)
    BY <2>2, <2>3, <2>4, <2>5 DEF Changes
  <2>7. Keeps("draining", "out", 0, 0, 0, 0, 0)
    BY DEF Keeps, Delta, AcquirePlaces, ReturnPlaces, Making, Giving
  <2> QED BY <2>1, <2>6, <2>7, Balance
<1> QED BY <1>2, <1>3, <1>4, <1>5, <1>6, <1>7 DEF Close

LEMMA NextAccounts == Counted /\ [Next]_vars => Accounts'
<1> SUFFICES ASSUME Counted, [Next]_vars PROVE Accounts'
  OBVIOUS
<1>1. TypeOK /\ InPlace /\ Accounts /\ pc \in [Threads -> Where]
  BY DEF Counted, Placed, TypeOK
<1> USE <1>1
<1>2. ASSUME NEW t \in Threads, NEW u \in Threads, CloseSession(t, u) PROVE Accounts'
  <2>1. Goto(t, "out", "returning")
    BY <1>2 DEF CloseSession
  <2>2. Len(idleEngines)' = Len(idleEngines) + 0
    BY <1>2, CountsAreNat DEF CloseSession
  <2>3. Cardinality(Leasing)' = Cardinality(Leasing) + (-1)
    BY <1>2, LeasingShrinks
  <2>4. Cardinality(Holding)' = Cardinality(Holding) + 1
    <3>1. hand' = [hand EXCEPT ![t] = session[u].engine]
      BY <1>2 DEF CloseSession
    <3>2. session[u].engine # None /\ hand[t] = None
      BY <1>2, <2>1, NoneAssumption DEF CloseSession, InPlace, Holding, Leasing, At, Goto
    <3> QED BY <3>1, <3>2, HandTakes
  <2>5. permits' = permits + 0 /\ totalCreated' = totalCreated + 0
    BY <1>2 DEF CloseSession, TypeOK
  <2>6. Changes(0, -1, 1, 0, 0)
    BY <2>2, <2>3, <2>4, <2>5 DEF Changes
  <2>7. Keeps("out", "returning", 0, -1, 1, 0, 0)
    BY DEF Keeps, Delta, AcquirePlaces, ReturnPlaces, Making, Giving
  <2> QED BY <2>1, <2>6, <2>7, Balance
<1>3. ASSUME UNCHANGED <<permits, idleEngines, totalCreated, session, pc, hand>> PROVE Accounts'
  <2>1. /\ Leasing' = Leasing /\ Holding' = Holding
        /\ \A places : At(places)' = At(places)
    BY <1>3 DEF Leasing, Holding, At
  <2> QED
    BY <1>3, <2>1 DEF Accounts, PermitsOut, Acquiring, Returning, Claimed, Covered, Reachable,
                      StillCounted, Uncounted, Lossy, Drifts
<1>4. ASSUME NEW e \in Engines, EngineDies(e) PROVE Accounts'
  BY <1>3, <1>4 DEF EngineDies
<1>5. CASE UNCHANGED vars
  BY <1>3, <1>5 DEF vars
<1> QED BY <1>2, <1>4, <1>5, AcquireCounted, ReturnCounted, CloseCounted DEF Next

LEMMA NextInOrder ==
    TypeOK /\ SessionClosedInAcquire /\ OneCloser /\ [Next]_vars
      => SessionClosedInAcquire' /\ OneCloser'
<1> SUFFICES ASSUME TypeOK, SessionClosedInAcquire, OneCloser, [Next]_vars
             PROVE  SessionClosedInAcquire' /\ OneCloser'
  OBVIOUS
<1> USE DEF TypeOK, SessionClosedInAcquire, OneCloser, Goto, At, AcquirePlaces, ClosePlaces
<1>1. ASSUME NEW t \in Threads, Acquire(t) PROVE SessionClosedInAcquire' /\ OneCloser'
  BY <1>1 DEF Acquire, AcquireCheck, GrantPermit, AcquireTimeout, Poll, PollEmpty, CheckValid,
              CheckInvalid, Create, CreateThrows, CreateNull, Count, Open, OpenThrows
<1>2. ASSUME NEW t \in Threads, Return(t) PROVE SessionClosedInAcquire' /\ OneCloser'
  BY <1>2 DEF Return, ReturnCheck, Offer, Retire, RetireThrows, Uncount, Release
<1>3. ASSUME NEW t \in Threads, Close(t) PROVE SessionClosedInAcquire' /\ OneCloser'
  BY <1>3 DEF Close, CloseBegin, Drain, DrainDestroy, DrainCount, DrainThrows, DrainEnd
<1>4. ASSUME NEW t \in Threads, NEW u \in Threads, CloseSession(t, u)
      PROVE  SessionClosedInAcquire' /\ OneCloser'
  BY <1>4 DEF CloseSession
<1>5. ASSUME NEW e \in Engines, EngineDies(e) PROVE SessionClosedInAcquire' /\ OneCloser'
  BY <1>5 DEF EngineDies
<1>6. CASE UNCHANGED vars
  BY <1>6 DEF vars
<1> QED BY <1>1, <1>2, <1>3, <1>4, <1>5, <1>6 DEF Next

THEOREM CountedAlways == Spec => []Counted
<1>1. Init => Counted
  BY InitCounted
<1>2. Counted /\ [Next]_vars => Counted'
  BY NextPlaced, NextAccounts, NextInOrder DEF Counted, Placed
<1> QED BY <1>1, <1>2, PTL DEF Spec

(***************************************************************************)
(* How many engines there are.  A call has an engine in its hand only in   *)
(* the places of Making and Giving, or in close(), which is one thread.    *)
(***************************************************************************)

LEMMA OneAtMost ==
    ASSUME OneCloser, NEW places \in SUBSET ClosePlaces
    PROVE  Cardinality(At(places)) <= 1 /\ Cardinality(At(places)) \in Nat
<1>1. \A t, u \in At(places) : t = u
  BY DEF OneCloser, At
<1>2. CASE At(places) = {}
  BY <1>2, FS_EmptySet
<1>3. CASE At(places) # {}
  <2>1. PICK t : At(places) = {t}
    BY <1>1, <1>3
  <2> QED BY <2>1, FS_Singleton
<1> QED BY <1>2, <1>3

\* Engines in hand, and those about to be in one.
LEMMA HandsBound ==
    ASSUME TypeOK, InPlace
    PROVE  /\ Cardinality(Holding) + Cardinality(At({"creating"}))
                <= Cardinality(At(Making)) + Cardinality(At(Giving))
                     + Cardinality(At({"destroying"}))
           /\ Cardinality(Holding) + StillCounted
                <= Cardinality(At(Making)) + Cardinality(At(Giving))
                     + Cardinality(At({"destroying", "discounting"}))
<1> DEFINE Both == At(Making) \cup At(Giving)
           SC == {"uncounting", "discounting"}
<1>1. /\ IsFiniteSet(Holding) /\ \A places : IsFiniteSet(At(places))
  BY ThreadsAssumption, FS_Subset DEF Holding, At
<1>2. /\ Cardinality(Holding) \in Nat /\ \A places : Cardinality(At(places)) \in Nat
  BY CountsAreNat
<1>3. IsFiniteSet(Both) /\ Cardinality(Both) = Cardinality(At(Making)) + Cardinality(At(Giving))
  <2>1. At(Making) \cap At(Giving) = {}
    BY DEF At, Making, Giving
  <2>2. Cardinality(At(Making) \cap At(Giving)) = 0
    BY <2>1, FS_EmptySet
  <2> QED BY <1>1, <1>2, <2>2, FS_Union
<1>4. ASSUME NEW S, NEW D, IsFiniteSet(S), IsFiniteSet(D), Holding \cap S = {},
             Both \cap D = {}, Holding \cup S \subseteq Both \cup D
      PROVE  Cardinality(Holding) + Cardinality(S) <= Cardinality(Both) + Cardinality(D)
  <2> HIDE DEF Both
  <2>1. /\ IsFiniteSet(Both \cup D) /\ IsFiniteSet(Holding \cup S)
        /\ Cardinality(Both \cap D) = 0 /\ Cardinality(Holding \cap S) = 0
    BY <1>1, <1>3, <1>4, FS_Union, FS_EmptySet
  <2>2. Cardinality(Both \cup D) = Cardinality(Both) + Cardinality(D) - 0
    BY <1>3, <1>4, <2>1, FS_Union
  <2>3. Cardinality(Holding \cup S) = Cardinality(Holding) + Cardinality(S) - 0
    BY <1>1, <1>4, <2>1, FS_Union
  <2>4. Cardinality(Holding \cup S) <= Cardinality(Both \cup D)
    BY <1>4, <2>1, FS_Subset
  <2>5. /\ Cardinality(Holding) \in Nat /\ Cardinality(S) \in Nat
        /\ Cardinality(Both) \in Nat /\ Cardinality(D) \in Nat
    BY <1>1, <1>3, <1>4, FS_CardinalityType
  <2> QED BY <2>2, <2>3, <2>4, <2>5
<1>5. Cardinality(Holding) + Cardinality(At({"creating"}))
        <= Cardinality(Both) + Cardinality(At({"destroying"}))
  <2>1. /\ Holding \cap At({"creating"}) = {} /\ Both \cap At({"destroying"}) = {}
        /\ Holding \cup At({"creating"}) \subseteq Both \cup At({"destroying"})
    BY DEF InPlace, At, Making, Giving
  <2> HIDE DEF Both
  <2> QED BY <1>1, <1>4, <2>1
<1>6. Cardinality(Holding) + Cardinality(At(SC))
        <= Cardinality(Both) + Cardinality(At({"destroying", "discounting"}))
  <2>1. /\ Holding \cap At(SC) = {} /\ Both \cap At({"destroying", "discounting"}) = {}
        /\ Holding \cup At(SC) \subseteq Both \cup At({"destroying", "discounting"})
    BY DEF InPlace, At, Making, Giving
  <2> HIDE DEF Both, SC
  <2> QED BY <1>1, <1>4, <2>1
<1> QED BY <1>3, <1>5, <1>6 DEF StillCounted

LEMMA CountedBounds == Counted => EngineBound
<1> SUFFICES ASSUME Counted PROVE EngineBound
  OBVIOUS
<1>1. TypeOK /\ InPlace /\ OneCloser /\ Claimed <= Capacity /\ Capacity \in Int
  BY CapacityAssumption DEF Counted, Placed, Accounts
<1>2. Cardinality(At({"destroying"})) <= IF At({"destroying"}) = {} THEN 0 ELSE 1
  <2>1. Cardinality(At({"destroying"})) <= 1
    BY <1>1, OneAtMost DEF ClosePlaces
  <2> QED BY <2>1, FS_EmptySet
<1>3. Cardinality(Holding) + Cardinality(At({"creating"}))
        <= Cardinality(At(Making)) + Cardinality(At(Giving)) + Cardinality(At({"destroying"}))
  BY <1>1, HandsBound
<1>4. /\ Cardinality(Leasing) \in Nat /\ Cardinality(Holding) \in Nat /\ Len(idleEngines) \in Nat
      /\ Cardinality(At({"creating"})) \in Nat /\ Cardinality(At(Making)) \in Nat
      /\ Cardinality(At(Giving)) \in Nat /\ Cardinality(At({"destroying"})) \in Nat
  BY <1>1, CountsAreNat
<1> QED BY <1>1, <1>2, <1>3, <1>4 DEF EngineBound, Reachable, Claimed

\* Without faults the counter exceeds the engines by those still counted only.
LEMMA CreatedBound ==
    ASSUME Counted, ~Drifts
    PROVE  totalCreated <= Capacity + Cardinality(At({"destroying", "discounting"}))
<1>1. /\ TypeOK /\ InPlace /\ Claimed <= Capacity /\ Covered = totalCreated /\ Capacity \in Int
  BY CapacityAssumption DEF Counted, Placed, Accounts
<1>2. Cardinality(Holding) + StillCounted
        <= Cardinality(At(Making)) + Cardinality(At(Giving))
             + Cardinality(At({"destroying", "discounting"}))
  BY <1>1, HandsBound
<1>3. /\ Cardinality(Leasing) \in Nat /\ Cardinality(Holding) \in Nat /\ Len(idleEngines) \in Nat
      /\ StillCounted \in Nat /\ Uncounted \in Nat /\ Cardinality(At(Making)) \in Nat
      /\ Cardinality(At(Giving)) \in Nat
      /\ Cardinality(At({"destroying", "discounting"})) \in Nat
  BY <1>1, CountsAreNat DEF StillCounted, Uncounted
<1> QED BY <1>1, <1>2, <1>3 DEF Covered, Reachable, Claimed

(***************************************************************************)
(* The properties the runs check.                                          *)
(***************************************************************************)

\* Every variable of the pool keeps its type.
THEOREM TypeCorrect == Spec => []TypeOK
BY PlacedAlways, PTL DEF Placed

\* No engine is ever in two places: two sessions, a session and the idle queue,
\* or the hands of two running calls.
THEOREM ExclusiveHolds == Spec => []Exclusive
BY PlacedAlways, PTL DEF Placed

\* No permit is duplicated, and none is lost unless the factory returned null
\* or a destroy threw.
THEOREM PermitAccountingHolds == Spec => []PermitAccounting
<1>1. Counted => PermitAccounting
  BY DEF Counted, Accounts, PermitAccounting, Lossy
<1> QED BY <1>1, CountedAlways, PTL

\* The pool never reaches for more than Capacity engines at a time, and one
\* more while close() destroys an engine it has taken out of the queue.
THEOREM EngineBoundHolds == Spec => []EngineBound
BY CountedBounds, CountedAlways, PTL

\* totalCreated falls short of the engines in reach only by those that are not
\* counted yet; without faults it is off by the steps in progress and no more.
THEOREM CountCoversHolds == Spec => []CountCovers
<1>1. Counted => CountCovers
  <2> SUFFICES ASSUME Counted PROVE CountCovers
    OBVIOUS
  <2>1. TypeOK /\ Covered <= totalCreated /\ (Drifts \/ Covered = totalCreated)
    BY DEF Counted, Placed, Accounts
  <2>2. Reachable \in Int /\ StillCounted \in Int /\ Uncounted \in Int /\ totalCreated \in Int
    BY <2>1, CountsAreNat DEF Reachable, StillCounted, Uncounted, TypeOK
  <2> QED BY <2>1, <2>2 DEF CountCovers, Covered, Drifts
<1> QED BY <1>1, CountedAlways, PTL

\* What ConcurrentEnginePoolTest asserts of a pool that is open holds as long
\* as engines do not die by themselves, createEngine never returns null and
\* destroyEngine never throws; close() can make it one more.
THEOREM CreatedWithinCapacityHolds ==
    ASSUME Faults \cap {"createNull", "destroyThrows", "engineDies"} = {}
    PROVE  Spec => []((~shuttingDown => CreatedWithinCapacity) /\ totalCreated <= Capacity + 1)
<1>1. Counted => (~shuttingDown => CreatedWithinCapacity) /\ totalCreated <= Capacity + 1
  <2> SUFFICES ASSUME Counted
               PROVE  /\ ~shuttingDown => totalCreated <= Capacity
                      /\ totalCreated <= Capacity + 1
    BY DEF CreatedWithinCapacity
  <2> DEFINE d == Cardinality(At({"destroying", "discounting"}))
  <2>1. TypeOK /\ OneCloser /\ totalCreated \in Int /\ Capacity \in Int
    BY CapacityAssumption DEF Counted, Placed, TypeOK
  <2>2. totalCreated <= Capacity + d
    BY CreatedBound DEF Drifts
  <2>3. d <= 1 /\ d \in Nat
    BY <2>1, OneAtMost DEF ClosePlaces
  <2>4. ~shuttingDown => d = 0
    <3>1. ~shuttingDown => At({"destroying", "discounting"}) = {}
      BY <2>1 DEF OneCloser, ClosePlaces, At
    <3> QED BY <3>1, FS_EmptySet
  <2> HIDE DEF d
  <2> QED BY <2>1, <2>2, <2>3, <2>4
<1> QED BY <1>1, CountedAlways, PTL

\* And so does its other assertion: once every session is closed, the semaphore
\* has all its permits again.
THEOREM PermitsRestoredHolds ==
    ASSUME Faults \cap {"createNull", "destroyThrows"} = {}
    PROVE  Spec => []PermitsRestored
<1>1. Counted => PermitsRestored
  <2> SUFFICES ASSUME Counted, Quiet PROVE permits = Capacity
    BY DEF PermitsRestored
  <2>1. /\ Cardinality(Leasing) = 0 /\ Cardinality(Acquiring) = 0 /\ Cardinality(Returning) = 0
    BY FS_EmptySet DEF Quiet, Acquiring, Returning, At
  <2>2. permits + PermitsOut = Capacity
    BY DEF Counted, Accounts, Lossy
  <2>3. permits \in Nat
    BY DEF Counted, Placed, TypeOK
  <2> QED BY <2>1, <2>2, <2>3 DEF PermitsOut
<1> QED BY <1>1, CountedAlways, PTL

(***************************************************************************)
(* The pool implements EngineLease.  Open is a Grant: the engine was in    *)
(* the opening thread's hand and therefore in nobody's lease (Exclusive in *)
(* the next state), and the number of open sessions is below the capacity  *)
(* because the opening thread's permit is counted apart from theirs.       *)
(***************************************************************************)

\* The prover sees the instance's copy of FiniteSets as another module.
LEMMA SameCardinality == \A S : Lease!Cardinality(S) = Cardinality(S)
BY DEF Cardinality, Lease!Cardinality

LEMMA OpenIsGrant ==
    ASSUME Counted, Counted', NEW t \in Threads, Open(t)
    PROVE  Lease!Next
<1> DEFINE e == hand[t]
<1>1. /\ session[t].closed /\ e \in Engines
      /\ session' = [session EXCEPT ![t] = [engine |-> e, closed |-> FALSE]]
      /\ session \in [Threads -> [engine : Engines \cup {None}, closed : BOOLEAN]]
      /\ t \in Acquiring
  BY DEF Counted, Placed, TypeOK, SessionClosedInAcquire, AcquirePlaces, Acquiring, At, Open, Goto
<1> HIDE DEF e
<1>2. leases' = [leases EXCEPT ![t] = e] /\ leases[t] = None
  BY <1>1, NoneAssumption DEF leases
<1>3. \A d \in Threads : leases[d] # e
  <2> SUFFICES ASSUME NEW d \in Threads, leases[d] = e PROVE FALSE
    OBVIOUS
  <2>1. d \in Leasing /\ session[d].engine = e /\ d # t
    BY <1>1, NoneAssumption DEF leases, Leasing
  <2>2. d \in Leasing' /\ session'[d].engine = e /\ t \in Leasing' /\ session'[t].engine = e
    BY <1>1, <2>1 DEF Leasing
  <2>3. \A u, v \in Leasing' : session'[u].engine = session'[v].engine => u = v
    BY DEF Counted, Placed, Exclusive
  <2> QED BY <2>1, <2>2, <2>3
<1>4. Lease!Leased = Leasing
  <2>1. \A c \in Threads : c \in Leasing => session[c].engine \in Engines
    BY DEF Counted, Placed, InPlace
  <2> QED BY <2>1, NoneAssumption DEF Lease!Leased, leases, Leasing
<1>5. Cardinality(Leasing) < Capacity
  <2>1. IsFiniteSet(Acquiring)
    BY ThreadsAssumption, FS_Subset DEF Acquiring, At
  <2>2. Cardinality(Acquiring) # 0
    BY <1>1, <2>1, FS_EmptySet
  <2>3. permits + (Cardinality(Leasing) + Cardinality(Acquiring) + Cardinality(Returning))
          <= Capacity
    BY DEF Counted, Accounts, PermitsOut
  <2>4. TypeOK /\ permits \in Nat
    BY DEF Counted, Placed, TypeOK
  <2>5. /\ Cardinality(Leasing) \in Nat /\ Cardinality(Acquiring) \in Nat
        /\ Cardinality(Returning) \in Nat
    BY <2>4, CountsAreNat DEF Acquiring, Returning
  <2> QED BY <2>2, <2>3, <2>4, <2>5, CapacityAssumption
<1>6. Lease!Grant(t, e)
  <2>1. Lease!Cardinality(Lease!Leased) < Capacity
    BY <1>4, <1>5, SameCardinality
  <2> QED BY <1>2, <1>3, <2>1 DEF Lease!Grant
<1> QED BY <1>1, <1>6 DEF Lease!Next

LEMMA StepImplementsLease ==
    Counted /\ Counted' /\ [Next]_vars => [Lease!Next]_leases
<1> SUFFICES ASSUME Counted, Counted', [Next]_vars PROVE [Lease!Next]_leases
  OBVIOUS
<1>1. session \in [Threads -> [engine : Engines \cup {None}, closed : BOOLEAN]]
      /\ idleEngines \in Seq(Engines)
  BY DEF Counted, Placed, TypeOK
<1>2. ASSUME UNCHANGED session PROVE UNCHANGED leases
  BY <1>2 DEF leases
<1>3. ASSUME NEW t \in Threads, NEW u \in Threads, CloseSession(t, u) PROVE Lease!Next
  <2>1. session' = [session EXCEPT ![u].closed = TRUE] /\ u \in Leasing
    BY <1>3 DEF CloseSession, Leasing
  <2>2. session'[u].closed /\ \A v \in Threads \ {u} : session'[v] = session[v]
    BY <1>1, <2>1
  <2>3. leases' = [leases EXCEPT ![u] = None]
    BY <2>2 DEF leases
  <2>4. leases[u] # None
    BY <1>1, <2>1, NoneAssumption DEF leases, Leasing, Counted, Placed, InPlace
  <2> QED BY <2>3, <2>4 DEF Lease!Next, Lease!GiveBack
<1>4. ASSUME NEW t \in Threads, Acquire(t) PROVE [Lease!Next]_leases
  BY <1>2, <1>4, OpenIsGrant DEF Acquire, AcquireCheck, GrantPermit, AcquireTimeout, Poll,
     PollEmpty, CheckValid, CheckInvalid, Create, CreateThrows, CreateNull, Count, OpenThrows
<1>5. ASSUME NEW t \in Threads, Return(t) \/ Close(t) PROVE UNCHANGED leases
  BY <1>2, <1>5 DEF Return, ReturnCheck, Offer, Retire, RetireThrows, Uncount, Release,
     Close, CloseBegin, Drain, DrainDestroy, DrainCount, DrainThrows, DrainEnd
<1>6. ASSUME NEW e \in Engines, EngineDies(e) PROVE UNCHANGED leases
  BY <1>2, <1>6 DEF EngineDies
<1>7. CASE UNCHANGED vars
  BY <1>2, <1>7 DEF vars
<1> QED BY <1>3, <1>4, <1>5, <1>6, <1>7 DEF Next

\* Whatever the threads, the factory and the clock do, the pool behaves like
\* a set of exclusive leases of at most Capacity engines.
THEOREM ImplementsLeaseHolds == Spec => ImplementsLease
<1>1. Init => Lease!Init
  BY DEF Init, Lease!Init, leases
<1>2. Counted /\ Counted' /\ [Next]_vars => [Lease!Next]_leases
  BY StepImplementsLease
<1> QED BY <1>1, <1>2, CountedAlways, PTL DEF Spec, ImplementsLease, Lease!Spec
==============================================================================
