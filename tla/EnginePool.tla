----------------------------- MODULE EnginePool ------------------------------
(***************************************************************************)
(* PanamaEnginePool and PooledSession: a pool of native engines guarded by *)
(* a fair counting semaphore, a lock-free queue of idle engines and a      *)
(* shutdown flag, none of which is read or written together with another.  *)
(* Every access to one of them is a step of its own.                       *)
(*                                                                         *)
(* The engines, their factory and the clock are the environment: Faults    *)
(* says which of their failures may happen.  An engine is "absent" before  *)
(* createEngine returns it and after the pool dropped or destroyed it (a   *)
(* native handle may be handed out again), "valid" while isValid() holds.  *)
(***************************************************************************)
EXTENDS Integers, Sequences, FiniteSets

CONSTANTS
    Threads,        \* the threads that call the pool
    Engines,        \* identities of native engines
    Capacity,       \* maxCapacity
    Faults,         \* the failures of the environment that may happen
    MaxCreated,     \* bound: engines die only while totalCreated is below it
    None            \* no engine (null)

AllFaults == {"timeout",        \* tryAcquire gives up, or is interrupted
              "createThrows",   \* factory.createEngine() throws
              "createNull",     \* factory.createEngine() returns null
              "destroyThrows",  \* factory.destroyEngine(e) throws
              "engineDies"}     \* an engine stops being valid by itself

ASSUME ThreadsAssumption == IsFiniteSet(Threads)
ASSUME CapacityAssumption == Capacity \in Nat \ {0}   \* the constructor refuses others
ASSUME NoneAssumption == None \notin Engines
ASSUME FaultsAssumption == Faults \subseteq AllFaults

VARIABLES
    shuttingDown,   \* AtomicBoolean
    permits,        \* permits the semaphore has left
    waiters,        \* threads queued in tryAcquire, first in first out
    idleEngines,    \* ConcurrentLinkedQueue
    totalCreated,   \* AtomicInteger
    engine,         \* state of each native engine
    session,        \* the last session each thread acquired: its engine and closed flag
    pc,             \* where each thread is
    hand            \* the engine a call holds in a local variable

vars == <<shuttingDown, permits, waiters, idleEngines, totalCreated, engine,
          session, pc, hand>>

Where == {"out",
          "waiting", "polling", "checking", "creating", "counting", "opening",  \* acquire
          "returning", "offering", "retiring", "uncounting", "releasing",       \* returnEngine
          "draining", "destroying", "discounting"}                              \* close

TypeOK ==
    /\ shuttingDown \in BOOLEAN
    /\ permits \in Nat
    /\ waiters \in Seq(Threads)
    /\ idleEngines \in Seq(Engines)
    /\ totalCreated \in Int
    /\ engine \in [Engines -> {"absent", "valid", "invalid"}]
    /\ session \in [Threads -> [engine : Engines \cup {None}, closed : BOOLEAN]]
    /\ pc \in [Threads -> Where]
    /\ hand \in [Threads -> Engines \cup {None}]

Init ==
    /\ shuttingDown = FALSE
    /\ permits = Capacity
    /\ waiters = << >>
    /\ idleEngines = << >>
    /\ totalCreated = 0
    /\ engine = [e \in Engines |-> "absent"]
    /\ session = [t \in Threads |-> [engine |-> None, closed |-> TRUE]]
    /\ pc = [t \in Threads |-> "out"]
    /\ hand = [t \in Threads |-> None]

Goto(t, from, to) == pc[t] = from /\ pc' = [pc EXCEPT ![t] = to]

------------------------------------------------------------------------------
(* acquire(timeout, unit) *)

\* The shutdown flag is read once, before the wait.  A thread uses one session
\* at a time (try-with-resources, not nested).
AcquireCheck(t) ==
    /\ ~shuttingDown
    /\ session[t].closed
    /\ Goto(t, "out", "waiting")
    /\ waiters' = Append(waiters, t)
    /\ UNCHANGED <<shuttingDown, permits, idleEngines, totalCreated, engine, session, hand>>

\* Mutants of GrantPermit: a semaphore that is not fair, and one that counts
\* below zero.
GrantAnyPermit(t) ==
    /\ permits > 0
    /\ Goto(t, "waiting", "polling")
    /\ permits' = permits - 1
    /\ waiters' = SelectSeq(waiters, LAMBDA u : u # t)
    /\ UNCHANGED <<shuttingDown, idleEngines, totalCreated, engine, session, hand>>

GrantNoPermit(t) ==
    /\ waiters # << >> /\ Head(waiters) = t
    /\ Goto(t, "waiting", "polling")
    /\ permits' = permits - 1
    /\ waiters' = Tail(waiters)
    /\ UNCHANGED <<shuttingDown, idleEngines, totalCreated, engine, session, hand>>

\* permits.tryAcquire: the semaphore is fair, so only the longest waiter gets in.
GrantPermit(t) ==
    /\ permits > 0
    /\ waiters # << >> /\ Head(waiters) = t
    /\ Goto(t, "waiting", "polling")
    /\ permits' = permits - 1
    /\ waiters' = Tail(waiters)
    /\ UNCHANGED <<shuttingDown, idleEngines, totalCreated, engine, session, hand>>

\* Mutant of AcquireTimeout: the permit is released in a finally block.
TimeoutReleases(t) ==
    /\ "timeout" \in Faults
    /\ Goto(t, "waiting", "out")
    /\ waiters' = SelectSeq(waiters, LAMBDA u : u # t)
    /\ permits' = permits + 1
    /\ UNCHANGED <<shuttingDown, idleEngines, totalCreated, engine, session, hand>>

\* tryAcquire returns false, or throws InterruptedException.
AcquireTimeout(t) ==
    /\ "timeout" \in Faults
    /\ Goto(t, "waiting", "out")
    /\ \E i \in DOMAIN waiters :
          /\ waiters[i] = t
          /\ waiters' = SubSeq(waiters, 1, i - 1) \o SubSeq(waiters, i + 1, Len(waiters))
    /\ UNCHANGED <<shuttingDown, permits, idleEngines, totalCreated, engine, session, hand>>

\* Mutant of Poll: peek() instead of poll().
Peek(t) ==
    /\ idleEngines # << >>
    /\ Goto(t, "polling", "checking")
    /\ hand' = [hand EXCEPT ![t] = Head(idleEngines)]
    /\ UNCHANGED <<shuttingDown, permits, waiters, idleEngines, totalCreated, engine, session>>

\* idleEngines.poll()
Poll(t) ==
    /\ idleEngines # << >>
    /\ Goto(t, "polling", "checking")
    /\ idleEngines' = Tail(idleEngines)
    /\ hand' = [hand EXCEPT ![t] = Head(idleEngines)]
    /\ UNCHANGED <<shuttingDown, permits, waiters, totalCreated, engine, session>>

\* Mutant of PollEmpty: a new engine although the queue has one.
PollNothing(t) ==
    /\ Goto(t, "polling", "creating")
    /\ UNCHANGED <<shuttingDown, permits, waiters, idleEngines, totalCreated, engine,
                   session, hand>>

PollEmpty(t) ==
    /\ idleEngines = << >>
    /\ Goto(t, "polling", "creating")
    /\ UNCHANGED <<shuttingDown, permits, waiters, idleEngines, totalCreated, engine,
                   session, hand>>

CheckValid(t) ==
    /\ Goto(t, "checking", "opening")
    /\ engine[hand[t]] = "valid"
    /\ UNCHANGED <<shuttingDown, permits, waiters, idleEngines, totalCreated, engine,
                   session, hand>>

\* The polled engine is invalid: its reference is overwritten and the engine
\* forgotten, while totalCreated still counts it.
CheckInvalid(t) ==
    /\ Goto(t, "checking", "creating")
    /\ engine[hand[t]] # "valid"
    /\ engine' = [engine EXCEPT ![hand[t]] = "absent"]
    /\ hand' = [hand EXCEPT ![t] = None]
    /\ UNCHANGED <<shuttingDown, permits, waiters, idleEngines, totalCreated, session>>

\* createEngine() returns a new engine, which nobody has counted yet.
Create(t) ==
    \E e \in Engines :
        /\ engine[e] = "absent"
        /\ Goto(t, "creating", "counting")
        /\ engine' = [engine EXCEPT ![e] = "valid"]
        /\ hand' = [hand EXCEPT ![t] = e]
        /\ UNCHANGED <<shuttingDown, permits, waiters, idleEngines, totalCreated, session>>

\* createEngine() throws (always so when no handle is left): the permit is
\* given back before the exception reaches the caller.
CreateThrows(t) ==
    /\ "createThrows" \in Faults \/ \A e \in Engines : engine[e] # "absent"
    /\ Goto(t, "creating", "out")
    /\ permits' = permits + 1
    /\ UNCHANGED <<shuttingDown, waiters, idleEngines, totalCreated, engine, session, hand>>

\* createEngine() returns null, which is counted like an engine.
CreateNull(t) ==
    /\ "createNull" \in Faults
    /\ Goto(t, "creating", "counting")
    /\ UNCHANGED <<shuttingDown, permits, waiters, idleEngines, totalCreated, engine,
                   session, hand>>

\* Mutant of Count: the engine is not counted.
CountNothing(t) ==
    /\ Goto(t, "counting", "opening")
    /\ UNCHANGED <<shuttingDown, permits, waiters, idleEngines, totalCreated, engine,
                   session, hand>>

\* totalCreated.incrementAndGet()
Count(t) ==
    /\ Goto(t, "counting", "opening")
    /\ totalCreated' = totalCreated + 1
    /\ UNCHANGED <<shuttingDown, permits, waiters, idleEngines, engine, session, hand>>

\* new PooledSession(pool, engine): the caller has a session.
Open(t) ==
    /\ hand[t] # None
    /\ Goto(t, "opening", "out")
    /\ session' = [session EXCEPT ![t] = [engine |-> hand[t], closed |-> FALSE]]
    /\ hand' = [hand EXCEPT ![t] = None]
    /\ UNCHANGED <<shuttingDown, permits, waiters, idleEngines, totalCreated, engine>>

\* Its constructor refuses null, outside the try block: the permit is gone.
OpenThrows(t) ==
    /\ hand[t] = None
    /\ Goto(t, "opening", "out")
    /\ UNCHANGED <<shuttingDown, permits, waiters, idleEngines, totalCreated, engine,
                   session, hand>>

------------------------------------------------------------------------------
(* PooledSession.close() and returnEngine(engine).  A session's engine is  *)
(* not null, so the branch of returnEngine for null is not reached.        *)

\* Mutant of CloseSession: no compareAndSet, so a session returns its engine
\* as often as it is closed.
CloseSessionAgain(t, u) ==
    /\ session[u].engine # None
    /\ Goto(t, "out", "returning")
    /\ session' = [session EXCEPT ![u].closed = TRUE]
    /\ hand' = [hand EXCEPT ![t] = session[u].engine]
    /\ UNCHANGED <<shuttingDown, permits, waiters, idleEngines, totalCreated, engine>>

\* Thread t closes the session of thread u (its own, as a rule); the
\* compareAndSet lets one of several closing threads through.
CloseSession(t, u) ==
    /\ ~session[u].closed
    /\ Goto(t, "out", "returning")
    /\ session' = [session EXCEPT ![u].closed = TRUE]
    /\ hand' = [hand EXCEPT ![t] = session[u].engine]
    /\ UNCHANGED <<shuttingDown, permits, waiters, idleEngines, totalCreated, engine>>

\* shuttingDown.get() || !engine.isValid().  A null engine, for which only the
\* permit is released, is in no session.
ReturnCheck(t) ==
    /\ Goto(t, "returning",
            IF shuttingDown \/ engine[hand[t]] # "valid" THEN "retiring" ELSE "offering")
    /\ UNCHANGED <<shuttingDown, permits, waiters, idleEngines, totalCreated, engine,
                   session, hand>>

Offer(t) ==
    /\ Goto(t, "offering", "releasing")
    /\ idleEngines' = Append(idleEngines, hand[t])
    /\ hand' = [hand EXCEPT ![t] = None]
    /\ UNCHANGED <<shuttingDown, permits, waiters, totalCreated, engine, session>>

\* factory.destroyEngine(engine)
Retire(t) ==
    /\ Goto(t, "retiring", "uncounting")
    /\ engine' = [engine EXCEPT ![hand[t]] = "absent"]
    /\ hand' = [hand EXCEPT ![t] = None]
    /\ UNCHANGED <<shuttingDown, permits, waiters, idleEngines, totalCreated, session>>

\* It throws out of returnEngine: neither the counter nor the permit is put
\* right, and the session is closed already.
RetireThrows(t) ==
    /\ "destroyThrows" \in Faults
    /\ Goto(t, "retiring", "out")
    /\ hand' = [hand EXCEPT ![t] = None]
    /\ UNCHANGED <<shuttingDown, permits, waiters, idleEngines, totalCreated, engine, session>>

\* totalCreated.decrementAndGet()
Uncount(t) ==
    /\ Goto(t, "uncounting", "releasing")
    /\ totalCreated' = totalCreated - 1
    /\ UNCHANGED <<shuttingDown, permits, waiters, idleEngines, engine, session, hand>>

Release(t) ==
    /\ Goto(t, "releasing", "out")
    /\ permits' = permits + 1
    /\ UNCHANGED <<shuttingDown, waiters, idleEngines, totalCreated, engine, session, hand>>

------------------------------------------------------------------------------
(* PanamaEnginePool.close() *)

CloseBegin(t) ==
    /\ ~shuttingDown
    /\ Goto(t, "out", "draining")
    /\ shuttingDown' = TRUE
    /\ UNCHANGED <<permits, waiters, idleEngines, totalCreated, engine, session, hand>>

\* idleEngines.poll(), destroyEngine, decrementAndGet: while the polled engine
\* waits to be destroyed, the permit it was idle under may make another one.
Drain(t) ==
    /\ idleEngines # << >>
    /\ Goto(t, "draining", "destroying")
    /\ idleEngines' = Tail(idleEngines)
    /\ hand' = [hand EXCEPT ![t] = Head(idleEngines)]
    /\ UNCHANGED <<shuttingDown, permits, waiters, totalCreated, engine, session>>

DrainDestroy(t) ==
    /\ Goto(t, "destroying", "discounting")
    /\ engine' = [engine EXCEPT ![hand[t]] = "absent"]
    /\ hand' = [hand EXCEPT ![t] = None]
    /\ UNCHANGED <<shuttingDown, permits, waiters, idleEngines, totalCreated, session>>

DrainCount(t) ==
    /\ Goto(t, "discounting", "draining")
    /\ totalCreated' = totalCreated - 1
    /\ UNCHANGED <<shuttingDown, permits, waiters, idleEngines, engine, session, hand>>

\* destroyEngine throws out of close(): the rest of the queue stays.
DrainThrows(t) ==
    /\ "destroyThrows" \in Faults
    /\ Goto(t, "destroying", "out")
    /\ hand' = [hand EXCEPT ![t] = None]
    /\ UNCHANGED <<shuttingDown, permits, waiters, idleEngines, totalCreated, engine, session>>

DrainEnd(t) ==
    /\ idleEngines = << >>
    /\ Goto(t, "draining", "out")
    /\ UNCHANGED <<shuttingDown, permits, waiters, idleEngines, totalCreated, engine,
                   session, hand>>

------------------------------------------------------------------------------
\* A native engine stops being valid, wherever it is.
EngineDies(e) ==
    /\ "engineDies" \in Faults
    /\ totalCreated < MaxCreated
    /\ engine[e] = "valid"
    /\ engine' = [engine EXCEPT ![e] = "invalid"]
    /\ UNCHANGED <<shuttingDown, permits, waiters, idleEngines, totalCreated, session,
                   pc, hand>>

Acquire(t) == AcquireCheck(t) \/ GrantPermit(t) \/ AcquireTimeout(t) \/ Poll(t) \/ PollEmpty(t)
              \/ CheckValid(t) \/ CheckInvalid(t) \/ Create(t) \/ CreateThrows(t) \/ CreateNull(t)
              \/ Count(t) \/ Open(t) \/ OpenThrows(t)
Return(t)  == ReturnCheck(t) \/ Offer(t) \/ Retire(t) \/ RetireThrows(t) \/ Uncount(t) \/ Release(t)
Close(t)   == CloseBegin(t) \/ Drain(t) \/ DrainDestroy(t) \/ DrainCount(t) \/ DrainThrows(t)
              \/ DrainEnd(t)

Next ==
    \/ \E t \in Threads : Acquire(t) \/ Return(t) \/ Close(t)
    \/ \E t, u \in Threads : CloseSession(t, u)
    \/ \E e \in Engines : EngineDies(e)

Spec == Init /\ [][Next]_vars

\* Threads are scheduled, the semaphore serves its queue, and the body of a
\* try-with-resources ends.  Nothing makes anybody call acquire or close.
Fairness ==
    \A t \in Threads :
        /\ WF_vars(GrantPermit(t))
        /\ WF_vars(Poll(t) \/ PollEmpty(t) \/ CheckValid(t) \/ CheckInvalid(t))
        /\ WF_vars(Create(t) \/ CreateThrows(t) \/ Count(t) \/ Open(t))
        /\ WF_vars(Return(t))
        /\ WF_vars(Drain(t) \/ DrainDestroy(t) \/ DrainCount(t) \/ DrainEnd(t))
        /\ SF_vars(CloseSession(t, t))

FairSpec == Spec /\ Fairness

------------------------------------------------------------------------------
(* What a thread between two steps holds *)

At(places) == {t \in Threads : pc[t] \in places}

Leasing   == {t \in Threads : ~session[t].closed}      \* an open session
Holding   == {t \in Threads : hand[t] # None}          \* an engine in a local variable
Acquiring == At({"polling", "checking", "creating", "counting", "opening"})  \* a permit, no session
Returning == At({"returning", "offering", "retiring", "uncounting", "releasing"})  \* a permit to give back
PermitsOut == Cardinality(Leasing) + Cardinality(Acquiring) + Cardinality(Returning)

\* Engines the pool can still reach.
Reachable == Len(idleEngines) + Cardinality(Leasing) + Cardinality(Holding)

\* No permit is ever given out twice, and none is lost unless the factory
\* returns null or a destroy throws: what the semaphore has and what sessions
\* and running calls hold add up to the capacity (acquire, returnEngine).
PermitAccounting ==
    /\ permits + PermitsOut <= Capacity
    /\ Faults \cap {"createNull", "destroyThrows"} = {} => permits + PermitsOut = Capacity

\* The queue and the semaphore are not updated together, and still the pool
\* has at most Capacity engines in reach or about to be created, and one more
\* only while close() destroys an engine it has taken out of the queue: the
\* permit that engine was idle under is free, and an acquire that read the
\* flag before makes an engine in its place.
EngineBound ==
    Reachable + Cardinality(At({"creating"}))
        <= Capacity + (IF At({"destroying"}) = {} THEN 0 ELSE 1)

\* An engine is in one place: once in the queue, in one open session, or in
\* the hands of one running call, even when several threads close the same
\* session.  It is the "dedicated" handle the class promises.
Exclusive ==
    /\ \A i, j \in DOMAIN idleEngines : idleEngines[i] = idleEngines[j] => i = j
    /\ \A t, u \in Leasing : session[t].engine = session[u].engine => t = u
    /\ \A t, u \in Holding : hand[t] = hand[u] => t = u
    /\ \A t \in Leasing, u \in Holding : session[t].engine # hand[u]
    /\ \A i \in DOMAIN idleEngines :
          /\ \A t \in Leasing : session[t].engine # idleEngines[i]
          /\ \A u \in Holding : hand[u] # idleEngines[i]

\* What keeps Exclusive true: whoever holds an engine holds a real one, no
\* engine in place is absent (so createEngine cannot return it), and engines
\* are invalid only where they may die.
InPlace ==
    /\ At({"checking", "returning", "offering", "retiring", "destroying"}) \subseteq Holding
    /\ Holding \subseteq At({"checking", "counting", "opening", "returning", "offering", "retiring",
                              "destroying"})
    /\ "createNull" \in Faults \/ At({"counting", "opening"}) \subseteq Holding
    /\ \A t \in Leasing : session[t].engine \in Engines
    /\ \A i \in DOMAIN idleEngines : engine[idleEngines[i]] # "absent"
    /\ \A t \in Leasing : engine[session[t].engine] # "absent"
    /\ \A t \in Holding : engine[hand[t]] # "absent"
    /\ "engineDies" \in Faults \/ \A e \in Engines : engine[e] # "invalid"

\* totalCreated follows the engines in reach through unsynchronised steps:
\* factory, counter, queue.  It never falls below the engines in reach, less
\* those created and not yet counted, plus those destroyed and still counted;
\* without faults of the factory or the engines it is exactly that.  With them
\* it drifts upwards for good: an idle engine that has died is replaced, and
\* both are counted.
Uncounted == Cardinality(At({"counting"}))
StillCounted == Cardinality(At({"uncounting", "discounting"}))
CountCovers ==
    /\ Reachable + StillCounted <= totalCreated + Uncounted
    /\ Faults \cap {"createNull", "destroyThrows", "engineDies"} = {} =>
          Reachable + StillCounted = totalCreated + Uncounted

\* The assertion of ConcurrentEnginePoolTest, whose engines stay valid: the
\* engines the pool counts never exceed its capacity.  It fails where an
\* engine dies, and by one while the pool closes.
CreatedWithinCapacity == totalCreated <= Capacity

\* Nothing in progress and no session open.
Quiet == Leasing = {} /\ \A t \in Threads : pc[t] = "out"

\* After close() returned and the last session was closed, the pool keeps no
\* engine: "Called when the pool shuts down or an engine is retired".
ShutdownLeavesNoEngine == shuttingDown /\ Quiet => idleEngines = << >>

\* The other assertion of ConcurrentEnginePoolTest: when every session is
\* closed again all permits are back.  (Both follow from the sums above.)
PermitsRestored == Quiet => permits = Capacity

\* Every permit held by nobody is one a waiting thread can get: with no
\* timeout at all, the fair semaphore starves nobody in acquire.
NoStarvation == \A t \in Threads : pc[t] = "waiting" ~> pc[t] # "waiting"

\* The engine each thread's session gives it, while the session is open.
leases == [t \in Threads |-> IF session[t].closed THEN None ELSE session[t].engine]

Lease == INSTANCE EngineLease WITH Clients <- Threads, lease <- leases

\* The pool implements EngineLease: sessions are exclusive leases and at most
\* Capacity of them are open.
ImplementsLease == Lease!Spec
==============================================================================
