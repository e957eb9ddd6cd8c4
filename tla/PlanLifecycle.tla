---------------------------- MODULE PlanLifecycle ----------------------------
(***************************************************************************)
(* A compiled plan of a provider, shared by threads that execute and close *)
(* it: a Java object that owns a native handle.  `plan' says which of the  *)
(* Plans it is and never changes; they differ in two ways.                 *)
(*                                                                         *)
(* lock: LibTorchPlan and OpenCvPlan execute under the read lock and       *)
(* close under the write lock of a (non-fair) ReentrantReadWriteLock;      *)
(* OrToolsPlan and PetscTaoPlan synchronize both; OnnxPlan takes no lock.  *)
(*                                                                         *)
(* registry: the bridges keep the native plan in a map of shared_ptrs, so  *)
(* that a call finds it or fails and keeps it alive; the OR-Tools solver   *)
(* is used and deleted through its address.                                *)
(*                                                                         *)
(* closers are the threads that may call close.                            *)
(***************************************************************************)
EXTENDS Naturals, Sequences

CONSTANTS Threads, Plans, None

ASSUME ThreadsAssumption == None \notin Threads
ASSUME PlansAssumption ==
    /\ Plans \subseteq [lock : {"readWrite", "monitor", "none"}, registry : BOOLEAN,
                        closers : SUBSET Threads]
    \* no plan is without both
    /\ \A p \in Plans : p.lock = "none" => p.registry

VARIABLES
    plan,           \* the kind of plan
    handle,         \* the plan's handle is not zero
    registered,     \* the native plan was not destroyed
    allocated,      \* its memory is valid
    readers, writer,    \* who holds the lock (a monitor has a writer only)
    queue,          \* the threads parked on the read-write lock
    pc

vars == <<plan, handle, registered, allocated, readers, writer, queue, pc>>
lockVars == <<readers, writer, queue>>
nativeVars == <<registered, allocated>>

ReadSection == {"reading", "calling", "running", "missing", "doneReading"}
WriteSection == {"writing", "destroying", "clearing", "doneWriting"}
Waiting == {"wantRead", "waitRead", "wantWrite", "waitWrite"}

TypeOK ==
    /\ plan \in Plans
    /\ handle \in BOOLEAN /\ registered \in BOOLEAN /\ allocated \in BOOLEAN
    /\ readers \subseteq Threads /\ writer \in Threads \cup {None}
    /\ queue \in Seq(Threads)
    /\ pc \in [Threads -> {"out"} \cup Waiting \cup ReadSection \cup WriteSection]

Init ==
    /\ plan \in Plans
    /\ handle = TRUE /\ registered = TRUE /\ allocated = TRUE
    /\ readers = {} /\ writer = None /\ queue = <<>>
    /\ pc = [t \in Threads |-> "out"]

Goto(t, from, to) == pc[t] = from /\ pc' = [pc EXCEPT ![t] = to]

Running == {t \in Threads : pc[t] = "running"}

------------------------------------------------------------------------------
(* The lock *)

Execute(t) ==
    /\ Goto(t, "out", "wantRead")
    /\ UNCHANGED <<plan, handle, nativeVars, lockVars>>

CloseCall(t) ==
    /\ t \in plan.closers
    /\ Goto(t, "out", "wantWrite")
    /\ UNCHANGED <<plan, handle, nativeVars, lockVars>>

First(t) == queue # <<>> /\ Head(queue) = t

\* The lock lets no reader overtake a writer that waits at the head of its queue.
WriterIsFirst == queue # <<>> /\ pc[Head(queue)] = "waitWrite"

\* Mutant of LockShared: readers overtake waiting writers.
LockSharedBarging(t) ==
    /\ plan.lock = "readWrite"
    /\ writer = None
    /\ readers' = readers \cup {t}
    /\ \/ Goto(t, "wantRead", "reading") /\ UNCHANGED queue
       \/ First(t) /\ Goto(t, "waitRead", "reading") /\ queue' = Tail(queue)
    /\ UNCHANGED <<plan, handle, nativeVars, writer>>

LockShared(t) ==
    /\ plan.lock = "readWrite"
    /\ writer = None
    /\ readers' = readers \cup {t}
    /\ \/ ~WriterIsFirst /\ Goto(t, "wantRead", "reading") /\ UNCHANGED queue
       \/ First(t) /\ Goto(t, "waitRead", "reading") /\ queue' = Tail(queue)
    /\ UNCHANGED <<plan, handle, nativeVars, writer>>

ParkShared(t) ==
    /\ plan.lock = "readWrite"
    /\ writer # None \/ WriterIsFirst
    /\ Goto(t, "wantRead", "waitRead")
    /\ queue' = Append(queue, t)
    /\ UNCHANGED <<plan, handle, nativeVars, readers, writer>>

\* Mutant of LockExclusive: close takes the lock while executions hold it.
LockOverReaders(t) ==
    /\ plan.lock = "readWrite"
    /\ writer = None
    /\ writer' = t
    /\ \/ Goto(t, "wantWrite", "writing") /\ UNCHANGED queue
       \/ First(t) /\ Goto(t, "waitWrite", "writing") /\ queue' = Tail(queue)
    /\ UNCHANGED <<plan, handle, nativeVars, readers>>

LockExclusive(t) ==
    /\ plan.lock = "readWrite"
    /\ writer = None /\ readers = {}
    /\ writer' = t
    /\ \/ Goto(t, "wantWrite", "writing") /\ UNCHANGED queue
       \/ First(t) /\ Goto(t, "waitWrite", "writing") /\ queue' = Tail(queue)
    /\ UNCHANGED <<plan, handle, nativeVars, readers>>

ParkExclusive(t) ==
    /\ plan.lock = "readWrite"
    /\ writer # None \/ readers # {}
    /\ Goto(t, "wantWrite", "waitWrite")
    /\ queue' = Append(queue, t)
    /\ UNCHANGED <<plan, handle, nativeVars, readers, writer>>

\* Mutant of LockMonitor: only close is synchronized.
LockMonitorToClose(t) ==
    /\ plan.lock = "monitor"
    /\ \/ Goto(t, "wantRead", "reading") /\ UNCHANGED writer
       \/ Goto(t, "wantWrite", "writing") /\ writer = None /\ writer' = t
    /\ UNCHANGED <<plan, handle, nativeVars, readers, queue>>

LockMonitor(t) ==
    /\ plan.lock = "monitor"
    /\ writer = None
    /\ writer' = t
    /\ Goto(t, "wantRead", "reading") \/ Goto(t, "wantWrite", "writing")
    /\ UNCHANGED <<plan, handle, nativeVars, readers, queue>>

LockNothing(t) ==
    /\ plan.lock = "none"
    /\ Goto(t, "wantRead", "reading") \/ Goto(t, "wantWrite", "writing")
    /\ UNCHANGED <<plan, handle, nativeVars, lockVars>>

Unlock(t) ==
    /\ Goto(t, "doneReading", "out") \/ Goto(t, "doneWriting", "out")
    /\ readers' = readers \ {t}
    /\ writer' = IF writer = t THEN None ELSE writer
    /\ UNCHANGED <<plan, handle, nativeVars, queue>>

------------------------------------------------------------------------------
(* execute *)

\* assertOpen, or the check of the handle in OnnxPanama.run
CheckOpen(t) ==
    /\ Goto(t, "reading", IF handle THEN "calling" ELSE "doneReading")
    /\ UNCHANGED <<plan, handle, nativeVars, lockVars>>

\* The native function looks the handle up and holds the plan from then on.
CallNative(t) ==
    /\ Goto(t, "calling", IF plan.registry /\ ~registered THEN "missing" ELSE "running")
    /\ UNCHANGED <<plan, handle, nativeVars, lockVars>>

\* It returns or fails; the last shared_ptr frees a plan that was destroyed.
NativeEnds(t) ==
    /\ Goto(t, "running", "doneReading")
    /\ allocated' = IF plan.registry THEN registered \/ Running \ {t} # {} ELSE allocated
    /\ UNCHANGED <<plan, handle, registered, lockVars>>

MissingEnds(t) ==
    /\ Goto(t, "missing", "doneReading")
    /\ UNCHANGED <<plan, handle, nativeVars, lockVars>>

------------------------------------------------------------------------------
(* close *)

\* Mutant of CheckClose: a second close destroys again.
CloseAgain(t) ==
    /\ Goto(t, "writing", "destroying")
    /\ UNCHANGED <<plan, handle, nativeVars, lockVars>>

CheckClose(t) ==
    /\ Goto(t, "writing", IF handle THEN "destroying" ELSE "doneWriting")
    /\ UNCHANGED <<plan, handle, nativeVars, lockVars>>

\* Mutant of Destroy: the plan is freed under the calls that use it.
DestroyInUse(t) ==
    /\ Goto(t, "destroying", "clearing")
    /\ registered' = FALSE /\ allocated' = FALSE
    /\ UNCHANGED <<plan, handle, lockVars>>

Destroy(t) ==
    /\ Goto(t, "destroying", "clearing")
    /\ registered' = FALSE
    /\ allocated' = (plan.registry /\ Running # {})
    /\ UNCHANGED <<plan, handle, lockVars>>

\* Mutant of DestroyThrows: the handle is cleared although nothing was destroyed.
ThrowsCleared(t) ==
    /\ Goto(t, "destroying", "doneWriting")
    /\ handle' = FALSE
    /\ UNCHANGED <<plan, nativeVars, lockVars>>

\* The call fails before the native plan is gone: the handle stays.
DestroyThrows(t) ==
    /\ Goto(t, "destroying", "doneWriting")
    /\ UNCHANGED <<plan, handle, nativeVars, lockVars>>

Clear(t) ==
    /\ Goto(t, "clearing", "doneWriting")
    /\ handle' = FALSE
    /\ UNCHANGED <<plan, nativeVars, lockVars>>

Locks(t) == LockShared(t) \/ LockExclusive(t) \/ LockMonitor(t) \/ LockNothing(t)
Parks(t) == ParkShared(t) \/ ParkExclusive(t)
Works(t) ==
    \/ CheckOpen(t) \/ CallNative(t) \/ NativeEnds(t) \/ MissingEnds(t)
    \/ CheckClose(t) \/ Destroy(t) \/ DestroyThrows(t) \/ Clear(t)
    \/ Unlock(t)

Next == \E t \in Threads : Execute(t) \/ CloseCall(t) \/ Locks(t) \/ Parks(t) \/ Works(t)

Spec == Init /\ [][Next]_vars

\* A call that is under way goes on, native calls return; nobody has to call.
Fairness == \A t \in Threads : WF_vars(Locks(t) \/ Parks(t) \/ Works(t))

FairSpec == Spec /\ Fairness

------------------------------------------------------------------------------
Guarded == plan.lock # "none"

\* No native call works on memory that was freed, whichever way a plan is
\* protected: by its lock, or by the registry's shared_ptr.
NoUseAfterFree == Running # {} => allocated

\* close() under a lock destroys a plan once, however many threads close it.
DestroyedOnce == Guarded => \A t \in Threads : pc[t] = "destroying" => registered

\* A plan that says it is closed has given its native plan back, and memory
\* outlives destroy only as long as a call uses it.
NothingLeaks == (handle \/ ~registered) /\ (allocated => registered \/ Running # {})

\* "permits concurrent execution while making close() exclusive": an execution
\* that found the plan open finds its native plan, and close() waits for it.
\* OnnxPlan, without a lock, promises nothing of the kind.
Contract == INSTANCE PlanContract WITH
    open <- Guarded => registered,
    inFlight <- {t \in Threads : Guarded /\ pc[t] \in {"calling", "running"}}

ImplementsContract == Contract!Spec

\* The one thread that closes a plan under the read-write lock gets to, however
\* many executions keep coming.
CloseReturns ==
    \A t \in Threads :
        plan.lock = "readWrite" /\ plan.closers = {t} /\ pc[t] \in {"wantWrite", "waitWrite"}
        ~> pc[t] = "out"
==============================================================================
