---------------------------- MODULE TrainingPlan -----------------------------
(***************************************************************************)
(* One native LibTorch plan and the exclusion LibTorchPanama puts around   *)
(* it.  In inference run_plan keeps its tensors on the stack and any       *)
(* number of threads may run the plan; in training it moves them into      *)
(* Plan::last_slots, and backward, step and zero_grad work on the plan     *)
(* too.  LibTorchPanama keeps a lock for each plan in training mode; the   *)
(* lock is looked up when a call starts and then used without looking      *)
(* again.  The switch of the mode and the update of the lock map are two   *)
(* steps, and so are the three parts of destroy.                           *)
(*                                                                         *)
(* What the callers must see to is not in the code: misuse, chosen at the  *)
(* start among Misuses, says whether they switch the mode ("switch") or    *)
(* destroy the plan ("destroy") while other calls on the handle run, and   *)
(* whether they call backward, stepOptimizer or zeroGrad on a handle that  *)
(* is not stateful ("stray").                                              *)
(***************************************************************************)
EXTENDS Naturals, FiniteSets

CONSTANTS Threads, Locks, Misuses, None

ASSUME NoneAssumption == None \notin Locks \cup Threads
ASSUME MisusesAssumption == Misuses \subseteq SUBSET {"switch", "destroy", "stray"}

VARIABLES
    misuse,         \* what the callers do that they should not; never changes
    registered,     \* the handle is in g_plans
    allocated,      \* the Plan object exists (somebody holds a shared_ptr)
    training,       \* Plan::training
    lastSlots,      \* Plan::last_slots: none, or tensors computed with or without autograd
    widthKnown,     \* the handle is in planInputWidths
    lockMap,        \* statefulPlanLocks[handle], or None
    owner,          \* the thread that holds each ReentrantLock
    pc,
    call            \* what each thread runs: operation, lock, whether its input
                    \* fits, whether the native call disabled autograd

vars == <<misuse, registered, allocated, training, lastSlots, widthKnown, lockMap, owner, pc, call>>

Executions == {"execute", "executeDirect"}
Updates == {"backward", "step", "zero"}
Operations == Executions \cup Updates
Idle == [op |-> "none", lock |-> None, fits |-> TRUE, inference |-> FALSE]

TypeOK ==
    /\ misuse \in Misuses
    /\ registered \in BOOLEAN /\ allocated \in BOOLEAN /\ training \in BOOLEAN
    /\ lastSlots \in {"none", "graph", "inference"}
    /\ widthKnown \in BOOLEAN
    /\ lockMap \in Locks \cup {None}
    /\ owner \in [Locks -> Threads \cup {None}]
    /\ pc \in [Threads -> {"out", "guarded", "locking", "calling", "running", "stateful",
                           "leaving", "switchedOn", "switchedOff", "widthGone", "lockGone"}]
    /\ call \in [Threads -> [op : Operations \cup {"none"}, lock : Locks \cup {None},
                             fits : BOOLEAN, inference : BOOLEAN]]

\* createPlan: registered with its width, in inference mode, without a lock.
Init ==
    /\ misuse \in Misuses
    /\ registered = TRUE /\ allocated = TRUE /\ training = FALSE
    /\ lastSlots = "none" /\ widthKnown = TRUE
    /\ lockMap = None /\ owner = [l \in Locks |-> None]
    /\ pc = [t \in Threads |-> "out"]
    /\ call = [t \in Threads |-> Idle]

Goto(t, from, to) == pc[t] = from /\ pc' = [pc EXCEPT ![t] = to]

OthersOut(t) == \A u \in Threads \ {t} : pc[u] = "out"
NoSwitch == \A u \in Threads : pc[u] \notin {"switchedOn", "switchedOff"}
NoDestroy == \A u \in Threads : pc[u] \notin {"widthGone", "lockGone"}

\* Native code in which a thread holds a shared_ptr to the plan.
Holders == {t \in Threads : pc[t] \in {"running", "stateful"}}

------------------------------------------------------------------------------
(* A call through LibTorchPanama *)

\* Mutant of Call: an input too short for the batch is passed on.
CallUnguarded(t, op, fits) ==
    /\ "switch" \in misuse \/ NoSwitch
    /\ "destroy" \in misuse \/ NoDestroy
    /\ op \in Updates => fits /\ ("stray" \in misuse \/ lockMap # None)
    /\ Goto(t, "out", "guarded")
    /\ call' = [call EXCEPT ![t] = [Idle EXCEPT !.op = op, !.fits = fits]]
    /\ UNCHANGED <<misuse, registered, allocated, training, lastSlots, widthKnown, lockMap, owner>>

\* execute, executeDirect (and executeSegment), backward, stepOptimizer or
\* zeroGrad.  guardPlanInvocation refuses an input it can see to be too short:
\* it checks nothing when it does not know the width.  execute, on an array,
\* leaves that to its caller.
Call(t, op, fits) ==
    /\ "switch" \in misuse \/ NoSwitch
    /\ "destroy" \in misuse \/ NoDestroy
    /\ op \in Updates => fits /\ ("stray" \in misuse \/ lockMap # None)
    /\ op = "executeDirect" => fits \/ ~widthKnown
    /\ Goto(t, "out", "guarded")
    /\ call' = [call EXCEPT ![t] = [Idle EXCEPT !.op = op, !.fits = fits]]
    /\ UNCHANGED <<misuse, registered, allocated, training, lastSlots, widthKnown, lockMap, owner>>

\* Mutant of ReadLock: the exclusion is forgotten.
ReadNoLock(t) ==
    /\ Goto(t, "guarded", "calling")
    /\ UNCHANGED <<misuse, registered, allocated, training, lastSlots, widthKnown, lockMap, owner, call>>

\* underPlanExclusion: statefulPlanLocks.get(handle)
ReadLock(t) ==
    /\ Goto(t, "guarded", IF lockMap = None THEN "calling" ELSE "locking")
    /\ call' = [call EXCEPT ![t].lock = lockMap]
    /\ UNCHANGED <<misuse, registered, allocated, training, lastSlots, widthKnown, lockMap, owner>>

\* Mutant of TakeLock: a lock that is held is taken all the same.
BargeIn(t) ==
    /\ Goto(t, "locking", "calling")
    /\ owner' = [owner EXCEPT ![call[t].lock] = t]
    /\ UNCHANGED <<misuse, registered, allocated, training, lastSlots, widthKnown, lockMap, call>>

TakeLock(t) ==
    /\ Goto(t, "locking", "calling")
    /\ owner[call[t].lock] = None
    /\ owner' = [owner EXCEPT ![call[t].lock] = t]
    /\ UNCHANGED <<misuse, registered, allocated, training, lastSlots, widthKnown, lockMap, call>>

\* The native call finds no plan: it fails without touching one.
EnterFails(t) ==
    /\ ~registered
    /\ Goto(t, "calling", "leaving")
    /\ UNCHANGED <<misuse, registered, allocated, training, lastSlots, widthKnown, lockMap, owner, call>>

\* Mutant of EnterExecute: the inference guard is always set.
EnterWithoutGraph(t) ==
    /\ registered /\ call[t].op \in Executions
    /\ Goto(t, "calling", "running")
    /\ call' = [call EXCEPT ![t].inference = TRUE]
    /\ UNCHANGED <<misuse, registered, allocated, training, lastSlots, widthKnown, lockMap, owner>>

\* torch_panama_execute: autograd is disabled unless the plan trains now.
EnterExecute(t) ==
    /\ registered /\ call[t].op \in Executions
    /\ Goto(t, "calling", "running")
    /\ call' = [call EXCEPT ![t].inference = ~training]
    /\ UNCHANGED <<misuse, registered, allocated, training, lastSlots, widthKnown, lockMap, owner>>

\* backward needs the slots of an execution; step and zero_grad do not.
EnterUpdate(t) ==
    /\ registered /\ call[t].op \in Updates
    /\ Goto(t, "calling",
            IF call[t].op = "backward" /\ lastSlots = "none" THEN "leaving" ELSE "stateful")
    /\ UNCHANGED <<misuse, registered, allocated, training, lastSlots, widthKnown, lockMap, owner, call>>

\* The shared_ptr goes out of scope: the last one frees the plan.
Unref(t) == allocated' = (registered \/ Holders \ {t} # {})

\* run_plan computes on the stack.  It may throw, and when it is done it reads
\* the mode again, to decide where the tensors go.
RunEnds(t) ==
    /\ \/ Goto(t, "running", "leaving") /\ Unref(t)
       \/ training /\ Goto(t, "running", "stateful") /\ UNCHANGED allocated
    /\ UNCHANGED <<misuse, registered, training, lastSlots, widthKnown, lockMap, owner, call>>

\* The end of the part that works on the plan: last_slots is replaced by an
\* execution (also when the output buffer then turns out too small), the
\* gradients and the optimizer state by the others.
StatefulEnds(t) ==
    /\ Goto(t, "stateful", "leaving")
    /\ lastSlots' = IF call[t].op \in Updates THEN lastSlots
                    ELSE IF call[t].inference THEN "inference" ELSE "graph"
    /\ Unref(t)
    /\ UNCHANGED <<misuse, registered, training, widthKnown, lockMap, owner, call>>

\* Mutant of Leave: the lock to release is looked up again.
LeaveLookup(t) ==
    /\ Goto(t, "leaving", "out")
    /\ owner' = [l \in Locks |-> IF l = lockMap /\ owner[l] = t THEN None ELSE owner[l]]
    /\ call' = [call EXCEPT ![t] = Idle]
    /\ UNCHANGED <<misuse, registered, allocated, training, lastSlots, widthKnown, lockMap>>

\* finally { lock.unlock() }: the lock the call took, wherever the map is now.
Leave(t) ==
    /\ Goto(t, "leaving", "out")
    /\ owner' = [l \in Locks |-> IF l = call[t].lock THEN None ELSE owner[l]]
    /\ call' = [call EXCEPT ![t] = Idle]
    /\ UNCHANGED <<misuse, registered, allocated, training, lastSlots, widthKnown, lockMap>>

------------------------------------------------------------------------------
(* setTraining(handle, on) *)

\* The native mode; a handle that is gone makes the call throw here.
SwitchNative(t, on) ==
    /\ "switch" \in misuse \/ OthersOut(t)
    /\ "destroy" \in misuse \/ NoDestroy
    /\ registered
    /\ Goto(t, "out", IF on THEN "switchedOn" ELSE "switchedOff")
    /\ training' = on
    /\ UNCHANGED <<misuse, registered, allocated, lastSlots, widthKnown, lockMap, owner, call>>

\* computeIfAbsent(handle, new ReentrantLock())
SwitchLockOn(t) ==
    /\ Goto(t, "switchedOn", "out")
    /\ IF lockMap # None THEN UNCHANGED lockMap
       ELSE \E l \in Locks : /\ owner[l] = None /\ \A u \in Threads : call[u].lock # l
                             /\ lockMap' = l
    /\ UNCHANGED <<misuse, registered, allocated, training, lastSlots, widthKnown, owner, call>>

\* Mutant of SwitchLockOff: the lock stays behind.
SwitchKeepsLock(t) ==
    /\ Goto(t, "switchedOff", "out")
    /\ UNCHANGED <<misuse, registered, allocated, training, lastSlots, widthKnown, lockMap, owner, call>>

SwitchLockOff(t) ==
    /\ Goto(t, "switchedOff", "out")
    /\ lockMap' = None
    /\ UNCHANGED <<misuse, registered, allocated, training, lastSlots, widthKnown, owner, call>>

------------------------------------------------------------------------------
(* destroy(handle) *)

DestroyWidth(t) ==
    /\ "destroy" \in misuse \/ OthersOut(t)
    /\ "switch" \in misuse \/ NoSwitch
    /\ Goto(t, "out", "widthGone")
    /\ widthKnown' = FALSE
    /\ UNCHANGED <<misuse, registered, allocated, training, lastSlots, lockMap, owner, call>>

DestroyLock(t) ==
    /\ Goto(t, "widthGone", "lockGone")
    /\ lockMap' = None
    /\ UNCHANGED <<misuse, registered, allocated, training, lastSlots, widthKnown, owner, call>>

\* Mutant of DestroyNative: the registry owns the plan alone.
DestroyFrees(t) ==
    /\ Goto(t, "lockGone", "out")
    /\ registered' = FALSE /\ allocated' = FALSE
    /\ UNCHANGED <<misuse, training, lastSlots, widthKnown, lockMap, owner, call>>

\* torch_panama_destroy: g_plans.erase; running calls keep the plan alive.
DestroyNative(t) ==
    /\ Goto(t, "lockGone", "out")
    /\ registered' = FALSE
    /\ allocated' = (Holders # {})
    /\ UNCHANGED <<misuse, training, lastSlots, widthKnown, lockMap, owner, call>>

Next ==
    \E t \in Threads :
        \/ \E op \in Operations, fits \in BOOLEAN : Call(t, op, fits)
        \/ ReadLock(t) \/ TakeLock(t) \/ EnterFails(t) \/ EnterExecute(t) \/ EnterUpdate(t)
        \/ RunEnds(t) \/ StatefulEnds(t) \/ Leave(t)
        \/ \E on \in BOOLEAN : SwitchNative(t, on)
        \/ SwitchLockOn(t) \/ SwitchLockOff(t)
        \/ DestroyWidth(t) \/ DestroyLock(t) \/ DestroyNative(t)

Spec == Init /\ [][Next]_vars

------------------------------------------------------------------------------
\* "training serialises instead of racing": no two threads work on the state of
\* the plan at the same time, if the callers misuse nothing.
StatefulExclusion ==
    misuse = {} => \A t, u \in Threads : pc[t] = "stateful" /\ pc[u] = "stateful" => t = u

\* The same of executions alone, whatever the callers do: LibTorchPanama says
\* that a handle has its lock "the moment training is switched on".
ExecutionsSerialise ==
    \A t, u \in Threads :
        /\ pc[t] = "stateful" /\ call[t].op \in Executions
        /\ pc[u] = "stateful" /\ call[u].op \in Executions
        => t = u

\* The lock map follows the native mode of a live handle, so that isStateful is
\* true exactly of the plans that train (between calls).
LockTracksMode ==
    misuse = {} /\ registered /\ (\A t \in Threads : pc[t] = "out")
    => (training <=> lockMap # None)

\* The tensors a training plan keeps were computed with autograd: backward has
\* a graph to go back through.
SlotsHaveGraph == misuse = {} => lastSlots # "inference"

\* guardPlanInvocation "refuses a plan invocation whose segments cannot hold the
\* batch": no executeDirect on a live plan reads its input past the end.
InputGuarded ==
    misuse = {} => \A t \in Holders : call[t].op = "executeDirect" => call[t].fits

\* Destroying a handle never frees a plan a native call still works on.
NoUseAfterFree == Holders # {} => allocated

\* A lock is held only by a call that is under way and took it, also when the
\* lock map was changed meanwhile: nobody waits for a lock nobody will release.
LocksReleased ==
    \A l \in Locks : owner[l] # None =>
        pc[owner[l]] \in {"calling", "running", "stateful", "leaving"} /\ call[owner[l]].lock = l
==============================================================================
