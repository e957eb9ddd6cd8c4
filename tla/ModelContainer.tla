--------------------------- MODULE ModelContainer ----------------------------
(***************************************************************************)
(* The lazy containers of a MathMeta: objects are registered as providers, *)
(* realized when somebody asks for the value, and configured by closures   *)
(* that may call the containers again.  One thread; `stack' is its call    *)
(* stack, so that the state of a container while a closure runs is a state *)
(* of the model.  An uncaught exception unwinds the whole stack.           *)
(*                                                                         *)
(* A program, chosen at the start, says which operations are called from   *)
(* outside (top) and which the closures call (body).  Providers and        *)
(* actions are numbered as they are made.                                  *)
(* MaxProviders, MaxActions and MaxDepth bound the model.                  *)
(***************************************************************************)
EXTENDS Naturals, Sequences, SequencesExt

CONSTANTS Containers, Names, Programs, MaxProviders, MaxActions, MaxDepth

Operations ==
    {"register", "get", "configure", "configureEach", "all", "remove", "whenRemoved", "freeze", "disallow"}

ASSUME ProgramsAssumption == Programs \subseteq [top : SUBSET Operations, body : SUBSET Operations]
ASSUME BoundsAssumption == Containers # {} /\ MaxActions \in Nat

VARIABLES
    program,    \* never changes
    made,       \* MathMeta.containers, in the order entity() made them
    entries,    \* NamedModelContainer.entries: the providers of each container
    prov,       \* every provider ever made
    future,     \* futureProviderActions
    onRemove,   \* removeActions
    eager,      \* realizeFutureObjects
    locked,     \* changesDisallowed
    stack,
    issued,     \* the number of actions handed out
    observers,  \* the actions of the configureEach and all calls that returned, with the call
    frozen      \* the containers that a freeze that returned has locked

\* All but the providers and the call stack.
otherVars == <<program, made, entries, future, onRemove, eager, locked, issued, observers, frozen>>
vars == <<otherVars, prov, stack>>

Actions == 1..MaxActions
Providers == 1..Len(prov)
States == {"REGISTERED", "REALIZING", "REALIZED"}

TypeOK ==
    /\ program \in Programs
    /\ made \in Seq(Containers) /\ IsInjective(made)
    /\ entries \in [Containers -> Seq(Providers)]
    /\ prov \in Seq([home : Containers, name : Names, state : States,
                     actions : Seq(Actions), applied : Seq(Actions)])
    /\ future \in [Containers -> Seq(Actions)] /\ onRemove \in [Containers -> Seq(Actions)]
    /\ eager \in [Containers -> BOOLEAN] /\ locked \in [Containers -> BOOLEAN]
    /\ issued \in 0..MaxActions
    /\ observers \in [Containers -> SUBSET ({"configureEach", "all"} \X Actions)]
    /\ frozen \subseteq Containers
    \* a name is registered once in a container
    /\ \A c \in Containers : \A i, j \in DOMAIN entries[c] :
          prov[entries[c][i]].name = prov[entries[c][j]].name => i = j

Init ==
    /\ program \in Programs
    /\ made = <<>> /\ prov = <<>> /\ stack = <<>> /\ issued = 0 /\ frozen = {}
    /\ entries = [c \in Containers |-> <<>>]
    /\ future = [c \in Containers |-> <<>>] /\ onRemove = [c \in Containers |-> <<>>]
    /\ eager = [c \in Containers |-> FALSE]
    /\ locked = [c \in Containers |-> FALSE]
    /\ observers = [c \in Containers |-> {}]

------------------------------------------------------------------------------
(* The call stack *)

Frame(kind, p, c, a, todo) ==
    [kind |-> kind, p |-> p, c |-> c, a |-> a, todo |-> todo, at |-> 0, size |-> 0]
AnyContainer == CHOOSE c \in Containers : TRUE
Body(p) == Frame("body", p, AnyContainer, 0, <<>>)

Top == Last(stack)
On(kind) == stack # <<>> /\ Top.kind = kind
Pop == Front(stack)
Push(f) == Len(stack) < MaxDepth /\ stack' = Append(stack, f)
Replace(f) == Append(Pop, f)

Callable(op) ==
    \/ stack = <<>> /\ op \in program.top
    \/ On("body") /\ op \in program.body

\* The new action an operation is called with.
Fresh == issued + 1
Issue == issued < MaxActions /\ issued' = Fresh

\* Mutant of Unwind: the provider stays in the middle of its realization.
UnwindOnly == stack' = <<>> /\ UNCHANGED prov

\* An exception goes through every frame; get() forgets the value and makes the
\* provider REGISTERED again.
Unwind ==
    /\ stack' = <<>>
    /\ prov' = [p \in Providers |->
                  IF prov[p].state # "REALIZING" THEN prov[p]
                  ELSE [prov[p] EXCEPT !.state = "REGISTERED", !.applied = <<>>]]

\* MathMeta.entity: the container is made when it is first asked for.
Entity(c) == made' = IF c \in ToSet(made) THEN made ELSE Append(made, c)

Named(c, n) == {p \in ToSet(entries[c]) : prov[p].name = n}

------------------------------------------------------------------------------
(* ModelProvider *)

\* ModelProvider.get on a provider that is not realized: the iteration over its
\* actions starts, with the number of actions there are.
Realizing(p) ==
    [Frame("realize", p, prov[p].home, 0, prov[p].actions) EXCEPT !.size = Len(prov[p].actions)]

StartRealize(p) ==
    /\ prov[p].state = "REGISTERED"
    /\ prov' = [prov EXCEPT ![p].state = "REALIZING", ![p].applied = <<>>]
    /\ Push(Realizing(p))

Cyclic(p) == prov[p].state = "REALIZING" /\ Unwind

Get(c, n) ==
    /\ Callable("get")
    /\ \E p \in Named(c, n) : StartRealize(p) \/ Cyclic(p)
    /\ UNCHANGED otherVars

\* actions.each { value.configure(it) }
RunNext ==
    /\ On("realize") /\ Top.todo # <<>>
    /\ Len(prov[Top.p].actions) = Top.size
    /\ Len(stack) < MaxDepth
    /\ prov' = [prov EXCEPT ![Top.p].applied = Append(@, Head(Top.todo))]
    /\ stack' = Append(Replace([Top EXCEPT !.todo = Tail(@)]), Body(Top.p))
    /\ UNCHANGED otherVars

\* An action was added while the list is iterated.
RunInterrupted ==
    /\ On("realize")
    /\ Len(prov[Top.p].actions) # Top.size
    /\ Unwind
    /\ UNCHANGED otherVars

\* validate() and lockIdentity(), which may refuse the value.
RealizeEnds ==
    /\ On("realize") /\ Top.todo = <<>>
    /\ Len(prov[Top.p].actions) = Top.size
    /\ \/ /\ prov' = [prov EXCEPT ![Top.p].state = "REALIZED"]
          /\ stack' = Pop
       \/ Unwind
    /\ UNCHANGED otherVars

\* value.configure(action) on a realized value: the closure runs now.
RunNow(p, a, below) ==
    /\ Len(below) < MaxDepth
    /\ prov' = [prov EXCEPT ![p].applied = Append(@, a)]
    /\ stack' = Append(below, Body(p))

\* ModelProvider.configure on a provider that is not realized.
Attach(p, a, below) ==
    /\ prov' = [prov EXCEPT ![p].actions = Append(@, a)]
    /\ stack' = below

ConfigureProvider(p, a, below) ==
    IF prov[p].state = "REALIZED" THEN RunNow(p, a, below) ELSE Attach(p, a, below)

Configure(c, n) ==
    /\ Callable("configure")
    /\ Issue
    /\ \E p \in Named(c, n) : ConfigureProvider(p, Fresh, stack)
    /\ UNCHANGED <<program, made, entries, future, onRemove, eager, locked, observers, frozen>>

\* The closure returns, or throws.
BodyEnds ==
    /\ On("body")
    /\ (stack' = Pop /\ UNCHANGED prov) \/ Unwind
    /\ UNCHANGED otherVars

------------------------------------------------------------------------------
(* NamedModelContainer *)

\* register, create (realizes at once) and add, with or without an action; an
\* eager container realizes what it registers.
Register(c, n, own, now) ==
    /\ Callable("register")
    /\ ~locked[c] /\ Named(c, n) = {}
    /\ Len(prov) < MaxProviders
    /\ IF own THEN Issue ELSE UNCHANGED issued
    /\ LET p == Len(prov) + 1
           actions == (IF own THEN <<Fresh>> ELSE <<>>) \o future[c]
           realize == eager[c] \/ now
       IN  /\ prov' = Append(prov, [home |-> c, name |-> n, actions |-> actions,
                                    state |-> IF realize THEN "REALIZING" ELSE "REGISTERED",
                                    applied |-> <<>>])
           /\ entries' = [entries EXCEPT ![c] = Append(@, p)]
           /\ IF realize
              THEN Push([Frame("realize", p, c, 0, actions) EXCEPT !.size = Len(actions)])
              ELSE UNCHANGED stack
    /\ Entity(c)
    /\ UNCHANGED <<program, future, onRemove, eager, locked, observers, frozen>>

\* A duplicate, or a container whose changes are disallowed.
RegisterRefused(c, n) ==
    /\ Callable("register")
    /\ locked[c] \/ Named(c, n) # {}
    /\ Unwind
    /\ Entity(c)
    /\ UNCHANGED <<program, entries, future, onRemove, eager, locked, issued, observers, frozen>>

\* Mutant of ConfigureEach: the action is for the objects there are.
ConfigurePresent(c) ==
    /\ Callable("configureEach")
    /\ Issue
    /\ Push(Frame("configureEach", 0, c, Fresh, entries[c]))
    /\ Entity(c)
    /\ UNCHANGED <<program, entries, prov, future, onRemove, eager, locked, observers, frozen>>

\* configureEach: future objects first, then those there are now.
ConfigureEach(c) ==
    /\ Callable("configureEach")
    /\ Issue
    /\ future' = [future EXCEPT ![c] = Append(@, Fresh)]
    /\ Push(Frame("configureEach", 0, c, Fresh, entries[c]))
    /\ Entity(c)
    /\ UNCHANGED <<program, entries, prov, onRemove, eager, locked, observers, frozen>>

EachNext ==
    /\ On("configureEach") /\ Top.todo # <<>>
    /\ ConfigureProvider(Head(Top.todo), Top.a, Replace([Top EXCEPT !.todo = Tail(@)]))
    /\ UNCHANGED otherVars

EachEnds ==
    /\ On("configureEach") /\ Top.todo = <<>>
    /\ observers' = [observers EXCEPT ![Top.c] = @ \cup {<<Top.kind, Top.a>>}]
    /\ stack' = Pop
    /\ UNCHANGED <<program, made, entries, prov, future, onRemove, eager, locked, issued, frozen>>

\* all (and whenObjectAdded): every present object is realized and configured ...
All(c) ==
    /\ Callable("all")
    /\ Issue
    /\ Push(Frame("all", 0, c, Fresh, entries[c]))
    /\ Entity(c)
    /\ UNCHANGED <<program, entries, prov, future, onRemove, eager, locked, observers, frozen>>

AllNext ==
    /\ On("all") /\ Top.todo # <<>>
    /\ LET p == Head(Top.todo)
       IN  \/ StartRealize(p)
           \/ Cyclic(p)
           \/ prov[p].state = "REALIZED" /\ RunNow(p, Top.a, Replace([Top EXCEPT !.todo = Tail(@)]))
    /\ UNCHANGED otherVars

\* Mutant of AllEnds: present objects only.
AllEndsPresent ==
    /\ On("all") /\ Top.todo = <<>>
    /\ observers' = [observers EXCEPT ![Top.c] = @ \cup {<<Top.kind, Top.a>>}]
    /\ stack' = Pop
    /\ UNCHANGED <<program, made, entries, prov, future, onRemove, eager, locked, issued, frozen>>

\* ... and only then the action is kept for future objects.
AllEnds ==
    /\ On("all") /\ Top.todo = <<>>
    /\ future' = [future EXCEPT ![Top.c] = Append(@, Top.a)]
    /\ eager' = [eager EXCEPT ![Top.c] = TRUE]
    /\ observers' = [observers EXCEPT ![Top.c] = @ \cup {<<Top.kind, Top.a>>}]
    /\ stack' = Pop
    /\ UNCHANGED <<program, made, entries, prov, onRemove, locked, issued, frozen>>

\* The iteration over the removal actions starts.
Removing(c, p, below) ==
    /\ Len(below) < MaxDepth
    /\ stack' = Append(below, [Frame("removed", p, c, 0, onRemove[c]) EXCEPT !.size = Len(onRemove[c])])

\* Mutant of TakeOut: the object leaves the container when its removal actions have run.
TakeOutLater(c, n, below) ==
    \E i \in DOMAIN entries[c] :
        LET p == entries[c][i]
        IN  /\ prov[p].name = n
            /\ IF prov[p].state = "REALIZED"
               THEN Removing(c, p, below) /\ UNCHANGED entries
               ELSE stack' = below /\ entries' = [entries EXCEPT ![c] = RemoveAt(@, i)]

\* The object leaves the container at once; its removal actions run only if it is realized.
TakeOut(c, n, below) ==
    \E i \in DOMAIN entries[c] :
        LET p == entries[c][i]
        IN  /\ prov[p].name = n
            /\ entries' = [entries EXCEPT ![c] = RemoveAt(@, i)]
            /\ IF prov[p].state = "REALIZED" THEN Removing(c, p, below) ELSE stack' = below

\* remove of a name that is there; of another it answers false.
RemoveNamed(c, n) ==
    /\ Callable("remove")
    /\ ~locked[c]
    /\ TakeOut(c, n, stack)
    /\ Entity(c)
    /\ UNCHANGED <<program, prov, future, onRemove, eager, locked, issued, observers, frozen>>

\* remove and clear of a container whose changes are disallowed.
RemoveRefused(c) ==
    /\ Callable("remove")
    /\ locked[c]
    /\ Unwind
    /\ Entity(c)
    /\ UNCHANGED <<program, entries, future, onRemove, eager, locked, issued, observers, frozen>>

\* removeActions.each { action.call(value) }
RemovedNext ==
    /\ On("removed") /\ Top.todo # <<>>
    /\ Len(onRemove[Top.c]) = Top.size
    /\ RunNow(Top.p, Head(Top.todo), Replace([Top EXCEPT !.todo = Tail(@)]))
    /\ UNCHANGED otherVars

\* A removal action was added while the list is iterated.
RemovedInterrupted ==
    /\ On("removed")
    /\ Len(onRemove[Top.c]) # Top.size
    /\ Unwind
    /\ UNCHANGED otherVars

RemovedEnds ==
    /\ On("removed") /\ Top.todo = <<>>
    /\ Len(onRemove[Top.c]) = Top.size
    /\ stack' = Pop
    /\ UNCHANGED <<otherVars, prov>>

WhenObjectRemoved(c) ==
    /\ Callable("whenRemoved")
    /\ Issue
    /\ onRemove' = [onRemove EXCEPT ![c] = Append(@, Fresh)]
    /\ Entity(c)
    /\ UNCHANGED <<program, entries, prov, future, eager, locked, stack, observers, frozen>>

\* clear removes, one after the other, the names there are now.
Clear(c) ==
    /\ Callable("remove")
    /\ ~locked[c]
    /\ Push(Frame("clear", 0, c, 0, entries[c]))
    /\ Entity(c)
    /\ UNCHANGED <<program, entries, prov, future, onRemove, eager, locked, issued, observers, frozen>>

ClearNext ==
    /\ On("clear") /\ Top.todo # <<>>
    /\ LET rest == Replace([Top EXCEPT !.todo = Tail(@)])
           name == prov[Head(Top.todo)].name
       IN  \/ locked[Top.c] /\ Unwind /\ UNCHANGED entries
           \/ ~locked[Top.c] /\ Named(Top.c, name) = {} /\ stack' = rest /\ UNCHANGED <<entries, prov>>
           \/ ~locked[Top.c] /\ TakeOut(Top.c, name, rest) /\ UNCHANGED prov
    /\ UNCHANGED <<program, made, future, onRemove, eager, locked, issued, observers, frozen>>

ClearEnds ==
    /\ On("clear") /\ Top.todo = <<>>
    /\ stack' = Pop
    /\ UNCHANGED <<otherVars, prov>>

DisallowChanges(c) ==
    /\ Callable("disallow")
    /\ locked' = [locked EXCEPT ![c] = TRUE]
    /\ Entity(c)
    /\ UNCHANGED <<program, entries, prov, future, onRemove, eager, stack, issued, observers, frozen>>

------------------------------------------------------------------------------
(* MathMeta.freeze *)

Freeze ==
    /\ Callable("freeze")
    /\ Push([Frame("freeze", 0, AnyContainer, 0, <<>>) EXCEPT !.size = Len(made)])
    /\ UNCHANGED <<otherVars, prov>>

\* validate(): the next container, with its providers as they are now.  The
\* iteration notices a container made meanwhile, unless it was at the last one.
FreezeContainer ==
    /\ On("freeze") /\ Top.todo = <<>> /\ Top.at < Top.size
    /\ IF Len(made) # Top.size THEN Unwind
       ELSE /\ stack' = Replace([Top EXCEPT !.at = @ + 1, !.todo = entries[made[Top.at + 1]]])
            /\ UNCHANGED prov
    /\ UNCHANGED otherVars

FreezeNext ==
    /\ On("freeze") /\ Top.todo # <<>>
    /\ LET p == Head(Top.todo)
       IN  \/ StartRealize(p)
           \/ Cyclic(p)
           \/ /\ prov[p].state = "REALIZED"
              /\ stack' = Replace([Top EXCEPT !.todo = Tail(@)])
              /\ UNCHANGED prov
    /\ UNCHANGED otherVars

\* Mutant of FreezeEnds: the containers are locked before they are validated.
FreezeAtOnce ==
    /\ On("freeze")
    /\ locked' = [c \in Containers |-> locked[c] \/ c \in ToSet(made)]
    /\ frozen' = frozen \cup ToSet(made)
    /\ stack' = Pop
    /\ UNCHANGED <<program, made, entries, prov, future, onRemove, eager, issued, observers>>

FreezeEnds ==
    /\ On("freeze") /\ Top.todo = <<>> /\ Top.at = Top.size
    /\ locked' = [c \in Containers |-> locked[c] \/ c \in ToSet(made)]
    /\ frozen' = frozen \cup ToSet(made)
    /\ stack' = Pop
    /\ UNCHANGED <<program, made, entries, prov, future, onRemove, eager, issued, observers>>

Next ==
    \/ \E c \in Containers, n \in Names :
          \/ \E own, now \in BOOLEAN : Register(c, n, own, now)
          \/ RegisterRefused(c, n) \/ Get(c, n) \/ Configure(c, n) \/ RemoveNamed(c, n)
    \/ \E c \in Containers :
          \/ ConfigureEach(c) \/ All(c) \/ WhenObjectRemoved(c) \/ DisallowChanges(c)
          \/ Clear(c) \/ RemoveRefused(c)
    \/ RemovedNext \/ RemovedInterrupted \/ RemovedEnds \/ ClearNext \/ ClearEnds
    \/ RunNext \/ RunInterrupted \/ RealizeEnds \/ BodyEnds
    \/ EachNext \/ EachEnds \/ AllNext \/ AllEnds
    \/ Freeze \/ FreezeContainer \/ FreezeNext \/ FreezeEnds

Spec == Init /\ [][Next]_vars

------------------------------------------------------------------------------
\* A provider is REALIZING only while its get() is running: an exception never
\* leaves one behind that would report a cycle ever after.
RealizingIsRunning ==
    \A p \in Providers : prov[p].state = "REALIZING" <=>
        \E i \in DOMAIN stack : stack[i].kind = "realize" /\ stack[i].p = p

\* What was attached to a provider has run on its value, in the order it was
\* attached, when the value is realized; and no action runs twice on a value.
AppliedInOrder ==
    \A p \in Providers :
        /\ prov[p].state = "REALIZED" => IsPrefix(prov[p].actions, prov[p].applied)
        /\ IsInjective(prov[p].applied)

Reached(p, a) ==
    a \in ToSet(IF prov[p].state = "REALIZED" THEN prov[p].applied ELSE prov[p].actions)

ObserversReach(c, call) ==
    \A a \in Actions : <<call, a>> \in observers[c] =>
        \A p \in ToSet(entries[c]) : Reached(p, a)

\* An action given to configureEach reaches every object of the container,
\* present or future, whatever the closures do: it has run on those that are
\* realized, and waits on the others.
ConfigureEachReachesAll ==
    stack = <<>> => \A c \in Containers : ObserversReach(c, "configureEach")

\* An action given to all reaches every object too, unless closures register
\* objects while it runs.
AllReachesAll ==
    stack = <<>> /\ "register" \notin program.body => \A c \in Containers : ObserversReach(c, "all")

\* "freeze() realizes, validates and locks all containers": what it locked is
\* realized, unless closures register objects meanwhile.
FrozenIsRealized ==
    "register" \notin program.body =>
        \A c \in frozen : \A p \in ToSet(entries[c]) : prov[p].state = "REALIZED"

\* What the sentence says of any model.
FreezeRealizesAll ==
    \A c \in frozen : \A p \in ToSet(entries[c]) : prov[p].state = "REALIZED"
==============================================================================
