-------------------------- MODULE ExtensionRegistry --------------------------
(***************************************************************************)
(* The extensions of an actor system (src/movie/actor/extension.py).  Any  *)
(* thread may look an extension up; the first one creates and starts it,   *)
(* outside the registry's lock, and the factory and start() look up the    *)
(* extensions they need in turn, so a thread carries a stack of lookups.   *)
(* The others wait on the condition.  The thread that shuts the system     *)
(* down (ActorSystemImpl._shutdown) prepares every extension, stops the    *)
(* actors and stops the extensions, the last one started first; a shutdown *)
(* that fails half-way is tried again.                                     *)
(*                                                                         *)
(* Deadlines are faults: a wait with a timeout may give up at any time, at *)
(* most MaxFaults times.  An extension that is not managed is one whose    *)
(* start() and stop() do nothing.                                          *)
(***************************************************************************)
EXTENDS Naturals, Sequences, FiniteSets, SequencesExt, Relation

CONSTANTS
    Keys,         \* extension ids
    Threads,      \* threads that look extensions up
    NoThread,
    AtCreate,     \* AtCreate[k]: what k's factory may look up
    AtStart,      \* AtStart[k]: what k's start() may look up
    Preparable,   \* the extensions with a prepare_stop()
    Blocking,     \* those whose start() may last until prepare_stop() is called
    MaxLookups,   \* bound: lookups each thread makes of its own accord
    MaxFaults     \* bound: exceptions and expired deadlines

ASSUME ExtensionRegistryAssumption ==
    /\ NoThread \notin Threads
    /\ {AtCreate, AtStart} \subseteq [Keys -> SUBSET Keys]
    /\ Blocking \subseteq Preparable /\ Preparable \subseteq Keys
    /\ MaxLookups \in [Threads -> Nat] /\ MaxFaults \in Nat

VARIABLES
    state,                     \* _RegistryState
    instances, started,        \* the dict's keys in order, and the list
    configured, prepared, stopped, failed,
    initializing, waitingFor,  \* the dicts; NoThread where there is no entry
    stack,      \* stack[t]: t's nested lookups, the innermost last
    lookups,    \* lookups[t]: how many t has begun of its own accord
    spc, todo,  \* the shutdown: control, keys still to be prepared
    faults,
    running,    \* running[k]: start() calls not undone by a stop()
    uses        \* uses[k]: what k's factory and start() were given

sets == <<configured, prepared, stopped, failed>>
threadVars == <<waitingFor, stack, lookups>>
shutdownVars == <<spc, todo>>
ghosts == <<running, uses>>
vars == <<state, instances, started, sets, initializing, threadVars,
          shutdownVars, faults, ghosts>>

Init ==
    /\ state = "INACTIVE"
    /\ instances = <<>> /\ started = <<>>
    /\ configured = {} /\ prepared = {} /\ stopped = {} /\ failed = {}
    /\ initializing = [k \in Keys |-> NoThread]
    /\ waitingFor = [t \in Threads |-> NoThread]
    /\ stack = [t \in Threads |-> <<>>] /\ lookups = [t \in Threads |-> 0]
    /\ spc = "idle" /\ todo = <<>>
    /\ faults = 0
    /\ running = [k \in Keys |-> 0] /\ uses = [k \in Keys |-> {}]

Fault == faults < MaxFaults /\ faults' = faults + 1

\* notify_all: the threads that wait will look again; until they hold the lock
\* their entries in _waiting_for stay.
Woken(stacks) ==
    [t \in Threads |->
        IF stacks[t] # <<>> /\ Last(stacks[t]).pc = "wait"
          THEN [stacks[t] EXCEPT ![Len(stacks[t])].pc = "look"] ELSE stacks[t]]

-----------------------------------------------------------------------------
(***************************************************************************)
(* Before the activation only the thread that builds the system is there.  *)
(***************************************************************************)
Configure(k) ==
    /\ state = "INACTIVE" /\ spc = "idle"
    /\ ~Contains(instances, k)
    /\ instances' = Append(instances, k)
    /\ configured' = configured \cup {k}
    /\ UNCHANGED <<state, started, prepared, stopped, failed, initializing,
                   threadVars, shutdownVars, faults, ghosts>>

Activate ==
    /\ state = "INACTIVE"
    /\ state' = "ACTIVE"
    /\ stack' = Woken(stack)
    /\ UNCHANGED <<instances, started, sets, initializing, waitingFor, lookups,
                   shutdownVars, faults, ghosts>>

(***************************************************************************)
(* get(), of a thread's own accord or from a factory or a start().         *)
(***************************************************************************)
Top(t) == Last(stack[t])
At(t, pc) == stack[t] # <<>> /\ Top(t).pc = pc
Goto(t, pc) == [stack EXCEPT ![t][Len(stack[t])].pc = pc]
Frame(k) == [key |-> k, pc |-> "look", asked |-> {}]

Lookup(t, k) ==
    /\ state # "INACTIVE"
    /\ stack[t] = <<>> /\ lookups[t] < MaxLookups[t]
    /\ stack' = [stack EXCEPT ![t] = <<Frame(k)>>]
    /\ lookups' = [lookups EXCEPT ![t] = @ + 1]
    /\ UNCHANGED <<state, instances, started, sets, initializing, waitingFor,
                   shutdownVars, faults, ghosts>>

Wants(t) ==
    LET f == Top(t) IN
    CASE f.pc = "create" -> AtCreate[f.key] \ f.asked
      [] f.pc = "start" -> AtStart[f.key] \ f.asked
      [] OTHER -> {}

LookupNested(t, k) ==
    /\ stack[t] # <<>> /\ k \in Wants(t)
    /\ stack' = [stack EXCEPT ![t] =
                    Append([@ EXCEPT ![Len(@)].asked = @ \cup {k}], Frame(k))]
    /\ UNCHANGED <<state, instances, started, sets, initializing, waitingFor,
                   lookups, shutdownVars, faults, ghosts>>

\* The lookup is over: what it was for goes on with the extension, or fails
\* with the exception.
Outer(t) == Front(stack[t])
Answered(t) == [stack EXCEPT ![t] = Outer(t)]
Given(t) ==
    IF Outer(t) = <<>> THEN uses
    ELSE [uses EXCEPT ![Last(Outer(t)).key] = @ \cup {Top(t).key}]
AfterRaise(pc) == IF pc = "create" THEN "clean" ELSE "cleanup"
Raised(t) ==
    [stack EXCEPT ![t] =
        IF Outer(t) = <<>> THEN <<>>
        ELSE [Outer(t) EXCEPT ![Len(@)].pc = AfterRaise(@)]]

\* The body of the loop, with the lock held from one wait to the next.
IsThere(k) == Contains(instances, k) /\ (state = "INACTIVE" \/ Contains(started, k))
Closed == state \in {"STOPPING", "STOPPED"}
FailedBefore(k) == k \in failed

\* The chain of waits from u leads back to t.
Cycle(t, u) ==
    TransitiveClosure([x, y \in Threads |-> waitingFor[x] = y], Threads)[u, t]

NoLongerWaits(t) == waitingFor' = [waitingFor EXCEPT ![t] = NoThread]

Refuses(t, k) ==
    \/ Closed \/ FailedBefore(k)
    \/ /\ ~IsThere(k)
       /\ \/ state # "ACTIVE"
          \/ initializing[k] = t
          \/ initializing[k] # NoThread /\ Cycle(t, initializing[k])

Refuse(t) ==
    /\ At(t, "look") /\ Refuses(t, Top(t).key)
    /\ stack' = Raised(t)
    /\ NoLongerWaits(t)
    /\ UNCHANGED <<state, instances, started, sets, initializing, lookups,
                   shutdownVars, faults, ghosts>>

Find(t) ==
    /\ At(t, "look") /\ ~Refuses(t, Top(t).key) /\ IsThere(Top(t).key)
    /\ stack' = Answered(t)
    /\ uses' = Given(t)
    /\ NoLongerWaits(t)
    /\ UNCHANGED <<state, instances, started, sets, initializing, lookups,
                   shutdownVars, faults, running>>

Wait(t) ==
    LET k == Top(t).key IN
    /\ At(t, "look") /\ ~Refuses(t, k) /\ ~IsThere(k)
    /\ initializing[k] # NoThread
    /\ waitingFor' = [waitingFor EXCEPT ![t] = initializing[k]]
    /\ stack' = Goto(t, "wait")
    /\ UNCHANGED <<state, instances, started, sets, initializing, lookups,
                   shutdownVars, faults, ghosts>>

\* A configured extension exists already and only has to be started.
Begins(k) == running' = [running EXCEPT ![k] = @ + 1]

Claim(t) ==
    LET k == Top(t).key IN
    /\ At(t, "look") /\ ~Refuses(t, k) /\ ~IsThere(k)
    /\ initializing[k] = NoThread
    /\ initializing' = [initializing EXCEPT ![k] = t]
    /\ NoLongerWaits(t)
    /\ IF Contains(instances, k) THEN stack' = Goto(t, "start") /\ Begins(k)
                                 ELSE stack' = Goto(t, "create") /\ UNCHANGED running
    /\ UNCHANGED <<state, instances, started, sets, lookups, shutdownVars,
                   faults, uses>>

(***************************************************************************)
(* The initialisation, on the thread that claimed it.                      *)
(***************************************************************************)
Create(t) ==
    LET k == Top(t).key IN
    /\ At(t, "create")
    /\ instances' = Append(instances, k)
    /\ IF state = "ACTIVE"
         THEN stack' = Woken(Goto(t, "start")) /\ Begins(k)
         ELSE stack' = Woken(Goto(t, "cleanup")) /\ UNCHANGED running
    /\ UNCHANGED <<state, started, sets, initializing, waitingFor, lookups,
                   shutdownVars, faults, uses>>

CreateFails(t) ==
    /\ At(t, "create") /\ Fault
    /\ stack' = Goto(t, "clean")
    /\ UNCHANGED <<state, instances, started, sets, initializing, waitingFor,
                   lookups, shutdownVars, ghosts>>

Over(k) == initializing' = [initializing EXCEPT ![k] = NoThread]

\* start() returned.  Should the system be stopping by now the lookup raises,
\* but the extension is among those to be stopped.
Published(t) == IF state = "ACTIVE" THEN Answered(t) ELSE Raised(t)

Publish(t) ==
    /\ At(t, "start")
    /\ started' = Append(started, Top(t).key)
    /\ Over(Top(t).key)
    /\ stack' = Woken(Published(t))
    /\ uses' = IF state = "ACTIVE" THEN Given(t) ELSE uses
    /\ UNCHANGED <<state, instances, sets, waitingFor, lookups, shutdownVars,
                   faults, running>>

\* start() raised, also because prepare_stop() has interrupted it.
StartFails(t) ==
    /\ At(t, "start")
    /\ IF Top(t).key \in Blocking \cap prepared THEN UNCHANGED faults ELSE Fault
    /\ stack' = Goto(t, "cleanup")
    /\ UNCHANGED <<state, instances, started, sets, initializing, waitingFor,
                   lookups, shutdownVars, ghosts>>

\* What was started, or only created, is stopped, and forgotten if that worked.
IsStopped(k) == /\ running' = [running EXCEPT ![k] = 0]
                /\ uses' = [uses EXCEPT ![k] = {}]

Cleanup(t) ==
    /\ At(t, "cleanup")
    /\ stack' = Goto(t, "clean")
    /\ IsStopped(Top(t).key)
    /\ UNCHANGED <<state, instances, started, sets, initializing, waitingFor,
                   lookups, shutdownVars, faults>>

CleanupFails(t) ==
    /\ At(t, "cleanup") /\ Fault
    /\ stack' = Goto(t, "spoiled")
    /\ UNCHANGED <<state, instances, started, sets, initializing, waitingFor,
                   lookups, shutdownVars, ghosts>>

GiveUp(t) ==
    LET k == Top(t).key IN
    /\ At(t, "clean") \/ At(t, "spoiled")
    /\ IF At(t, "clean") /\ k \notin configured
         THEN instances' = Remove(instances, k) /\ UNCHANGED failed
         ELSE failed' = failed \cup {k} /\ UNCHANGED instances
    /\ Over(k)
    /\ stack' = Woken(Raised(t))
    /\ uses' = IF At(t, "clean") THEN [uses EXCEPT ![k] = {}] ELSE uses
    /\ UNCHANGED <<state, started, configured, prepared, stopped, waitingFor,
                   lookups, shutdownVars, faults, running>>

(***************************************************************************)
(* _shutdown, one at a time (_stop_lock): prepare_stop_all, the actors,    *)
(* stop_all.  It starts over after a failure, if somebody calls it again.  *)
(***************************************************************************)
Initialized == \A k \in Keys : initializing[k] = NoThread

BeginPrepare ==
    /\ spc = "idle" /\ state # "STOPPED"
    /\ IF Closed
         THEN spc' = "actors" /\ UNCHANGED <<state, stack>>
         ELSE spc' = "interrupt" /\ state' = "PREPARING" /\ stack' = Woken(stack)
    /\ UNCHANGED <<instances, started, sets, initializing, waitingFor, lookups,
                   todo, faults, ghosts>>

\* What is still being started is prepared first: that may end its start().
\* The keys are taken down at one moment and the extensions prepared later.
InterruptsNothing(k) == FALSE
Interrupts(k) == k \in Preparable \ prepared /\ initializing[k] # NoThread
ToInterrupt == SelectSeq(Reverse(instances), Interrupts)

Interrupt ==
    /\ spc = "interrupt" /\ todo = <<>>
    /\ ToInterrupt # <<>>
    /\ todo' = ToInterrupt
    /\ UNCHANGED <<state, instances, started, sets, initializing, threadVars,
                   spc, faults, ghosts>>

\* Every initialisation is over.
LifecycleOrder ==
    started \o SelectSeq(instances, LAMBDA k : ~Contains(started, k))

Prepares(k) == k \in Preparable \ prepared

Prepare ==
    /\ spc = "interrupt" /\ todo = <<>>
    /\ Initialized
    /\ spc' = "prepare"
    /\ todo' = SelectSeq(Reverse(LifecycleOrder), Prepares)
    /\ UNCHANGED <<state, instances, started, sets, initializing, threadVars,
                   faults, ghosts>>

\* prepare_stop() of the next one, unless it is gone by now.
PrepareNext ==
    /\ spc \in {"interrupt", "prepare"} /\ todo # <<>>
    /\ prepared' = IF Contains(instances, Head(todo))
                     THEN prepared \cup {Head(todo)} ELSE prepared
    /\ todo' = Tail(todo)
    /\ UNCHANGED <<state, instances, started, configured, stopped, failed,
                   initializing, threadVars, spc, faults, ghosts>>

Prepared ==
    /\ spc = "prepare" /\ todo = <<>>
    /\ spc' = "actors"
    /\ UNCHANGED <<state, instances, started, sets, initializing, threadVars,
                   todo, faults, ghosts>>

\* An exception of prepare_stop(), or the deadline: the shutdown goes on.
PrepareFails ==
    /\ spc \in {"interrupt", "prepare"} /\ Fault
    /\ spc' = "actors" /\ todo' = <<>>
    /\ UNCHANGED <<state, instances, started, sets, initializing, threadVars,
                   ghosts>>

\* The guardian has stopped: stop_all.
BeginStop ==
    /\ spc = "actors"
    /\ state' = "STOPPING" /\ spc' = "drain"
    /\ stack' = Woken(stack)
    /\ UNCHANGED <<instances, started, sets, initializing, waitingFor, lookups,
                   todo, faults, ghosts>>

DrainedAlways == TRUE
Drained == Initialized

Drain ==
    /\ spc = "drain" /\ Drained
    /\ spc' = "stop"
    /\ UNCHANGED <<state, instances, started, sets, initializing, threadVars,
                   todo, faults, ghosts>>

ToStopFirstStarted == SelectSeq(LifecycleOrder, LAMBDA k : k \notin stopped)
ToStop == SelectSeq(Reverse(LifecycleOrder), LAMBDA k : k \notin stopped)

\* stop() of the last one, and its record: what was configured stays, stopped.
StopNext ==
    /\ spc = "stop" /\ ToStop # <<>>
    /\ LET k == Head(ToStop) IN
       /\ IsStopped(k)
       /\ failed' = failed \ {k} /\ prepared' = prepared \ {k}
       /\ IF k \in configured
            THEN stopped' = stopped \cup {k} /\ UNCHANGED <<instances, started>>
            ELSE /\ instances' = Remove(instances, k)
                 /\ started' = RemoveFirst(started, k)
                 /\ UNCHANGED stopped
    /\ UNCHANGED <<state, configured, initializing, threadVars, shutdownVars,
                   faults>>

StopIsOver ==
    /\ spc = "stop" /\ ToStop = <<>>
    /\ prepared' = {}
    /\ state' = "STOPPED" /\ spc' = "idle"
    /\ stack' = Woken(stack)
    /\ UNCHANGED <<instances, started, configured, stopped, failed, initializing,
                   waitingFor, lookups, todo, faults, ghosts>>

\* The actors do not stop in time, an initialisation lasts, or a stop() raises.
ShutdownFails ==
    /\ spc \in {"actors", "drain", "stop"} /\ Fault
    /\ spc' = "idle"
    /\ UNCHANGED <<state, instances, started, sets, initializing, threadVars,
                   todo, ghosts>>

-----------------------------------------------------------------------------
Proceed(t) ==
    \/ Refuse(t) \/ Find(t) \/ Wait(t) \/ Claim(t) \/ Create(t)
    \/ Cleanup(t) \/ GiveUp(t)

ShutdownStep ==
    \/ Interrupt \/ Prepare \/ PrepareNext \/ Prepared \/ BeginStop \/ Drain
    \/ StopNext \/ StopIsOver

Next ==
    \/ \E k \in Keys : Configure(k)
    \/ Activate
    \/ \E t \in Threads :
          \/ \E k \in Keys : Lookup(t, k) \/ LookupNested(t, k)
          \/ Proceed(t) \/ Publish(t)
          \/ CreateFails(t) \/ StartFails(t) \/ CleanupFails(t)
    \/ BeginPrepare \/ ShutdownStep \/ PrepareFails \/ ShutdownFails

Spec == Init /\ [][Next]_vars

\* A start() that blocks returns of its own accord or not at all, until
\* prepare_stop() has interrupted it; every other call of an extension returns.
\* Nobody is obliged to look anything up, to shut the system down or to try again.
Blocked(t) == At(t, "start") /\ Top(t).key \in Blocking \ prepared

FairSpec ==
    /\ Spec
    /\ \A t \in Threads : WF_vars(Proceed(t) \/ (~Blocked(t) /\ Publish(t)))
    /\ WF_vars(ShutdownStep)

-----------------------------------------------------------------------------
(***************************************************************************)
(* Properties.                                                             *)
(***************************************************************************)

\* "The registry starts dependencies before dependents and stops them in reverse
\* order" (docs/remoting-v1.md): when an extension is stopped, none that was
\* given it is still running, a start that failed half-way included.
DependentsStopFirst ==
    [][\A k, u \in Keys :
          (running[k] > 0 /\ running'[k] = 0 /\ k \in uses[u]) => running[u] = 0]_vars

\* Once stop_all has returned no extension runs and none can begin to, neither
\* one whose start overlapped the shutdown nor one whose own cleanup failed.
NothingLeftRunning ==
    state = "STOPPED" =>
        /\ \A k \in Keys : running[k] = 0 /\ initializing[k] = NoThread
        /\ failed = {}

\* Lookups and shutdowns return, also when extensions need each other in a cycle
\* across threads, and a shutdown gets past a start() that blocks.
CallsReturn ==
    []<>(\/ spc = "idle" /\ \A t \in Threads : stack[t] = <<>>
         \/ spc # "interrupt" /\ \E t \in Threads : Blocked(t))

\* "Cross-thread extension dependency cycle" is raised for a cycle only: every
\* thread that is said to wait needs what another is still initialising.  This
\* does not hold (README.md beside this module says why).
CycleIsReal ==
    \A t, u \in Threads :
        /\ At(t, "look") /\ initializing[Top(t).key] = u /\ u # t /\ Cycle(t, u)
        /\ state = "ACTIVE" /\ ~FailedBefore(Top(t).key)
        => \A x \in Threads \ {t} :
              waitingFor[x] # NoThread => initializing[Top(x).key] = waitingFor[x]

=============================================================================
