---------------------------- MODULE DurableState ----------------------------
(***************************************************************************)
(* Actors whose state is durable (DurableStateBehavior in                  *)
(* src/movie/persistence/behavior.py) over the SQLite store.  An actor     *)
(* recovers before it takes a command, and takes no other command while a  *)
(* write of its own is under way; answers of the store come back as        *)
(* control messages, which a restarted actor must tell from its own.       *)
(* Several actors may use one persistence id: nothing in the code forbids  *)
(* it, and a stopped actor's write may still be on its way when its        *)
(* successor recovers.                                                     *)
(***************************************************************************)
EXTENDS DurableStore

CONSTANTS
    Actors,
    PidOf,           \* [Actors -> Pids]
    Commands,        \* what clients send: [operation, content, stop]
    Empty,           \* empty_state()
    MaxGenerations,  \* bound on behaviour instances
    MaxCommands,     \* bound on commands an actor processes
    MaxCrashes       \* bound on crashes of the process

ASSUME BehaviorAssumption ==
    /\ PidOf \in [Actors -> Pids]
    /\ {MaxGenerations, MaxCommands, MaxCrashes} \subseteq Nat

\* None is not a record of the store.
ASSUME NullAssumption ==
    Null \notin [revision : Nat, operation : {c.operation : c \in Commands},
                 content : {c.content : c \in Commands}]

VARIABLES
    actor,    \* [Actors -> the behaviour instance]
    control,  \* control messages in the actors' mailboxes
    history,  \* the changes committed, in order of commitment
    acked,    \* what the callbacks were told: of which effect, and which state
    commands, \* commands processed so far
    crashes

vars == <<storeVars, actor, control, history, acked, commands, crashes>>

---------------------------------------------------------------------------
NoEffect == [operation |-> Null, content |-> Null, stop |-> FALSE]

\* A behaviour that failed and waits for its supervisor, one that ended, and
\* one that was not created yet are all in the last phase of the code.
NotSpawned == [phase |-> "STOPPING", generation |-> 0, revision |-> 0,
               state |-> Empty, effect |-> NoEffect]

Init ==
    /\ StoreInit
    /\ actor = [a \in Actors |-> NotSpawned]
    /\ control = {} /\ history = <<>> /\ acked = {}
    /\ commands = 0 /\ crashes = 0

LoadCall(a) == [kind |-> "load", pid |-> PidOf[a]]

RecoveryWaits(a, b, duplicate) ==
    /\ actor' = [actor EXCEPT ![a] = [b EXCEPT !.phase = "RECOVERING"]]
    /\ pending' = IF Accepts(LoadCall(a))
                  THEN pending \cup {Submitted([actor |-> a, generation |-> b.generation,
                                                duplicate |-> duplicate], LoadCall(a))}
                  ELSE pending

\* _begin_recovery: submit a load, or fail the actor when the store refuses.
BeginRecovery(a, b, duplicate) ==
    IF Accepts(LoadCall(a))
    THEN /\ actor' = [actor EXCEPT ![a] = [b EXCEPT !.phase = "RECOVERING"]]
         /\ pending' = pending \cup
              {Submitted([actor |-> a, generation |-> b.generation,
                          duplicate |-> duplicate], LoadCall(a))}
    ELSE /\ actor' = [actor EXCEPT ![a] = [b EXCEPT !.phase = "STOPPING"]]
         /\ UNCHANGED pending

Generations == MapThenSumSet(LAMBDA a : actor[a].generation, Actors)

NewBehavior(a) ==
    [NotSpawned EXCEPT !.generation = actor[a].generation + 1]

\* DurableStateBehavior.__init__, run by a spawn or by a restart.
Materialize(a) ==
    /\ actor[a].phase = "STOPPING"
    /\ Generations < MaxGenerations
    /\ BeginRecovery(a, NewBehavior(a), FALSE)
    /\ UNCHANGED <<db, store, startup, connection, lock, internal,
                   control, history, acked, commands, crashes>>

\* An exception that is not the store's (a handler, a child's supervision),
\* or an actor stopped from outside, in whatever phase.
Fail(a) ==
    /\ actor[a].phase \in {"RECOVERING", "RUNNING", "PERSISTING"}
    /\ actor' = [actor EXCEPT ![a].phase = "STOPPING"]
    /\ UNCHANGED <<storeVars, control, history, acked, commands, crashes>>

WriteCall(a, c) ==
    [kind |-> "write", pid |-> PidOf[a], operation |-> c.operation,
     content |-> c.content, expected |-> actor[a].revision]

\* What the actor holds when the effect is applied.
Candidate(content) == IF content = Deleted THEN Empty ELSE content

\* _process_command with a persist or a delete effect.
ProcessCommand(a, c) ==
    /\ actor[a].phase = "RUNNING" /\ commands < MaxCommands
    /\ commands' = commands + 1
    /\ IF Accepts(WriteCall(a, c))
       THEN /\ actor' = [actor EXCEPT
                 ![a].phase = "PERSISTING",
                 ![a].effect = [operation |-> c.operation,
                                content |-> Candidate(c.content), stop |-> c.stop]]
            /\ pending' = pending \cup
                 {Submitted([actor |-> a, generation |-> actor[a].generation,
                             duplicate |-> FALSE], WriteCall(a, c))}
       ELSE /\ actor' = [actor EXCEPT ![a].phase = "STOPPING"]
            /\ UNCHANGED pending
    /\ UNCHANGED <<db, store, startup, connection, lock, internal,
                   control, history, acked, crashes>>

\* The store runs an operation; `history` records what a write committed.
StoreExecutes(o) ==
    /\ Execute(o)
    /\ history' = LET new == db'.changes \ db.changes
                  IN  IF new = {} THEN history
                      ELSE Append(history, CHOOSE row \in new : TRUE)
    /\ UNCHANGED <<actor, control, acked, commands, crashes>>

StoreTimesOut(o) ==
    /\ TimeOut(o)
    /\ UNCHANGED <<actor, control, history, acked, commands, crashes>>

\* _pipe_completion: the answer becomes a control message for its generation.
StoreCompletes(o) ==
    /\ Completed(o)
    /\ control' = control \cup {o}
    /\ UNCHANGED <<actor, history, acked, commands, crashes>>

AppliesToAny(m, a) ==
    m.from.actor = a /\ actor[a].phase \in {"RECOVERING", "RUNNING", "PERSISTING"}

AppliesTo(m, a) ==
    /\ m.from.actor = a
    /\ m.from.generation = actor[a].generation
    /\ actor[a].phase \in {"RECOVERING", "RUNNING", "PERSISTING"}

\* _finish_pending_effect: the callbacks see the state, then the actor goes
\* on or stops.
FinishEffect(a, revision, state) ==
    /\ acked' = acked \cup {[pid |-> PidOf[a], effect |-> actor[a].effect,
                             revision |-> revision, state |-> state]}
    /\ actor' = [actor EXCEPT
          ![a].phase = IF actor[a].effect.stop THEN "STOPPING" ELSE "RUNNING",
          ![a].revision = revision, ![a].state = state, ![a].effect = NoEffect]

Recovered(record) ==
    IF record = Null THEN [revision |-> 0, state |-> Empty]
    ELSE [revision |-> record.revision, state |-> Candidate(record.content)]

CompleteRecovery(a, m) ==
    LET r == Recovered(m.value)
    IN  IF m.tag # "ok"
        THEN actor' = [actor EXCEPT ![a].phase = "STOPPING"] /\ UNCHANGED acked
        ELSE IF m.from.duplicate
        THEN FinishEffect(a, r.revision, r.state)
        ELSE /\ actor' = [actor EXCEPT ![a].phase = "RUNNING",
                             ![a].revision = r.revision, ![a].state = r.state]
             /\ UNCHANGED acked

FinishUnread(a, m) ==
    /\ FinishEffect(a, actor[a].revision + 1, actor[a].effect.content)
    /\ UNCHANGED pending

CompleteWrite(a, m) ==
    CASE m.tag = "duplicate" ->
           BeginRecovery(a, actor[a], TRUE) /\ UNCHANGED acked
      [] m.tag = "written" /\ m.value.revision = actor[a].revision + 1 ->
           FinishEffect(a, m.value.revision, actor[a].effect.content) /\ UNCHANGED pending
      [] OTHER ->
           /\ actor' = [actor EXCEPT ![a].phase = "STOPPING"]
           /\ UNCHANGED <<pending, acked>>

\* The mailbox hands a control message to the behaviour it applies to and
\* drops any other.
Deliver(m) ==
    LET a == m.from.actor
    IN  /\ control' = control \ {m}
        /\ CASE ~AppliesTo(m, a) -> UNCHANGED <<actor, pending, acked>>
             [] AppliesTo(m, a) /\ m.call.kind = "load" ->
                  CompleteRecovery(a, m) /\ UNCHANGED pending
             [] OTHER -> CompleteWrite(a, m)
        /\ UNCHANGED <<db, store, startup, connection, lock, internal,
                       history, commands, crashes>>

StoreLifecycle ==
    Lifecycle /\ UNCHANGED <<actor, control, history, acked, commands, crashes>>

Crash ==
    /\ crashes < MaxCrashes /\ store # "NEW"
    /\ StoreCrash
    /\ actor' = [a \in Actors |-> [NotSpawned EXCEPT !.generation = actor[a].generation]]
    /\ control' = {}
    /\ crashes' = crashes + 1
    /\ UNCHANGED <<history, acked, commands>>

Next ==
    \/ \E a \in Actors : Materialize(a) \/ Fail(a)
    \/ \E a \in Actors, c \in Commands : ProcessCommand(a, c)
    \/ \E o \in pending : StoreExecutes(o) \/ StoreTimesOut(o) \/ StoreCompletes(o)
    \/ \E m \in control : Deliver(m)
    \/ StoreLifecycle
    \/ Crash

Spec == Init /\ [][Next]_vars

\* The I/O worker runs every operation it was given, the mailbox every
\* control message; nothing obliges clients, supervisors or the file system.
FairSpec ==
    /\ Spec
    /\ WF_vars(\E o \in pending : StoreExecutes(o) \/ StoreTimesOut(o) \/ StoreCompletes(o))
    /\ WF_vars(\E m \in control : Deliver(m))
    /\ WF_vars(StopDrained /\ UNCHANGED <<actor, control, history, acked, commands, crashes>>)
    /\ WF_vars(StopClosed /\ UNCHANGED <<actor, control, history, acked, commands, crashes>>)

---------------------------------------------------------------------------
\* The places in the history of the changes of a persistence id, and whether
\* one is of an operation with a content, or has led to a revision and state.
Changes(pid) == {i \in DOMAIN history : history[i].pid = pid}

CommittedEffect(pid, operation, content) ==
    \E i \in Changes(pid) :
       history[i].operation = operation /\ Candidate(history[i].content) = content

CommittedState(pid, revision, state) ==
    \E i \in Changes(pid) :
       history[i].revision = revision /\ Candidate(history[i].content) = state

\* AcknowledgedIsDurable: when a behaviour's callbacks run, the operation
\* they belong to is committed with the content they asked for, and stays so
\* across crashes; the state they were given is one the store committed at
\* that revision.
AcknowledgedIsDurable ==
    \A k \in acked :
       /\ CommittedEffect(k.pid, k.effect.operation, k.effect.content)
       /\ CommittedState(k.pid, k.revision, k.state)

\* RunningIsCommitted: what an actor that takes commands holds in memory is
\* what the store committed at the revision the actor believes in - never a
\* candidate whose write failed, nor one of an earlier generation.
RunningIsCommitted ==
    \A a \in Actors : actor[a].phase \in {"RUNNING", "PERSISTING"} =>
       \/ actor[a].revision = 0 /\ actor[a].state = Empty
       \/ CommittedState(PidOf[a], actor[a].revision, actor[a].state)

\* AppliedOnce: an operation that is retried - after a timeout, a restart, a
\* crash, or through another actor - changes the state once, and revisions
\* count the changes of a persistence id from one without a gap.
AppliedOnce ==
    \A i \in DOMAIN history :
       LET before == {j \in Changes(history[i].pid) : j < i}
       IN  /\ IF history[i].revision = 1 THEN before = {}
              ELSE \E j \in before : history[j].revision + 1 = history[i].revision
           /\ \A j \in before :
                 /\ history[j].revision < history[i].revision
                 /\ history[j].operation # history[i].operation

\* EffectSettles: an actor never stays suspended: a recovery or a write that
\* was begun is followed by a command loop that runs or by a behaviour that
\* failed or ended.
EffectSettles ==
    \A a \in Actors :
       actor[a].phase \in {"RECOVERING", "PERSISTING"} ~>
          actor[a].phase \in {"RUNNING", "STOPPING"}

============================================================================
