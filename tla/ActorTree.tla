----------------------------- MODULE ActorTree -----------------------------
(***************************************************************************)
(* The life of actors in their tree: spawning, starting, failing,          *)
(* supervision, restarting and stopping, from movie/actor/impl/context.py  *)
(* (LocalActorContext, ChildrenMixin) and movie/actor/impl/system.py       *)
(* (ActorRegistry, ActorSystemImpl.spawn, terminate and _shutdown).        *)
(*                                                                         *)
(* An actor handles one lifecycle message at a time (Mailbox.tla), in      *)
(* arrival order; apc is where the worker is that handles it, one step per *)
(* lock section or per message sent, so that what other actors and the     *)
(* spawning thread do in between is a behaviour.  User messages matter     *)
(* only when one makes the actor fail or stop.                             *)
(***************************************************************************)
EXTENDS Naturals, Sequences, FiniteSets

CONSTANTS
    Actors,         \* the actors that may be spawned, one incarnation each
    Root,           \* the root guardian
    Parent,         \* Parent[a]: the actor a is spawned under
    Path,           \* Path[a]: its path; incarnations may share one
    NoActor,
    MaxActors,      \* _max_actors
    MaxEvents,      \* bound: failures and terminations
    ForeignSpawns   \* threads other than the parent's own worker spawn

Paths == {Path[a] : a \in Actors}

ASSUME ActorTreeAssumption ==
    /\ Root \in Actors /\ NoActor \notin Actors
    /\ Parent \in [Actors -> Actors \cup {NoActor}]
    /\ \A a \in Actors : Parent[a] = NoActor <=> a = Root
    /\ MaxActors \in Nat /\ MaxEvents \in Nat /\ ForeignSpawns \in BOOLEAN

VARIABLES
    systemState,        \* SystemState
    registered, paths,  \* ActorRegistry._actors, _paths
    state,              \* ActorState; "NONE" before the context exists
    children,           \* _children
    restartPending,     \* _restart_pending
    started, stopped,   \* started_future, stopped_future
    cell,               \* ActorCell: "pending" (no mailbox), "open", "closed"
    inbox,              \* lifecycle messages queued in the cell or the mailbox
    apc, told,          \* the handler: control, children still to be told Stop
    spawning, spc,      \* the spawn that holds _lifecycle_lock, its control
    events,             \* failures and terminations so far
    postStops           \* PostStop signals the behavior has received

registryVars == <<registered, paths>>
actorVars == <<state, children, restartPending, started, stopped>>
handlerVars == <<apc, told>>
spawnVars == <<spawning, spc>>
worldVars == <<systemState, registryVars, spawnVars, events, postStops>>
vars == <<systemState, registryVars, actorVars, cell, inbox, handlerVars,
          spawnVars, events, postStops>>

Only(v) == [a \in Actors |-> v]

\* The guardian is up, as it is when ActorRegistry.start returns.
Init ==
    /\ systemState = "RUNNING"
    /\ registered = {Root}
    /\ paths = [p \in Paths |-> IF p = Path[Root] THEN Root ELSE NoActor]
    /\ state = [a \in Actors |-> IF a = Root THEN "RUNNING" ELSE "NONE"]
    /\ children = Only({})
    /\ restartPending = Only(FALSE)
    /\ started = [a \in Actors |-> IF a = Root THEN "ok" ELSE "no"]
    /\ stopped = Only(FALSE)
    /\ cell = [a \in Actors |-> IF a = Root THEN "open" ELSE "pending"]
    /\ inbox = Only(<<>>)
    /\ apc = Only("idle") /\ told = Only({})
    /\ spawning = NoActor /\ spc = "none"
    /\ events = 0
    /\ postStops = Only(0)

Goto(a, pc) == apc' = [apc EXCEPT ![a] = pc]
Become(a, s) == state' = [state EXCEPT ![a] = s]

\* ActorCell.tell_system: kept for the mailbox to come, queued, or dropped.
Message(kind, about) == [kind |-> kind, of |-> about]
Send(to, kind, about) ==
    IF cell[to] = "closed" THEN inbox
                           ELSE [inbox EXCEPT ![to] = Append(@, Message(kind, about))]

\* started_future is completed once, whatever comes first.
CompleteStarted(a, how) ==
    started' = IF started[a] = "no" THEN [started EXCEPT ![a] = how] ELSE started

(***************************************************************************)
(* Spawning.  ActorSystemImpl.spawn holds _lifecycle_lock to the end, and  *)
(* ActorRegistry.spawn its own lock until the actor is registered.         *)
(***************************************************************************)
MaySpawn(a) ==
    LET p == Parent[a] IN
    /\ spawning = NoActor
    /\ systemState = "RUNNING"
    /\ state[a] = "NONE"
    /\ p \in registered
    /\ \/ ForeignSpawns \/ p = Root
       \/ apc[p] \in {"starting", "restart"}
       \/ apc[p] = "idle" /\ state[p] = "RUNNING"

\* ChildrenMixin.attach_child under LocalActorContext.attach_child
AcceptsAlways(p) == TRUE
AcceptsChildren(p) == state[p] \notin {"STOPPING", "STOPPED"}
NameTaken(a) == \E b \in children[Parent[a]] : Path[b] = Path[a]
Attach(a) == children' = [children EXCEPT ![Parent[a]] = @ \cup {a}]

PathTaken(a) == paths[Path[a]] # NoActor

\* Registration; an attempt that raises before the attachment changes nothing.
Spawn(a) ==
    /\ MaySpawn(a)
    /\ Cardinality(registered) < MaxActors
    /\ AcceptsChildren(Parent[a]) /\ ~NameTaken(a) /\ ~PathTaken(a)
    /\ Attach(a)
    /\ Become(a, "NEW")
    /\ registered' = registered \cup {a}
    /\ paths' = [paths EXCEPT ![Path[a]] = a]
    /\ spawning' = a /\ spc' = "start"
    /\ UNCHANGED <<systemState, restartPending, started, stopped, cell, inbox,
                   handlerVars, events, postStops>>

\* "Actor path is already in use" is found out after the attachment: the
\* exception leaves a child that nobody will start or remove.
SpawnPathTaken(a) ==
    /\ MaySpawn(a)
    /\ Cardinality(registered) < MaxActors
    /\ AcceptsChildren(Parent[a]) /\ ~NameTaken(a) /\ PathTaken(a)
    /\ Attach(a)
    /\ Become(a, "NEW")
    /\ UNCHANGED <<worldVars, restartPending, started, stopped, cell, inbox,
                   handlerVars>>

\* LocalActorContext.start, up to the creation of the mailbox.
StartContext(a) ==
    /\ spawning = a /\ spc = "start"
    /\ Become(a, "STARTING")
    /\ spc' = "mailbox"
    /\ UNCHANGED <<systemState, registryVars, children, restartPending, started,
                   stopped, cell, inbox, handlerVars, spawning, events,
                   postStops>>

\* The cell hands its pending messages over, and the actor may be run from
\* here on.
CreateMailbox(a) ==
    /\ spawning = a /\ spc = "mailbox"
    /\ cell' = [cell EXCEPT ![a] = "open"]
    /\ spc' = "preStart"
    /\ UNCHANGED <<systemState, registryVars, actorVars, inbox, handlerVars,
                   spawning, events, postStops>>

\* create_mailbox raises: abort_start runs _complete_stop on this thread.
MailboxFails(a) ==
    /\ spawning = a /\ spc = "mailbox"
    /\ events < MaxEvents /\ events' = events + 1
    /\ Become(a, "FAILED")
    /\ Goto(a, "complete")
    /\ spc' = "abort"
    /\ UNCHANGED <<systemState, registryVars, children, restartPending, started,
                   stopped, cell, inbox, told, spawning, postStops>>

SendPreStart(a) ==
    /\ spawning = a /\ spc = "preStart"
    /\ inbox' = Send(a, "PreStart", a)
    /\ spawning' = NoActor /\ spc' = "none"
    /\ UNCHANGED <<systemState, registryVars, actorVars, cell, handlerVars,
                   events, postStops>>

Aborted(a) ==
    /\ spawning = a /\ spc = "abort"
    /\ stopped[a]
    /\ spawning' = NoActor /\ spc' = "none"
    /\ UNCHANGED <<systemState, registryVars, actorVars, cell, inbox,
                   handlerVars, events, postStops>>

SpawnStep(a) ==
    StartContext(a) \/ CreateMailbox(a) \/ SendPreStart(a) \/ Aborted(a)

(***************************************************************************)
(* Handling one lifecycle message: LocalActorContext._invoke_system.       *)
(***************************************************************************)

\* A parent whose own worker is spawning has not returned from its callback.
Spawns(a) == ~ForeignSpawns /\ spawning # NoActor /\ Parent[spawning] = a /\ a # Root

Ready(a) == apc[a] = "idle" /\ cell[a] = "open" /\ ~Spawns(a)

Take(a, kind) ==
    /\ Ready(a)
    /\ inbox[a] # <<>> /\ Head(inbox[a]).kind = kind
    /\ inbox' = [inbox EXCEPT ![a] = Tail(@)]

\* A stopped actor ignores everything, a started one PreStart, a stopping one
\* Restart.
IgnoredWhenStopped(a, kind) ==
    state[a] = "STOPPED" \/ (kind = "PreStart" /\ state[a] # "STARTING")

Ignored(a, kind) ==
    \/ state[a] = "STOPPED"
    \/ kind = "PreStart" /\ state[a] # "STARTING"
    \/ kind = "Restart" /\ state[a] = "STOPPING"

Ignore(a) ==
    /\ \E kind \in {"PreStart", "Stop", "Restart", "Terminated", "Failed"} :
          Take(a, kind) /\ Ignored(a, kind)
    /\ UNCHANGED <<worldVars, actorVars, cell, handlerVars>>

HandlePreStart(a) ==
    /\ Take(a, "PreStart") /\ ~Ignored(a, "PreStart")
    /\ Goto(a, "starting")
    /\ UNCHANGED <<worldVars, actorVars, cell, told>>

\* materialize_behaviour and PreStart went well: _finish_start.
Start(a) ==
    /\ apc[a] = "starting" /\ ~Spawns(a)
    /\ Become(a, "RUNNING")
    /\ restartPending' = [restartPending EXCEPT ![a] = FALSE]
    /\ CompleteStarted(a, "ok")
    /\ Goto(a, "idle")
    /\ UNCHANGED <<worldVars, children, stopped, cell, inbox, told>>

\* _fail, from a callback that raised: FAILED unless the actor is stopping.
Fail(a) ==
    /\ IF state[a] = "STOPPING"
         THEN Goto(a, "idle") /\ UNCHANGED <<state, started>>
         ELSE /\ Become(a, "FAILED")
              /\ CompleteStarted(a, "failed")
              /\ Goto(a, "report")

StartFails(a) ==
    /\ apc[a] = "starting" /\ ~Spawns(a)
    /\ events < MaxEvents /\ events' = events + 1
    /\ Fail(a)
    /\ UNCHANGED <<systemState, registryVars, children, restartPending, stopped,
                   cell, inbox, told, spawnVars, postStops>>

\* A user message whose handling raises.
UserMessageFails(a) ==
    /\ Ready(a) /\ state[a] = "RUNNING" /\ a # Root
    /\ events < MaxEvents /\ events' = events + 1
    /\ Fail(a)
    /\ UNCHANGED <<systemState, registryVars, children, restartPending, stopped,
                   cell, inbox, told, spawnVars, postStops>>

\* The end of _fail: the parent decides, and an actor without one stops.
Report(a) ==
    /\ apc[a] = "report"
    /\ inbox' = IF a = Root THEN Send(a, "Stop", a) ELSE Send(Parent[a], "Failed", a)
    /\ Goto(a, "idle")
    /\ UNCHANGED <<worldVars, actorVars, cell, told>>

\* supervise: a behavior of the user's may decide anything; the guardian's, and
\* the failed behavior that stands in until a restart, say RESTART.
Directives(a) ==
    IF a = Root \/ state[a] = "FAILED" \/ restartPending[a]
      THEN {"RESTART"} ELSE {"RESTART", "STOP", "ESCALATE"}

Directed(a, child, directive) ==
    CASE directive = "RESTART" -> <<child, "Restart">>
      [] directive = "STOP" -> <<child, "Stop">>
      [] directive = "ESCALATE" -> <<Parent[a], "Failed">>

HandleFailed(a) ==
    /\ Ready(a)
    /\ inbox[a] # <<>> /\ Head(inbox[a]).kind = "Failed"
    /\ ~Ignored(a, "Failed")
    /\ \E directive \in Directives(a) :
         LET child == Head(inbox[a]).of
             order == Directed(a, child, directive)
         IN  inbox' = [Send(order[1], order[2], child) EXCEPT ![a] = Tail(inbox[a])]
    /\ UNCHANGED <<worldVars, actorVars, cell, handlerVars>>

\* supervise itself raises.
SuperviseFails(a) ==
    /\ Take(a, "Failed") /\ ~Ignored(a, "Failed")
    /\ Directives(a) # {"RESTART"}
    /\ Fail(a)
    /\ UNCHANGED <<worldVars, children, restartPending, stopped, cell, told>>

(***************************************************************************)
(* Stopping and restarting: tell the children, then wait for them.         *)
(***************************************************************************)
BeginStop(a) ==
    /\ Become(a, "STOPPING")
    /\ restartPending' = [restartPending EXCEPT ![a] = FALSE]
    /\ Goto(a, "children")

HandleStop(a) ==
    /\ Take(a, "Stop") /\ ~Ignored(a, "Stop")
    /\ IF state[a] # "STOPPING" THEN BeginStop(a)
         ELSE Goto(a, "check") /\ UNCHANGED <<state, restartPending>>
    /\ UNCHANGED <<worldVars, children, started, stopped, cell, told>>

\* The behavior returns Behaviors.stopped.
StopsItself(a) ==
    /\ Ready(a) /\ state[a] = "RUNNING" /\ a # Root
    /\ events < MaxEvents /\ events' = events + 1
    /\ BeginStop(a)
    /\ UNCHANGED <<systemState, registryVars, children, started, stopped, cell,
                   inbox, told, spawnVars, postStops>>

HandleRestart(a) ==
    /\ Take(a, "Restart") /\ ~Ignored(a, "Restart")
    /\ Become(a, "STARTING")
    /\ restartPending' = [restartPending EXCEPT ![a] = TRUE]
    /\ Goto(a, "children")
    /\ UNCHANGED <<worldVars, children, started, stopped, cell, told>>

\* _stop_children: a snapshot, then one Stop each.
Snapshot(a) == children[a]

StopChildren(a) ==
    /\ apc[a] = "children"
    /\ told' = [told EXCEPT ![a] = Snapshot(a)]
    /\ Goto(a, "tell")
    /\ UNCHANGED <<worldVars, actorVars, cell, inbox>>

StopChild(a) ==
    /\ apc[a] = "tell"
    /\ \E c \in told[a] : /\ inbox' = Send(c, "Stop", c)
                          /\ told' = [told EXCEPT ![a] = @ \ {c}]
    /\ UNCHANGED <<worldVars, actorVars, cell, apc>>

ChildrenTold(a) ==
    /\ apc[a] = "tell" /\ told[a] = {}
    /\ Goto(a, "check")
    /\ UNCHANGED <<worldVars, actorVars, cell, inbox, told>>

HandleTerminated(a) ==
    /\ Take(a, "Terminated") /\ ~Ignored(a, "Terminated")
    /\ children' = [children EXCEPT ![a] = @ \ {Head(inbox[a]).of}]
    /\ Goto(a, "check")
    /\ UNCHANGED <<worldVars, state, restartPending, started, stopped, cell,
                   told>>

\* children_count() = 0: the last child gone completes what was waiting.
AllGoneAlways(a) == TRUE
AllGone(a) == children[a] = {}

Check(a) ==
    /\ apc[a] = "check"
    /\ Goto(a, CASE AllGone(a) /\ state[a] = "STOPPING" -> "complete"
                 [] AllGone(a) /\ state[a] # "STOPPING" /\ restartPending[a] -> "restart"
                 [] OTHER -> "idle")
    /\ UNCHANGED <<worldVars, actorVars, cell, inbox, told>>

\* _complete_restart: the initial behavior again, and _finish_start.
CompleteRestart(a) ==
    /\ apc[a] = "restart" /\ ~Spawns(a)
    /\ Become(a, "RUNNING")
    /\ restartPending' = [restartPending EXCEPT ![a] = FALSE]
    /\ CompleteStarted(a, "ok")
    /\ Goto(a, "idle")
    /\ UNCHANGED <<worldVars, children, stopped, cell, inbox, told>>

RestartFails(a) ==
    /\ apc[a] = "restart" /\ ~Spawns(a)
    /\ Become(a, "FAILED")
    /\ inbox' = Send(a, "Stop", a)
    /\ Goto(a, "idle")
    /\ UNCHANGED <<worldVars, children, restartPending, started, stopped, cell,
                   told>>

(***************************************************************************)
(* _complete_stop, on the actor's worker or on the thread that spawned it. *)
(***************************************************************************)
CompleteStop(a) ==
    /\ apc[a] = "complete"
    /\ Become(a, "STOPPED")
    /\ Goto(a, "postStop")
    /\ UNCHANGED <<worldVars, children, restartPending, started, stopped, cell,
                   inbox, told>>

PostStop(a) ==
    /\ apc[a] = "postStop"
    /\ postStops' = [postStops EXCEPT ![a] = @ + 1]
    /\ Goto(a, IF a = Root THEN "close" ELSE "leave")
    /\ UNCHANGED <<systemState, registryVars, actorVars, cell, inbox, told,
                   spawnVars, events>>

\* get_context(parent).remove_child(self): the child leaves on its own thread,
\* before the parent hears of it.
Leave(a) ==
    /\ apc[a] = "leave"
    /\ children' = IF Parent[a] \in registered
                     THEN [children EXCEPT ![Parent[a]] = @ \ {a}] ELSE children
    /\ Goto(a, "notify")
    /\ UNCHANGED <<worldVars, state, restartPending, started, stopped, cell,
                   inbox, told>>

NoFarewell(a) == inbox
Farewell(a) == Send(Parent[a], "Terminated", a)

Notify(a) ==
    /\ apc[a] = "notify"
    /\ inbox' = Farewell(a)
    /\ Goto(a, "close")
    /\ UNCHANGED <<worldVars, actorVars, cell, told>>

Close(a) ==
    /\ apc[a] = "close"
    /\ cell' = [cell EXCEPT ![a] = "closed"]
    /\ inbox' = [inbox EXCEPT ![a] = <<>>]
    /\ Goto(a, "unregister")
    /\ UNCHANGED <<worldVars, actorVars, told>>

Unregister(a) ==
    /\ apc[a] = "unregister"
    /\ registered' = registered \ {a}
    /\ paths' = IF paths[Path[a]] = a THEN [paths EXCEPT ![Path[a]] = NoActor]
                                      ELSE paths
    /\ Goto(a, "stopped")
    /\ UNCHANGED <<systemState, actorVars, cell, inbox, told, spawnVars, events,
                   postStops>>

\* The futures; one that was still waiting for the start is told it failed.
Stopped(a) ==
    /\ apc[a] = "stopped"
    /\ CompleteStarted(a, "failed")
    /\ stopped' = [stopped EXCEPT ![a] = TRUE]
    /\ Goto(a, "idle")
    /\ UNCHANGED <<worldVars, state, children, restartPending, cell, inbox, told>>

Handle(a) ==
    \/ Ignore(a) \/ HandlePreStart(a) \/ Start(a) \/ Report(a)
    \/ HandleFailed(a) \/ HandleStop(a) \/ HandleRestart(a) \/ HandleTerminated(a)
    \/ StopChildren(a) \/ StopChild(a) \/ ChildrenTold(a) \/ Check(a)
    \/ CompleteRestart(a) \/ CompleteStop(a) \/ PostStop(a) \/ Leave(a)
    \/ Notify(a) \/ Close(a) \/ Unregister(a) \/ Stopped(a)

(***************************************************************************)
(* Termination from outside, and the actor part of ActorSystem.stop().     *)
(***************************************************************************)
Terminate(a) ==
    /\ a \in registered \ {Root}
    /\ events < MaxEvents /\ events' = events + 1
    /\ inbox' = Send(a, "Stop", a)
    /\ UNCHANGED <<systemState, registryVars, actorVars, cell, handlerVars,
                   spawnVars, postStops>>

\* _shutdown waits for _lifecycle_lock, and no actor is spawned after it.
BeginShutdown ==
    /\ systemState = "RUNNING" /\ spawning = NoActor
    /\ systemState' = "STOPPING"
    /\ UNCHANGED <<registryVars, actorVars, cell, inbox, handlerVars, spawnVars,
                   events, postStops>>

StopGuardian ==
    /\ systemState = "STOPPING"
    /\ inbox' = Send(Root, "Stop", Root)
    /\ systemState' = "WAITING"
    /\ UNCHANGED <<registryVars, actorVars, cell, handlerVars, spawnVars,
                   events, postStops>>

\* The guardian has stopped, the dispatchers are stopped and with them every
\* handler, and the registry is cleared.
GuardianStopped == stopped[Root]

FinishShutdown ==
    /\ systemState = "WAITING" /\ GuardianStopped
    /\ \A a \in Actors : apc[a] = "idle"
    /\ systemState' = "STOPPED"
    /\ registered' = {} /\ paths' = [p \in Paths |-> NoActor]
    /\ UNCHANGED <<actorVars, cell, inbox, handlerVars, spawnVars, events,
                   postStops>>

ShutdownStep == StopGuardian \/ FinishShutdown

Next ==
    \/ \E a \in Actors :
          \/ Spawn(a) \/ SpawnPathTaken(a) \/ MailboxFails(a) \/ SpawnStep(a)
          \/ Handle(a)
          \/ StartFails(a) \/ UserMessageFails(a) \/ SuperviseFails(a)
          \/ RestartFails(a) \/ StopsItself(a) \/ Terminate(a)
    \/ BeginShutdown \/ ShutdownStep

Spec == Init /\ [][Next]_vars

\* Lifecycle messages are delivered (Mailbox: NoStrandedMessage) and callbacks
\* return; the spawning and the stopping thread are inside a call.  Nothing
\* obliges anybody to spawn, to fail or to stop.
FairSpec ==
    /\ Spec
    /\ \A a \in Actors : WF_vars(Handle(a))
    /\ WF_vars(\E a \in Actors : SpawnStep(a))
    /\ WF_vars(ShutdownStep)

-----------------------------------------------------------------------------
(***************************************************************************)
(* Properties.                                                             *)
(***************************************************************************)

ChildrenOf(a) == {c \in Actors : Parent[c] = a}

\* PostStop runs once per actor, and after that of every child it ever had,
\* however spawning, failing, restarting and stopping interleave.
PostStopBottomUp ==
    \A a \in Actors :
        /\ postStops[a] <= 1
        /\ postStops[a] = 1 =>
              \A c \in ChildrenOf(a) : state[c] = "NONE" \/ postStops[c] = 1

\* A stopping actor never comes back: no restart, start or failure that was on
\* its way when the stop arrived revives it.
NoResurrection ==
    [][\A a \in Actors :
          /\ state[a] = "STOPPING" => state'[a] \in {"STOPPING", "STOPPED"}
          /\ state[a] = "STOPPED" => state'[a] = "STOPPED"]_vars

\* A restart gives the actor its initial behavior only when the children of the
\* failed one have all stopped.
RestartWaitsForChildren ==
    [][\A a \in Actors :
          apc[a] # "restart" /\ apc'[a] = "restart" =>
              \A c \in ChildrenOf(a) : state[c] \in {"NONE", "STOPPED"}]_vars

\* Two ways a spawn by another thread leaves a parent a child it will never hear
\* of again: a spawn that raised after the attachment, and one that attached its
\* child to an actor that had already told its children to stop for a restart.
Unstarted(c) == state[c] = "NEW" /\ c \notin registered
Untold(a, c) ==
    /\ restartPending[a] /\ apc[a] = "idle"
    /\ state[c] \notin {"STOPPING", "STOPPED"}
    /\ \A i \in DOMAIN inbox[c] : inbox[c][i].kind # "Stop"
Leaked == \E a \in Actors : \E c \in children[a] : Unstarted(c) \/ Untold(a, c)

\* Actors settle: a PreStart is answered, a failure is supervised, a restart gets
\* the last of its children's terminations and a stop ends in an unregistration,
\* so that the tree comes to rest with every actor running or gone, unless a
\* spawn by another thread left a child behind.
Settled(a) == \/ state[a] \in {"NONE", "RUNNING"}
              \/ stopped[a] /\ a \notin registered

ActorSettles == [](~Leaked) => []<>(\A a \in Actors : Settled(a))

\* README: stopping "terminates children, notifies the parent, and unregisters
\* the actor": a stop that has begun is completed.  With ForeignSpawns and a
\* shared path this does not hold (README.md beside this module says why).
StopCompletes ==
    \A a \in Actors : (state[a] = "STOPPING") ~> (stopped[a] /\ a \notin registered)

=============================================================================
