--------------------------- MODULE ActorTreeProofs ---------------------------
(***************************************************************************)
(* ActorTree.tla for every tree of actors, every sharing of paths, every   *)
(* bound and with spawns by any thread: an actor stops once and after its  *)
(* children, a stop is final, and a restart waits for the children.        *)
(***************************************************************************)
EXTENDS ActorTree, TLAPS

States == {"NONE", "NEW", "STARTING", "RUNNING", "FAILED", "STOPPING", "STOPPED"}

\* Where a worker, or the thread that aborts a start, is after it has decided
\* that the actor stops, after the behavior received PostStop, and before.
AfterPostStop == {"leave", "notify", "close", "unregister", "stopped"}
Handling == {"starting", "report", "children", "tell", "check", "restart"}
Pcs == {"idle", "complete", "postStop"} \cup Handling \cup AfterPostStop

Msg == [kind : {"PreStart", "Stop", "Restart", "Terminated", "Failed"}, of : Actors]

\* Every variable has its type.
TypeOK ==
    /\ registered \subseteq Actors
    /\ state \in [Actors -> States] /\ children \in [Actors -> SUBSET Actors]
    /\ restartPending \in [Actors -> BOOLEAN] /\ stopped \in [Actors -> BOOLEAN]
    /\ cell \in [Actors -> {"pending", "open", "closed"}] /\ inbox \in [Actors -> Seq(Msg)]
    /\ apc \in [Actors -> Pcs] /\ told \in [Actors -> SUBSET Actors]
    /\ spawning \in Actors \cup {NoActor}
    /\ spc \in {"none", "start", "mailbox", "preStart", "abort"}
    /\ postStops \in [Actors -> {0, 1}]

\* The thread that spawns has the actor to itself until its mailbox exists.
SpawnInv ==
    /\ spc = "none" <=> spawning = NoActor
    /\ spc \in {"start", "mailbox"} =>
          /\ state[spawning] = (IF spc = "start" THEN "NEW" ELSE "STARTING")
          /\ apc[spawning] = "idle" /\ cell[spawning] = "pending"
          /\ children[spawning] = {} /\ spawning # Root

\* The state of an actor and the handler's place go together.
ActorInv(a) ==
    /\ state[a] = "NONE" => children[a] = {} /\ a \notin registered
    /\ state[a] \in {"NONE", "NEW"} => apc[a] = "idle" /\ cell[a] = "pending"
    /\ apc[a] = "starting" => state[a] = "STARTING"
    /\ apc[a] \in Handling => state[a] # "STOPPED"
    /\ apc[a] \in {"restart", "report"} => state[a] # "STOPPING"
    /\ apc[a] = "complete" => /\ children[a] = {}
                              /\ \/ state[a] = "STOPPING"
                                 \/ state[a] = "FAILED" /\ spawning = a /\ spc = "abort"
    /\ apc[a] = "postStop" => postStops[a] = 0 /\ state[a] = "STOPPED"
    /\ apc[a] \in AfterPostStop \/ stopped[a] => postStops[a] = 1
    /\ apc[a] \in {"leave", "notify"} => a # Root
    /\ postStops[a] = 1 => state[a] = "STOPPED"
    /\ state[a] = "STOPPED" => children[a] = {} /\ (apc[a] = "postStop" \/ postStops[a] = 1)

\* A parent keeps a child that was spawned until the child's behavior has
\* received PostStop.
AttachedInv ==
    \A c \in Actors \ {Root} :
        state[c] # "NONE" => c \in children[Parent[c]] \/ postStops[c] = 1

\* Nobody hears of a termination before the PostStop.
FarewellInv ==
    \A a \in Actors : \A i \in DOMAIN inbox[a] :
        inbox[a][i].kind = "Terminated" => postStops[inbox[a][i].of] = 1

\* The inductive invariant.
IInv == /\ TypeOK /\ SpawnInv /\ AttachedInv /\ FarewellInv
        /\ \A a \in Actors : ActorInv(a)

-----------------------------------------------------------------------------
(* Queues of messages.                                                     *)

\* A queue holds what it held, and perhaps the message.
Added(queues, message) ==
    /\ queues \in [Actors -> Seq(Msg)]
    /\ \A b \in Actors : \A i \in DOMAIN queues[b] :
          \/ i \in DOMAIN inbox[b] /\ queues[b][i] = inbox[b][i]
          \/ queues[b][i] = message

\* What tell_system leaves in the queues: what was there, and the message at
\* the end of one of them.
LEMMA SendIs ==
    ASSUME TypeOK, NEW to \in Actors, NEW about \in Actors,
           NEW kind \in {"PreStart", "Stop", "Restart", "Terminated", "Failed"}
    PROVE  Added(Send(to, kind, about), Message(kind, about))
<1>1. Message(kind, about) \in Msg
  BY Zenon DEF Message, Msg
<1>2. CASE cell[to] = "closed"
  BY <1>2, Zenon DEF Added, Send, TypeOK
<1>3. CASE cell[to] # "closed"
  <2>1. PICK m \in Msg : m = Message(kind, about)
    BY <1>1, Zenon
  <2>2. Send(to, kind, about) = [inbox EXCEPT ![to] = Append(inbox[to], m)]
    BY <1>3, <2>1, Zenon DEF Send, TypeOK
  <2>3. inbox[to] \in Seq(Msg) /\ inbox \in [Actors -> Seq(Msg)]
    BY Zenon DEF TypeOK
  <2>4. QED BY <2>1, <2>2, <2>3 DEF Added
<1>4. QED BY <1>2, <1>3, Zenon

\* A message that is sent is a farewell only after the PostStop.
LEMMA SendFarewell ==
    ASSUME TypeOK, FarewellInv, NEW to \in Actors, NEW about \in Actors,
           NEW kind \in {"PreStart", "Stop", "Restart", "Terminated", "Failed"},
           kind = "Terminated" => postStops[about] = 1,
           inbox' = Send(to, kind, about), UNCHANGED postStops
    PROVE  inbox' \in [Actors -> Seq(Msg)] /\ FarewellInv'
<1>0. /\ inbox' \in [Actors -> Seq(Msg)]
      /\ \A b \in Actors : \A i \in DOMAIN inbox'[b] :
            \/ i \in DOMAIN inbox[b] /\ inbox'[b][i] = inbox[b][i]
            \/ inbox'[b][i] = Message(kind, about)
  <2>1. Added(inbox', Message(kind, about))
    BY SendIs, Zenon
  <2>2. QED BY <2>1, Zenon DEF Added
<1>1. inbox' \in [Actors -> Seq(Msg)]
  BY <1>0, Zenon
<1>2. ASSUME NEW b \in Actors, NEW i \in DOMAIN inbox'[b], inbox'[b][i].kind = "Terminated"
      PROVE  postStops'[inbox'[b][i].of] = 1
  <2>1. CASE i \in DOMAIN inbox[b] /\ inbox'[b][i] = inbox[b][i]
    BY <1>2, <2>1, Zenon DEF FarewellInv
  <2>2. CASE inbox'[b][i] = Message(kind, about)
    BY <1>2, <2>2 DEF Message
  <2>3. QED BY <1>0, <2>1, <2>2, Zenon
<1>3. QED BY <1>1, <1>2, Zenon DEF FarewellInv

\* A handler takes the first message of its queue.
LEMMA TakeFarewell ==
    ASSUME TypeOK, FarewellInv, NEW a \in Actors, inbox[a] # <<>>,
           inbox' = [inbox EXCEPT ![a] = Tail(@)], UNCHANGED postStops
    PROVE  /\ inbox' \in [Actors -> Seq(Msg)] /\ FarewellInv'
           /\ Head(inbox[a]) \in Msg
           /\ Head(inbox[a]).kind = "Terminated" => postStops[Head(inbox[a]).of] = 1
<1>1. inbox[a] \in Seq(Msg) /\ inbox \in [Actors -> Seq(Msg)]
  BY Zenon DEF TypeOK
<1>2. inbox' \in [Actors -> Seq(Msg)]
  BY <1>1
<1>3. Head(inbox[a]) \in Msg /\ Head(inbox[a]) = inbox[a][1] /\ 1 \in DOMAIN inbox[a]
  BY <1>1
<1>4. \A i \in DOMAIN Tail(inbox[a]) :
         i + 1 \in DOMAIN inbox[a] /\ Tail(inbox[a])[i] = inbox[a][i + 1]
  BY <1>1
<1>5. ASSUME NEW b \in Actors, NEW i \in DOMAIN inbox'[b]
      PROVE  \E j \in DOMAIN inbox[b] : inbox'[b][i] = inbox[b][j]
  <2>1. CASE b = a
    BY <1>1, <1>4, <2>1, Zenon
  <2>2. CASE b # a
    BY <1>1, <2>2, Zenon
  <2>3. QED BY <2>1, <2>2, Zenon
<1>6. FarewellInv'
  BY <1>5 DEF FarewellInv
<1>7. QED BY <1>2, <1>3, <1>6 DEF FarewellInv

\* Close empties a queue.
LEMMA ClearFarewell ==
    ASSUME TypeOK, FarewellInv, NEW a \in Actors, inbox' = [inbox EXCEPT ![a] = <<>>],
           UNCHANGED postStops
    PROVE  inbox' \in [Actors -> Seq(Msg)] /\ FarewellInv'
<1>1. inbox \in [Actors -> Seq(Msg)] /\ <<>> \in Seq(Msg)
  BY DEF TypeOK
<1>2. QED BY <1>1 DEF FarewellInv


-----------------------------------------------------------------------------
(* The steps of a handler.                                                 *)

\* What a handler's step may do to the rest of the tree: only its own actor
\* moves, children leave only after their PostStop, and the actor is one that
\* can be run.
OwnStep(a) ==
    /\ \A b \in Actors \ {a} :
          /\ state'[b] = state[b] /\ apc'[b] = apc[b] /\ stopped'[b] = stopped[b]
          /\ postStops'[b] = postStops[b] /\ cell'[b] = cell[b]
    /\ \A b \in Actors : children'[b] \subseteq children[b]
    /\ \A b \in Actors : \A c \in children[b] \ children'[b] : postStops[c] = 1
    /\ registered' \subseteq registered /\ UNCHANGED <<spawning, spc>>
    /\ apc[a] # "idle" \/ cell[a] = "open"
    /\ postStops[a] = 1 => postStops'[a] = 1

\* Such a step disturbs no other actor, and not the spawn in progress.
LEMMA OwnStepInv ==
    ASSUME IInv, NEW a \in Actors, OwnStep(a), TypeOK', FarewellInv', ActorInv(a)'
    PROVE  IInv'
<1>1. state[a] \notin {"NONE", "NEW"}
  BY Zenon DEF IInv, ActorInv, OwnStep
<1>2. \A b \in Actors : b # a => ActorInv(b)'
  BY ActorTreeAssumption DEF IInv, ActorInv, OwnStep, TypeOK
<1>3. SpawnInv'
  <2>1. CASE spc \in {"start", "mailbox"}
    <3>1. spawning \in Actors /\ spawning # a
      BY <2>1, ActorTreeAssumption, Zenon DEF IInv, SpawnInv, TypeOK, OwnStep
    <3>2. QED BY <2>1, <3>1, Zenon DEF IInv, SpawnInv, OwnStep
  <2>2. CASE spc \notin {"start", "mailbox"}
    BY <2>2, Zenon DEF IInv, SpawnInv, OwnStep
  <2>3. QED BY <2>1, <2>2, Zenon
<1>4. AttachedInv'
  <2>1. SUFFICES ASSUME NEW c \in Actors \ {Root}, state'[c] # "NONE"
                 PROVE  c \in children'[Parent[c]] \/ postStops'[c] = 1
    BY Zenon DEF AttachedInv
  <2>2. state[c] # "NONE" /\ Parent[c] \in Actors
    BY <1>1, <2>1, ActorTreeAssumption, Zenon DEF OwnStep
  <2>3. c \in children[Parent[c]] \/ postStops[c] = 1
    BY <2>2, Zenon DEF IInv, AttachedInv
  <2>4. postStops[c] = 1 => postStops'[c] = 1
    BY Zenon DEF OwnStep
  <2>5. QED BY <2>2, <2>3, <2>4, Zenon DEF OwnStep
<1>5. QED BY <1>2, <1>3, <1>4, Zenon DEF IInv


\* Starting, failing and what an actor ignores.
LEMMA StartingInv ==
    ASSUME IInv, NEW a \in Actors,
           Ignore(a) \/ HandlePreStart(a) \/ Start(a) \/ StartFails(a) \/ UserMessageFails(a)
              \/ SuperviseFails(a)
    PROVE  IInv'
<1>0. TypeOK /\ FarewellInv /\ ActorInv(a)
  BY Zenon DEF IInv
<1>1. CASE Ignore(a)
  <2>1. inbox' \in [Actors -> Seq(Msg)] /\ FarewellInv'
    BY <1>0, <1>1, TakeFarewell, Zenon DEF Ignore, Take, worldVars, registryVars, spawnVars
  <2>2. TypeOK'
    BY <1>0, <1>1, <2>1, Zenon DEF Ignore, Take, Ready, actorVars, handlerVars, worldVars,
       registryVars, spawnVars, TypeOK, Pcs, Handling, AfterPostStop, States
  <2>3. OwnStep(a)
    BY <1>0, <1>1, Zenon DEF OwnStep, Ignore, Take, Ready, actorVars, handlerVars, worldVars,
       registryVars, spawnVars, TypeOK
  <2>4. ActorInv(a)'
    BY <1>0, <1>1, Zenon DEF ActorInv, Ignore, Take, Ready, actorVars, handlerVars, worldVars,
       registryVars, spawnVars, TypeOK, Pcs, Handling, AfterPostStop, States
  <2>5. QED BY <2>1, <2>2, <2>3, <2>4, OwnStepInv, Zenon
<1>2. CASE HandlePreStart(a)
  <2>1. inbox' \in [Actors -> Seq(Msg)] /\ FarewellInv'
    BY <1>0, <1>2, TakeFarewell, Zenon DEF HandlePreStart, Take, worldVars, registryVars,
       spawnVars
  <2>2. TypeOK'
    BY <1>0, <1>2, <2>1, Zenon DEF HandlePreStart, Take, Ready, Ignored, Goto, actorVars,
       worldVars, registryVars, spawnVars, TypeOK, Pcs, Handling, AfterPostStop, States
  <2>3. OwnStep(a)
    BY <1>0, <1>2, Zenon DEF OwnStep, HandlePreStart, Take, Ready, Ignored, Goto, actorVars,
       worldVars, registryVars, spawnVars, TypeOK
  <2>4. ActorInv(a)'
    BY <1>0, <1>2, Zenon DEF ActorInv, HandlePreStart, Take, Ready, Ignored, Goto, actorVars,
       worldVars, registryVars, spawnVars, TypeOK, Pcs, Handling, AfterPostStop, States
  <2>5. QED BY <2>1, <2>2, <2>3, <2>4, OwnStepInv, Zenon
<1>3. CASE Start(a)
  <2>1. inbox' \in [Actors -> Seq(Msg)] /\ FarewellInv'
    BY <1>0, <1>3, Zenon DEF Start, worldVars, registryVars, spawnVars, TypeOK, FarewellInv
  <2>2. TypeOK'
    BY <1>0, <1>3, <2>1, Zenon DEF Start, Become, Goto, worldVars, registryVars, spawnVars,
       TypeOK,
       Pcs, Handling, AfterPostStop, States
  <2>3. OwnStep(a)
    BY <1>0, <1>3, Zenon DEF OwnStep, Start, Become, Goto, worldVars, registryVars,
       spawnVars, TypeOK
  <2>4. ActorInv(a)'
    BY <1>0, <1>3, Zenon DEF ActorInv, Start, Become, Goto, worldVars, registryVars, spawnVars,
       TypeOK, Pcs, Handling, AfterPostStop, States
  <2>5. QED BY <2>1, <2>2, <2>3, <2>4, OwnStepInv, Zenon
<1>4. CASE StartFails(a)
  <2>1. inbox' \in [Actors -> Seq(Msg)] /\ FarewellInv'
    BY <1>0, <1>4, Zenon DEF StartFails, worldVars, registryVars, spawnVars, TypeOK,
       FarewellInv
  <2>2. TypeOK'
    BY <1>0, <1>4, <2>1, ZenonT(60) DEF StartFails, Fail, Become, Goto, worldVars,
       registryVars,
       spawnVars, TypeOK, Pcs, Handling, AfterPostStop, States
  <2>3. OwnStep(a)
    BY <1>0, <1>4, Zenon DEF OwnStep, StartFails, Fail, Become, Goto, worldVars, registryVars,
       spawnVars, TypeOK
  <2>4. ActorInv(a)'
    BY <1>0, <1>4 DEF ActorInv, StartFails, Fail, Become, Goto, worldVars, registryVars,
       spawnVars, TypeOK, Pcs, Handling, AfterPostStop, States
  <2>5. QED BY <2>1, <2>2, <2>3, <2>4, OwnStepInv, Zenon
<1>5. CASE UserMessageFails(a)
  <2>1. inbox' \in [Actors -> Seq(Msg)] /\ FarewellInv'
    BY <1>0, <1>5, Zenon DEF UserMessageFails, worldVars, registryVars, spawnVars, TypeOK,
       FarewellInv
  <2>2. TypeOK'
    BY <1>0, <1>5, <2>1, Zenon DEF UserMessageFails, Ready, Fail, Become, Goto, worldVars,
       registryVars, spawnVars, TypeOK, Pcs, Handling, AfterPostStop, States
  <2>3. OwnStep(a)
    BY <1>0, <1>5, Zenon DEF OwnStep, UserMessageFails, Ready, Fail, Become, Goto, worldVars,
       registryVars, spawnVars, TypeOK
  <2>4. ActorInv(a)'
    BY <1>0, <1>5, ZenonT(60) DEF ActorInv, UserMessageFails, Ready, Fail, Become, Goto,
       worldVars,
       registryVars, spawnVars, TypeOK, Pcs, Handling, AfterPostStop, States
  <2>5. QED BY <2>1, <2>2, <2>3, <2>4, OwnStepInv, Zenon
<1>6. CASE SuperviseFails(a)
  <2>1. inbox' \in [Actors -> Seq(Msg)] /\ FarewellInv'
    BY <1>0, <1>6, TakeFarewell, Zenon DEF SuperviseFails, Take, worldVars, registryVars,
       spawnVars
  <2>2. TypeOK'
    BY <1>0, <1>6, <2>1, ZenonT(60) DEF SuperviseFails, Take, Ready, Ignored, Fail, Become,
       Goto,
       worldVars, registryVars, spawnVars, TypeOK, Pcs, Handling, AfterPostStop, States
  <2>3. OwnStep(a)
    BY <1>0, <1>6, Zenon DEF OwnStep, SuperviseFails, Take, Ready, Ignored, Fail, Become, Goto,
       worldVars, registryVars, spawnVars, TypeOK
  <2>4. ActorInv(a)'
    BY <1>0, <1>6 DEF ActorInv, SuperviseFails, Take, Ready, Ignored, Fail, Become, Goto,
       worldVars, registryVars, spawnVars, TypeOK, Pcs, Handling, AfterPostStop, States
  <2>5. QED BY <2>1, <2>2, <2>3, <2>4, OwnStepInv, Zenon
<1>7. QED BY <1>1, <1>2, <1>3, <1>4, <1>5, <1>6, Zenon

\* A stop and a restart, until the children are gone.
LEMMA StoppingInv ==
    ASSUME IInv, NEW a \in Actors,
           HandleStop(a) \/ StopsItself(a) \/ HandleRestart(a) \/ StopChildren(a) \/ ChildrenTold(a)
              \/ Check(a) \/ CompleteRestart(a)
    PROVE  IInv'
<1>0. TypeOK /\ FarewellInv /\ ActorInv(a)
  BY Zenon DEF IInv
<1>1. CASE HandleStop(a)
  <2>1. inbox' \in [Actors -> Seq(Msg)] /\ FarewellInv'
    BY <1>0, <1>1, TakeFarewell, Zenon DEF HandleStop, Take, worldVars, registryVars, spawnVars
  <2>2. TypeOK'
    BY <1>0, <1>1, <2>1, ZenonT(60) DEF HandleStop, Take, Ready, Ignored, BeginStop, Become,
       Goto,
       worldVars, registryVars, spawnVars, TypeOK, Pcs, Handling, AfterPostStop, States
  <2>3. OwnStep(a)
    BY <1>0, <1>1, Zenon DEF OwnStep, HandleStop, Take, Ready, Ignored, BeginStop, Become,
       Goto,
       worldVars, registryVars, spawnVars, TypeOK
  <2>4. ActorInv(a)'
    BY <1>0, <1>1 DEF ActorInv, HandleStop, Take, Ready, Ignored, BeginStop, Become, Goto,
       worldVars, registryVars, spawnVars, TypeOK, Pcs, Handling, AfterPostStop, States
  <2>5. QED BY <2>1, <2>2, <2>3, <2>4, OwnStepInv, Zenon
<1>2. CASE StopsItself(a)
  <2>1. inbox' \in [Actors -> Seq(Msg)] /\ FarewellInv'
    BY <1>0, <1>2, Zenon DEF StopsItself, worldVars, registryVars, spawnVars, TypeOK,
       FarewellInv
  <2>2. TypeOK'
    BY <1>0, <1>2, <2>1, Zenon DEF StopsItself, Ready, BeginStop, Become, Goto, worldVars,
       registryVars, spawnVars, TypeOK, Pcs, Handling, AfterPostStop, States
  <2>3. OwnStep(a)
    BY <1>0, <1>2, Zenon DEF OwnStep, StopsItself, Ready, BeginStop, Become, Goto, worldVars,
       registryVars, spawnVars, TypeOK
  <2>4. ActorInv(a)'
    BY <1>0, <1>2, Zenon DEF ActorInv, StopsItself, Ready, BeginStop, Become, Goto, worldVars,
       registryVars, spawnVars, TypeOK, Pcs, Handling, AfterPostStop, States
  <2>5. QED BY <2>1, <2>2, <2>3, <2>4, OwnStepInv, Zenon
<1>3. CASE HandleRestart(a)
  <2>1. inbox' \in [Actors -> Seq(Msg)] /\ FarewellInv'
    BY <1>0, <1>3, TakeFarewell, Zenon DEF HandleRestart, Take, worldVars, registryVars,
       spawnVars
  <2>2. TypeOK'
    BY <1>0, <1>3, <2>1, Zenon DEF HandleRestart, Take, Ready, Ignored, Become, Goto,
       worldVars,
       registryVars, spawnVars, TypeOK, Pcs, Handling, AfterPostStop, States
  <2>3. OwnStep(a)
    BY <1>0, <1>3, Zenon DEF OwnStep, HandleRestart, Take, Ready, Ignored, Become, Goto,
       worldVars,
       registryVars, spawnVars, TypeOK
  <2>4. ActorInv(a)'
    BY <1>0, <1>3, Zenon DEF ActorInv, HandleRestart, Take, Ready, Ignored, Become, Goto,
       worldVars, registryVars, spawnVars, TypeOK, Pcs, Handling, AfterPostStop, States
  <2>5. QED BY <2>1, <2>2, <2>3, <2>4, OwnStepInv, Zenon
<1>4. CASE StopChildren(a)
  <2>1. inbox' \in [Actors -> Seq(Msg)] /\ FarewellInv'
    BY <1>0, <1>4, Zenon DEF StopChildren, worldVars, registryVars, spawnVars, TypeOK,
       FarewellInv
  <2>2. TypeOK'
    BY <1>0, <1>4, <2>1, Zenon DEF StopChildren, Snapshot, Goto, actorVars, worldVars,
       registryVars, spawnVars, TypeOK, Pcs, Handling, AfterPostStop, States
  <2>3. OwnStep(a)
    BY <1>0, <1>4, Zenon DEF OwnStep, StopChildren, Snapshot, Goto, actorVars, worldVars,
       registryVars, spawnVars, TypeOK
  <2>4. ActorInv(a)'
    BY <1>0, <1>4, Zenon DEF ActorInv, StopChildren, Snapshot, Goto, actorVars, worldVars,
       registryVars, spawnVars, TypeOK, Pcs, Handling, AfterPostStop, States
  <2>5. QED BY <2>1, <2>2, <2>3, <2>4, OwnStepInv, Zenon
<1>5. CASE ChildrenTold(a)
  <2>1. inbox' \in [Actors -> Seq(Msg)] /\ FarewellInv'
    BY <1>0, <1>5, Zenon DEF ChildrenTold, worldVars, registryVars, spawnVars, TypeOK,
       FarewellInv
  <2>2. TypeOK'
    BY <1>0, <1>5, <2>1, Zenon DEF ChildrenTold, Goto, actorVars, worldVars, registryVars,
       spawnVars, TypeOK, Pcs, Handling, AfterPostStop, States
  <2>3. OwnStep(a)
    BY <1>0, <1>5, Zenon DEF OwnStep, ChildrenTold, Goto, actorVars, worldVars, registryVars,
       spawnVars, TypeOK
  <2>4. ActorInv(a)'
    BY <1>0, <1>5, Zenon DEF ActorInv, ChildrenTold, Goto, actorVars, worldVars, registryVars,
       spawnVars, TypeOK, Pcs, Handling, AfterPostStop, States
  <2>5. QED BY <2>1, <2>2, <2>3, <2>4, OwnStepInv, Zenon
<1>6. CASE Check(a)
  <2>1. inbox' \in [Actors -> Seq(Msg)] /\ FarewellInv'
    BY <1>0, <1>6, Zenon DEF Check, worldVars, registryVars, spawnVars, TypeOK, FarewellInv
  <2>2. TypeOK'
    BY <1>0, <1>6, <2>1, Zenon DEF Check, AllGone, Goto, actorVars, worldVars, registryVars,
       spawnVars, TypeOK, Pcs, Handling, AfterPostStop, States
  <2>3. OwnStep(a)
    BY <1>0, <1>6, Zenon DEF OwnStep, Check, AllGone, Goto, actorVars, worldVars, registryVars,
       spawnVars, TypeOK
  <2>4. ActorInv(a)'
    BY <1>0, <1>6, Zenon DEF ActorInv, Check, AllGone, Goto, actorVars, worldVars,
       registryVars,
       spawnVars, TypeOK, Pcs, Handling, AfterPostStop, States
  <2>5. QED BY <2>1, <2>2, <2>3, <2>4, OwnStepInv, Zenon
<1>7. CASE CompleteRestart(a)
  <2>1. inbox' \in [Actors -> Seq(Msg)] /\ FarewellInv'
    BY <1>0, <1>7, Zenon DEF CompleteRestart, worldVars, registryVars, spawnVars, TypeOK,
       FarewellInv
  <2>2. TypeOK'
    BY <1>0, <1>7, <2>1, Zenon DEF CompleteRestart, Become, Goto, worldVars, registryVars,
       spawnVars, TypeOK, Pcs, Handling, AfterPostStop, States
  <2>3. OwnStep(a)
    BY <1>0, <1>7, Zenon DEF OwnStep, CompleteRestart, Become, Goto, worldVars, registryVars,
       spawnVars, TypeOK
  <2>4. ActorInv(a)'
    BY <1>0, <1>7, Zenon DEF ActorInv, CompleteRestart, Become, Goto, worldVars, registryVars,
       spawnVars, TypeOK, Pcs, Handling, AfterPostStop, States
  <2>5. QED BY <2>1, <2>2, <2>3, <2>4, OwnStepInv, Zenon
<1>8. QED BY <1>1, <1>2, <1>3, <1>4, <1>5, <1>6, <1>7, Zenon

\* The steps of _complete_stop that touch only the actor.
LEMMA CompletionInv ==
    ASSUME IInv, NEW a \in Actors,
           CompleteStop(a) \/ Unregister(a) \/ Stopped(a)
    PROVE  IInv'
<1>0. TypeOK /\ FarewellInv /\ ActorInv(a)
  BY Zenon DEF IInv
<1>1. CASE CompleteStop(a)
  <2>1. inbox' \in [Actors -> Seq(Msg)] /\ FarewellInv'
    BY <1>0, <1>1, Zenon DEF CompleteStop, worldVars, registryVars, spawnVars, TypeOK,
       FarewellInv
  <2>2. TypeOK'
    BY <1>0, <1>1, <2>1, Zenon DEF CompleteStop, Become, Goto, worldVars, registryVars,
       spawnVars,
       TypeOK, Pcs, Handling, AfterPostStop, States
  <2>3. OwnStep(a)
    BY <1>0, <1>1, Zenon DEF OwnStep, CompleteStop, Become, Goto, worldVars, registryVars,
       spawnVars, TypeOK
  <2>4. ActorInv(a)'
    BY <1>0, <1>1, Zenon DEF ActorInv, CompleteStop, Become, Goto, worldVars, registryVars,
       spawnVars, TypeOK, Pcs, Handling, AfterPostStop, States
  <2>5. QED BY <2>1, <2>2, <2>3, <2>4, OwnStepInv, Zenon
<1>2. CASE Unregister(a)
  <2>1. inbox' \in [Actors -> Seq(Msg)] /\ FarewellInv'
    BY <1>0, <1>2, Zenon DEF Unregister, worldVars, registryVars, spawnVars, TypeOK,
       FarewellInv
  <2>2. TypeOK'
    BY <1>0, <1>2, <2>1, Zenon DEF Unregister, Goto, actorVars, worldVars, registryVars,
       spawnVars,
       TypeOK, Pcs, Handling, AfterPostStop, States
  <2>3. OwnStep(a)
    BY <1>0, <1>2, Zenon DEF OwnStep, Unregister, Goto, actorVars, worldVars, registryVars,
       spawnVars, TypeOK
  <2>4. ActorInv(a)'
    BY <1>0, <1>2, Zenon DEF ActorInv, Unregister, Goto, actorVars, worldVars, registryVars,
       spawnVars, TypeOK, Pcs, Handling, AfterPostStop, States
  <2>5. QED BY <2>1, <2>2, <2>3, <2>4, OwnStepInv, Zenon
<1>3. CASE Stopped(a)
  <2>1. inbox' \in [Actors -> Seq(Msg)] /\ FarewellInv'
    BY <1>0, <1>3, Zenon DEF Stopped, worldVars, registryVars, spawnVars, TypeOK, FarewellInv
  <2>2. TypeOK'
    BY <1>0, <1>3, <2>1, Zenon DEF Stopped, Goto, worldVars, registryVars, spawnVars,
       TypeOK, Pcs,
       Handling, AfterPostStop, States
  <2>3. OwnStep(a)
    BY <1>0, <1>3, Zenon DEF OwnStep, Stopped, Goto, worldVars, registryVars, spawnVars, TypeOK
  <2>4. ActorInv(a)'
    BY <1>0, <1>3, Zenon DEF ActorInv, Stopped, Goto, worldVars, registryVars, spawnVars,
       TypeOK,
       Pcs, Handling, AfterPostStop, States
  <2>5. QED BY <2>1, <2>2, <2>3, <2>4, OwnStepInv, Zenon
<1>4. QED BY <1>1, <1>2, <1>3, Zenon


\* The steps that send: to itself, to the parent, to a child.
LEMMA SendingInv ==
    ASSUME IInv, NEW a \in Actors,
           Report(a) \/ StopChild(a) \/ RestartFails(a) \/ Notify(a)
    PROVE  IInv'
<1>0. TypeOK /\ FarewellInv /\ ActorInv(a) /\ (a # Root => Parent[a] \in Actors)
  BY ActorTreeAssumption, Zenon DEF IInv
<1>1. CASE Report(a)
  <2>1. inbox' \in [Actors -> Seq(Msg)] /\ FarewellInv'
    <3>1. UNCHANGED postStops
      BY <1>1, Zenon DEF Report, worldVars
    <3>2. CASE a = Root
      <4>1. inbox' = Send(a, "Stop", a)
        BY <1>1, <3>2, Zenon DEF Report
      <4>2. QED BY <1>0, <3>1, <4>1, SendFarewell, Zenon
    <3>3. CASE a # Root
      <4>1. inbox' = Send(Parent[a], "Failed", a)
        BY <1>1, <3>3, Zenon DEF Report
      <4>2. QED BY <1>0, <3>1, <3>3, <4>1, SendFarewell, Zenon
    <3>4. QED BY <3>2, <3>3, Zenon
  <2>2. TypeOK'
    BY <1>0, <1>1, <2>1, Zenon DEF Report, Goto, actorVars, worldVars, registryVars, spawnVars,
          TypeOK, Pcs, Handling, AfterPostStop
  <2>3. OwnStep(a)
    BY <1>0, <1>1, Zenon DEF OwnStep, Report, Goto, actorVars, worldVars, registryVars,
       spawnVars,
       TypeOK
  <2>4. ActorInv(a)'
    BY <1>0, <1>1, Zenon DEF ActorInv, Report, Goto, actorVars, worldVars, registryVars,
       spawnVars,
          TypeOK, Pcs, Handling, AfterPostStop
  <2>5. QED BY <2>1, <2>2, <2>3, <2>4, OwnStepInv, Zenon
<1>2. CASE StopChild(a)
  <2>0. PICK c \in Actors : inbox' = Send(c, "Stop", c) /\ told' = [told EXCEPT ![a] = @ \ {c}]
    BY <1>0, <1>2, Zenon DEF StopChild, TypeOK
  <2>1. inbox' \in [Actors -> Seq(Msg)] /\ FarewellInv'
    <3>1. UNCHANGED postStops
      BY <1>2, Zenon DEF StopChild, worldVars
    <3>2. QED BY <1>0, <2>0, <3>1, SendFarewell, Zenon
  <2>2. TypeOK'
    BY <1>0, <1>2, <2>0, <2>1, Zenon DEF StopChild, actorVars, worldVars, registryVars,
       spawnVars,
       TypeOK
  <2>3. OwnStep(a)
    BY <1>0, <1>2, Zenon DEF OwnStep, StopChild, actorVars, worldVars, registryVars,
       spawnVars, TypeOK
  <2>4. ActorInv(a)'
    BY <1>0, <1>2, Zenon DEF ActorInv, StopChild, actorVars, worldVars, registryVars, spawnVars
  <2>5. QED BY <2>1, <2>2, <2>3, <2>4, OwnStepInv, Zenon
<1>3. CASE RestartFails(a)
  <2>1. inbox' \in [Actors -> Seq(Msg)] /\ FarewellInv'
    <3>1. inbox' = Send(a, "Stop", a) /\ UNCHANGED postStops
      BY <1>3, Zenon DEF RestartFails, worldVars
    <3>2. QED BY <1>0, <3>1, SendFarewell, Zenon
  <2>2. TypeOK'
    BY <1>0, <1>3, <2>1, Zenon DEF RestartFails, Become, Goto, worldVars, registryVars,
       spawnVars,
          TypeOK, Pcs, Handling, AfterPostStop, States
  <2>3. OwnStep(a)
    BY <1>0, <1>3, Zenon DEF OwnStep, RestartFails, Become, Goto, worldVars, registryVars,
       spawnVars, TypeOK
  <2>4. ActorInv(a)'
    BY <1>0, <1>3, Zenon DEF ActorInv, RestartFails, Become, Goto, worldVars, registryVars,
       spawnVars,
          TypeOK, Pcs, Handling, AfterPostStop, States
  <2>5. QED BY <2>1, <2>2, <2>3, <2>4, OwnStepInv, Zenon
<1>4. CASE Notify(a)
  <2>0. a # Root /\ Parent[a] \in Actors /\ postStops[a] = 1
    BY <1>0, <1>4, Zenon DEF ActorInv, Notify, AfterPostStop
  <2>1. inbox' \in [Actors -> Seq(Msg)] /\ FarewellInv'
    <3>1. inbox' = Send(Parent[a], "Terminated", a) /\ UNCHANGED postStops
      BY <1>4, Zenon DEF Notify, Farewell, worldVars
    <3>2. QED BY <1>0, <2>0, <3>1, SendFarewell, Zenon
  <2>2. TypeOK'
    BY <1>0, <1>4, <2>1, Zenon DEF Notify, Goto, actorVars, worldVars, registryVars, spawnVars,
          TypeOK, Pcs, Handling, AfterPostStop
  <2>3. OwnStep(a)
    BY <1>0, <1>4, Zenon DEF OwnStep, Notify, Goto, actorVars, worldVars, registryVars,
       spawnVars,
       TypeOK
  <2>4. ActorInv(a)'
    BY <1>0, <1>4, Zenon DEF ActorInv, Notify, Goto, actorVars, worldVars, registryVars,
       spawnVars,
          TypeOK, Pcs, Handling, AfterPostStop
  <2>5. QED BY <2>1, <2>2, <2>3, <2>4, OwnStepInv, Zenon
<1>5. QED BY <1>1, <1>2, <1>3, <1>4, Zenon

\* A parent that supervises answers the child, or passes the failure on.
LEMMA HandleFailedInv ==
    ASSUME IInv, NEW a \in Actors, HandleFailed(a)
    PROVE  IInv'
<1>0. TypeOK /\ FarewellInv /\ ActorInv(a)
  BY Zenon DEF IInv
<1>1. inbox[a] \in Seq(Msg) /\ inbox[a] # <<>> /\ inbox \in [Actors -> Seq(Msg)]
  BY <1>0, Zenon DEF HandleFailed, TypeOK
<1>2. Tail(inbox[a]) \in Seq(Msg) /\ Head(inbox[a]) \in Msg
  BY <1>1
<1>3. PICK child \in Actors : child = Head(inbox[a]).of
  BY <1>2, Zenon DEF Msg
<1>4. PICK to \in Actors, kind \in {"PreStart", "Stop", "Restart", "Terminated", "Failed"} :
         kind # "Terminated" /\ inbox' = [Send(to, kind, child) EXCEPT ![a] = Tail(inbox[a])]
  <2>1. PICK directive \in Directives(a) :
           LET order == Directed(a, child, directive)
           IN  inbox' = [Send(order[1], order[2], child) EXCEPT ![a] = Tail(inbox[a])]
    BY <1>3, Zenon DEF HandleFailed
  <2>2. CASE directive = "RESTART"
    BY <2>1, <2>2, Zenon DEF Directed
  <2>3. CASE directive = "STOP"
    BY <2>1, <2>3, Zenon DEF Directed
  <2>4. CASE directive = "ESCALATE"
    <3>1. Parent[a] \in Actors
      BY <2>4, ActorTreeAssumption, Zenon DEF Directives
    <3>2. QED BY <2>1, <2>4, <3>1, Zenon DEF Directed
  <2>5. QED BY <2>1, <2>2, <2>3, <2>4, Zenon DEF Directives
<1>5. PICK sent : sent = Send(to, kind, child)
  BY Zenon
<1>6. /\ sent \in [Actors -> Seq(Msg)]
      /\ \A b \in Actors : \A i \in DOMAIN sent[b] :
            \/ i \in DOMAIN inbox[b] /\ sent[b][i] = inbox[b][i]
            \/ sent[b][i] = Message(kind, child)
  <2>1. Added(sent, Message(kind, child))
    BY <1>0, <1>5, SendIs, Zenon
  <2>2. QED BY <2>1, Zenon DEF Added
<1>7. inbox' = [sent EXCEPT ![a] = Tail(inbox[a])] /\ UNCHANGED postStops
  BY <1>4, <1>5, Zenon DEF HandleFailed, worldVars
<1>8. inbox' \in [Actors -> Seq(Msg)]
  BY <1>2, <1>6, <1>7, Zenon
<1>9. FarewellInv'
  <2>1. ASSUME NEW b \in Actors, NEW i \in DOMAIN inbox'[b], inbox'[b][i].kind = "Terminated"
        PROVE  postStops'[inbox'[b][i].of] = 1
    <3>1. CASE b = a
      <4>1. inbox'[b] = Tail(inbox[a])
        BY <1>6, <1>7, <3>1, Zenon
      <4>2. i \in DOMAIN Tail(inbox[a])
        BY <4>1, Zenon
      <4>3. i + 1 \in DOMAIN inbox[a] /\ Tail(inbox[a])[i] = inbox[a][i + 1]
        BY <1>1, <4>2
      <4>4. QED BY <1>0, <1>7, <2>1, <4>1, <4>3, ZenonT(60) DEF FarewellInv
    <3>2. CASE b # a
      <4>1. inbox'[b] = sent[b]
        BY <1>6, <1>7, <3>2, Zenon
      <4>2. CASE sent[b][i] = Message(kind, child)
        <5>1. kind # "Terminated"
          BY <1>4, Zenon
        <5>2. inbox'[b][i].kind = kind
          BY <4>1, <4>2 DEF Message
        <5>3. QED BY <2>1, <5>1, <5>2, Zenon
      <4>3. CASE i \in DOMAIN inbox[b] /\ sent[b][i] = inbox[b][i]
        BY <1>0, <1>7, <2>1, <4>1, <4>3, ZenonT(60) DEF FarewellInv
      <4>4. QED BY <1>6, <4>1, <4>2, <4>3, Zenon
    <3>3. QED BY <3>1, <3>2, Zenon
  <2>2. QED BY <2>1, Zenon DEF FarewellInv
<1>10. TypeOK'
  BY <1>0, <1>8, Zenon DEF HandleFailed, actorVars, handlerVars, worldVars, registryVars,
     spawnVars, TypeOK
<1>11. OwnStep(a)
  BY <1>0, Zenon DEF OwnStep, HandleFailed, Ready, actorVars, handlerVars, worldVars,
     registryVars,
     spawnVars
<1>12. ActorInv(a)'
  BY <1>0, Zenon DEF ActorInv, HandleFailed, actorVars, handlerVars, worldVars, registryVars,
     spawnVars
<1>13. QED BY <1>9, <1>10, <1>11, <1>12, OwnStepInv, Zenon

\* A child goes out of _children: by its own hand, or when its parent hears of
\* the termination; and what happens between.
LEMMA LeavingInv ==
    ASSUME IInv, NEW a \in Actors,
           HandleTerminated(a) \/ PostStop(a) \/ Leave(a) \/ Close(a)
    PROVE  IInv'
<1>0. TypeOK /\ FarewellInv /\ ActorInv(a) /\ (a # Root => Parent[a] \in Actors)
  BY ActorTreeAssumption, Zenon DEF IInv
<1>1. CASE HandleTerminated(a)
  <2>0. PICK m \in Msg : m = Head(inbox[a]) /\ (m.kind = "Terminated" => postStops[m.of] = 1)
    BY <1>0, <1>1, TakeFarewell, Zenon DEF HandleTerminated, Take, worldVars
  <2>1. inbox' \in [Actors -> Seq(Msg)] /\ FarewellInv'
    BY <1>0, <1>1, TakeFarewell, Zenon DEF HandleTerminated, Take, worldVars
  <2>2. children' = [children EXCEPT ![a] = @ \ {m.of}] /\ postStops[m.of] = 1
    BY <1>1, <2>0, Zenon DEF HandleTerminated, Take
  <2>3. TypeOK'
    BY <1>0, <1>1, <2>1, <2>2 DEF HandleTerminated, Take, Goto, worldVars, registryVars,
       spawnVars,
          TypeOK, Pcs, Handling, AfterPostStop
  <2>4. OwnStep(a)
    BY <1>0, <1>1, <2>2 DEF OwnStep, HandleTerminated, Take, Ready, Goto, worldVars,
       registryVars,
          spawnVars, TypeOK
  <2>5. ActorInv(a)'
    BY <1>0, <1>1, <2>2, Zenon DEF ActorInv, HandleTerminated, Take, Ready, Ignored, Goto,
       worldVars,
          registryVars, spawnVars, TypeOK, Pcs, Handling, AfterPostStop
  <2>6. QED BY <2>1, <2>3, <2>4, <2>5, OwnStepInv, Zenon
<1>2. CASE PostStop(a)
  <2>1. postStops[a] = 0 /\ postStops' = [postStops EXCEPT ![a] = 1]
    BY <1>0, <1>2 DEF PostStop, ActorInv, TypeOK
  <2>2. FarewellInv'
    <3>1. \A b \in Actors : postStops[b] = 1 => postStops'[b] = 1
      BY <1>0, <2>1, Zenon DEF TypeOK
    <3>2. \A b \in Actors : \A i \in DOMAIN inbox[b] : inbox[b][i].of \in Actors
      <4>1. \A b \in Actors : inbox[b] \in Seq(Msg)
        BY <1>0, ZenonT(60) DEF TypeOK
      <4>2. \A b \in Actors : \A i \in DOMAIN inbox[b] : inbox[b][i] \in Msg
        BY <4>1
      <4>3. \A m \in Msg : m.of \in Actors
        BY Zenon DEF Msg
      <4>4. QED BY <4>2, <4>3, Zenon
    <3>3. UNCHANGED inbox
      BY <1>2, Zenon DEF PostStop
    <3>4. QED BY <1>0, <3>1, <3>2, <3>3, Zenon DEF FarewellInv
  <2>3. TypeOK'
    BY <1>0, <1>2, <2>1, Zenon DEF PostStop, Goto, actorVars, registryVars, spawnVars,
          TypeOK, Pcs, Handling, AfterPostStop
  <2>4. OwnStep(a)
    BY <1>0, <1>2, <2>1, Zenon DEF OwnStep, PostStop, Goto, actorVars, registryVars,
       spawnVars, TypeOK
  <2>5. ActorInv(a)'
    BY <1>0, <1>2, <2>1, Zenon DEF ActorInv, PostStop, Goto, actorVars, registryVars,
       spawnVars,
          TypeOK, Pcs, Handling, AfterPostStop
  <2>6. QED BY <2>2, <2>3, <2>4, <2>5, OwnStepInv, Zenon
<1>3. CASE Leave(a)
  <2>0. postStops[a] = 1
    BY <1>0, <1>3, Zenon DEF Leave, ActorInv, AfterPostStop
  <2>1. \A b \in Actors :
           children'[b] \subseteq children[b] /\ children[b] \ children'[b] \subseteq {a}
    BY <1>0, <1>3, Zenon DEF Leave, TypeOK
  <2>2. FarewellInv'
    BY <1>0, <1>3, Zenon DEF Leave, worldVars, FarewellInv
  <2>3. TypeOK'
    <3>1. children' \in [Actors -> SUBSET Actors]
      BY <1>0, <1>3, Zenon DEF Leave, TypeOK
    <3>2. QED BY <1>0, <1>3, <3>1, Zenon DEF Leave, Goto, worldVars, registryVars, spawnVars,
                TypeOK, Pcs, Handling, AfterPostStop
  <2>4. OwnStep(a)
    BY <1>0, <1>3, <2>0, <2>1, Zenon DEF OwnStep, Leave, Goto, worldVars, registryVars,
       spawnVars,
       TypeOK
  <2>5. ActorInv(a)'
    BY <1>0, <1>3, <2>0, <2>1, ZenonT(60) DEF ActorInv, Leave, Goto, worldVars,
       registryVars, spawnVars,
          TypeOK, Pcs, Handling, AfterPostStop
  <2>6. QED BY <2>2, <2>3, <2>4, <2>5, OwnStepInv, Zenon
<1>4. CASE Close(a)
  <2>1. inbox' \in [Actors -> Seq(Msg)] /\ FarewellInv'
    BY <1>0, <1>4, ClearFarewell, Zenon DEF Close, worldVars
  <2>2. TypeOK'
    BY <1>0, <1>4, <2>1, Zenon DEF Close, Goto, actorVars, worldVars, registryVars, spawnVars,
          TypeOK, Pcs, Handling, AfterPostStop
  <2>3. OwnStep(a)
    BY <1>0, <1>4, Zenon DEF OwnStep, Close, Goto, actorVars, worldVars, registryVars,
       spawnVars,
       TypeOK
  <2>4. ActorInv(a)'
    BY <1>0, <1>4, Zenon DEF ActorInv, Close, Goto, actorVars, worldVars, registryVars,
       spawnVars,
          TypeOK, Pcs, Handling, AfterPostStop
  <2>5. QED BY <2>1, <2>2, <2>3, <2>4, OwnStepInv, Zenon
<1>5. QED BY <1>1, <1>2, <1>3, <1>4, Zenon


-----------------------------------------------------------------------------
(* The thread that spawns.                                                 *)

\* What is known of the actor to be spawned and of its parent.
LEMMA SpawnedActor ==
    ASSUME IInv, NEW a \in Actors, MaySpawn(a)
    PROVE  /\ a # Root /\ Parent[a] \in Actors /\ Parent[a] # a
           /\ state[a] = "NONE" /\ children[a] = {} /\ apc[a] = "idle" /\ cell[a] = "pending"
           /\ a \notin registered /\ state[Parent[a]] # "NONE"
<1>1. Parent[a] \in registered /\ state[a] = "NONE" /\ registered \subseteq Actors /\ ActorInv(a)
  BY Zenon DEF MaySpawn, IInv, TypeOK
<1>2. ActorInv(Parent[a]) /\ Parent[a] \in Actors
  BY <1>1, Zenon DEF IInv
<1>3. QED BY <1>1, <1>2, ActorTreeAssumption, Zenon DEF ActorInv

\* The attachment: the parent is not stopping, so that nothing it has decided is
\* undone by one more child.
LEMMA AttachInv ==
    ASSUME IInv, NEW a \in Actors, MaySpawn(a), AcceptsChildren(Parent[a]),
           Attach(a), Become(a, "NEW"),
           registered' \in {registered, registered \cup {a}},
           \/ spawning' = a /\ spc' = "start"
           \/ UNCHANGED <<spawning, spc>>,
           UNCHANGED <<restartPending, stopped, cell, inbox, apc, told, postStops>>
    PROVE  IInv'
<1>0. TypeOK /\ SpawnInv /\ AttachedInv /\ FarewellInv /\ \A b \in Actors : ActorInv(b)
  BY Zenon DEF IInv
<1>1. /\ a # Root /\ Parent[a] \in Actors /\ Parent[a] # a
      /\ state[a] = "NONE" /\ children[a] = {} /\ apc[a] = "idle" /\ cell[a] = "pending"
      /\ a \notin registered /\ state[Parent[a]] # "NONE"
  BY SpawnedActor, Zenon
<1>2. state[Parent[a]] \notin {"STOPPING", "STOPPED"} /\ spawning = NoActor
  BY Zenon DEF AcceptsChildren, MaySpawn
<1>3. TypeOK'
  BY <1>0, <1>1, ZenonT(60) DEF TypeOK, Attach, Become, States
<1>4. FarewellInv'
  BY <1>0, Zenon DEF FarewellInv
<1>5. SpawnInv'
  BY <1>0, <1>1, <1>2, ActorTreeAssumption DEF SpawnInv, TypeOK, Attach, Become
<1>6. AttachedInv'
  BY <1>0, <1>1, ActorTreeAssumption, Zenon DEF AttachedInv, TypeOK, Attach, Become
<1>7. ActorInv(a)'
  BY <1>0, <1>1, Zenon DEF ActorInv, TypeOK, Attach, Become, Handling, AfterPostStop
<1>8. ActorInv(Parent[a])'
  <2>1. ActorInv(Parent[a])
    BY <1>0, <1>1, Zenon
  <2>2. apc[Parent[a]] # "complete"
    BY <1>1, <1>2, <2>1, ActorTreeAssumption, Zenon DEF ActorInv
  <2>3. state'[Parent[a]] = state[Parent[a]]
    BY <1>0, <1>1, Zenon DEF TypeOK, Become
  <2>4. QED BY <1>1, <1>2, <2>1, <2>2, <2>3, Zenon DEF ActorInv
<1>9. ASSUME NEW b \in Actors, b # a, b # Parent[a]
      PROVE  ActorInv(b)'
  <2>1. ActorInv(b) /\ state'[b] = state[b] /\ children'[b] = children[b]
    BY <1>0, <1>9, Zenon DEF TypeOK, Attach, Become
  <2>2. apc[b] = "complete" => state[b] = "STOPPING"
    BY <1>2, <2>1, ActorTreeAssumption, Zenon DEF ActorInv
  <2>3. QED BY <1>9, <2>1, <2>2, Zenon DEF ActorInv
<1>10. QED BY <1>3, <1>4, <1>5, <1>6, <1>7, <1>8, <1>9, Zenon DEF IInv

\* Registration, with the path free or taken.
LEMMA SpawnPreserves ==
    ASSUME IInv, NEW a \in Actors, Spawn(a) \/ SpawnPathTaken(a)
    PROVE  IInv'
<1>1. CASE Spawn(a)
  BY <1>1, AttachInv, Zenon DEF Spawn, handlerVars
<1>2. CASE SpawnPathTaken(a)
  BY <1>2, AttachInv, Zenon DEF SpawnPathTaken, handlerVars, worldVars, registryVars, spawnVars
<1>3. QED BY <1>1, <1>2, ZenonT(60)

\* The start of the context, its mailbox or the failure to make one, and the end
\* of the spawn.
LEMMA SpawnStepInv ==
    ASSUME IInv, NEW a \in Actors, MailboxFails(a) \/ SpawnStep(a)
    PROVE  IInv'
<1>0. TypeOK /\ SpawnInv /\ AttachedInv /\ FarewellInv /\ \A b \in Actors : ActorInv(b)
  BY Zenon DEF IInv
<1>1. CASE StartContext(a)
  <2>1. TypeOK'
    BY <1>0, <1>1, Zenon DEF StartContext, Become, handlerVars, registryVars, TypeOK, States
  <2>2. SpawnInv'
    BY <1>0, <1>1, Zenon DEF StartContext, Become, handlerVars, SpawnInv, TypeOK
  <2>3. FarewellInv' /\ AttachedInv'
    BY <1>0, <1>1, Zenon DEF StartContext, Become, FarewellInv, AttachedInv, SpawnInv, TypeOK
  <2>4. \A b \in Actors : ActorInv(b)'
    BY <1>0, <1>1 DEF StartContext, Become, handlerVars, registryVars, SpawnInv, ActorInv,
       TypeOK,
          Handling, AfterPostStop
  <2>5. QED BY <2>1, <2>2, <2>3, <2>4, Zenon DEF IInv
<1>2. CASE CreateMailbox(a)
  <2>1. TypeOK'
    BY <1>0, <1>2, ZenonT(60) DEF CreateMailbox, actorVars, handlerVars, registryVars, TypeOK
  <2>2. SpawnInv' /\ FarewellInv' /\ AttachedInv'
    BY <1>0, <1>2, Zenon DEF CreateMailbox, actorVars, FarewellInv, AttachedInv, SpawnInv
  <2>3. \A b \in Actors : ActorInv(b)'
    BY <1>0, <1>2 DEF CreateMailbox, actorVars, handlerVars, registryVars, SpawnInv,
       ActorInv, TypeOK
  <2>4. QED BY <2>1, <2>2, <2>3, Zenon DEF IInv
<1>3. CASE MailboxFails(a)
  <2>1. TypeOK'
    BY <1>0, <1>3, Zenon DEF MailboxFails, Become, Goto, registryVars, TypeOK, States, Pcs
  <2>2. SpawnInv' /\ FarewellInv'
    BY <1>0, <1>3, Zenon DEF MailboxFails, FarewellInv, SpawnInv
  <2>3. AttachedInv'
    BY <1>0, <1>3, Zenon DEF MailboxFails, Become, AttachedInv, SpawnInv, TypeOK
  <2>4. ActorInv(a)'
    BY <1>0, <1>3, Zenon DEF MailboxFails, Become, Goto, registryVars, SpawnInv, ActorInv,
       TypeOK,
          Handling, AfterPostStop
  <2>5. \A b \in Actors : b # a => ActorInv(b)'
    BY <1>0, <1>3, ZenonT(60) DEF MailboxFails, Become, Goto, registryVars, ActorInv, TypeOK
  <2>6. QED BY <2>1, <2>2, <2>3, <2>4, <2>5, Zenon DEF IInv
<1>4. CASE SendPreStart(a)
  <2>1. inbox' \in [Actors -> Seq(Msg)] /\ FarewellInv'
    <3>1. inbox' = Send(a, "PreStart", a) /\ UNCHANGED postStops
      BY <1>4, Zenon DEF SendPreStart
    <3>2. QED BY <1>0, <3>1, SendFarewell, Zenon
  <2>2. TypeOK'
    BY <1>0, <1>4, <2>1, Zenon DEF SendPreStart, actorVars, handlerVars, registryVars, TypeOK
  <2>3. SpawnInv' /\ AttachedInv'
    BY <1>0, <1>4, Zenon DEF SendPreStart, actorVars, AttachedInv, SpawnInv
  <2>4. \A b \in Actors : ActorInv(b)'
    BY <1>0, <1>4, ZenonT(60) DEF SendPreStart, actorVars, handlerVars, registryVars, ActorInv
  <2>5. QED BY <2>1, <2>2, <2>3, <2>4, Zenon DEF IInv
<1>5. CASE Aborted(a)
  <2>1. TypeOK'
    BY <1>0, <1>5, Zenon DEF Aborted, actorVars, handlerVars, registryVars, TypeOK
  <2>2. SpawnInv' /\ FarewellInv' /\ AttachedInv'
    BY <1>0, <1>5, ZenonT(60) DEF Aborted, actorVars, FarewellInv, AttachedInv, SpawnInv
  <2>3. \A b \in Actors : ActorInv(b)'
    <3>1. state[a] = "STOPPED"
      BY <1>0, <1>5, Zenon DEF Aborted, ActorInv
    <3>2. QED BY <1>0, <1>5, <3>1, ZenonT(60) DEF Aborted, actorVars, handlerVars,
                 registryVars, ActorInv
  <2>4. QED BY <2>1, <2>2, <2>3, Zenon DEF IInv
<1>6. QED BY <1>1, <1>2, <1>3, <1>4, <1>5, Zenon DEF SpawnStep

-----------------------------------------------------------------------------
(* Termination from outside, and the shutdown.                             *)

\* What other threads do to the tree: a Stop from outside, and a call of stop.
LEMMA OutsideInv ==
    ASSUME IInv,
           (\E a \in Actors : Terminate(a)) \/ BeginShutdown \/ ShutdownStep
    PROVE  IInv'
<1>0. TypeOK /\ SpawnInv /\ AttachedInv /\ FarewellInv /\ \A b \in Actors : ActorInv(b)
  BY Zenon DEF IInv
<1>1. ASSUME NEW to \in Actors, inbox' = Send(to, "Stop", to),
             UNCHANGED <<registryVars, actorVars, cell, handlerVars, spawnVars, postStops>>
      PROVE  IInv'
  <2>1. inbox' \in [Actors -> Seq(Msg)] /\ FarewellInv'
    BY <1>0, <1>1, SendFarewell, Zenon
  <2>2. TypeOK'
    BY <1>0, <1>1, <2>1, Zenon DEF actorVars, handlerVars, registryVars, spawnVars, TypeOK
  <2>3. SpawnInv' /\ AttachedInv'
    BY <1>0, <1>1, Zenon DEF actorVars, handlerVars, spawnVars, AttachedInv, SpawnInv
  <2>4. \A b \in Actors : ActorInv(b)'
    BY <1>0, <1>1, ZenonT(60) DEF actorVars, handlerVars, registryVars, spawnVars, ActorInv
  <2>5. QED BY <2>1, <2>2, <2>3, <2>4, Zenon DEF IInv
<1>2. CASE \E a \in Actors : Terminate(a)
  BY <1>1, <1>2, Zenon DEF Terminate
<1>3. CASE StopGuardian
  BY <1>1, <1>3, ActorTreeAssumption, Zenon DEF StopGuardian
<1>4. ASSUME registered' \subseteq registered,
             UNCHANGED <<actorVars, cell, inbox, handlerVars, spawnVars, postStops>>
      PROVE  IInv'
  <2>1. TypeOK'
    BY <1>0, <1>4, Zenon DEF actorVars, handlerVars, spawnVars, TypeOK
  <2>2. SpawnInv' /\ FarewellInv' /\ AttachedInv'
    BY <1>0, <1>4, Zenon DEF actorVars, handlerVars, spawnVars, AttachedInv, SpawnInv,
       FarewellInv
  <2>3. \A b \in Actors : ActorInv(b)'
    BY <1>0, <1>4, Zenon DEF actorVars, handlerVars, spawnVars, ActorInv
  <2>4. QED BY <2>1, <2>2, <2>3, Zenon DEF IInv
<1>5. CASE BeginShutdown
  BY <1>4, <1>5, Zenon DEF BeginShutdown, registryVars
<1>6. CASE FinishShutdown
  BY <1>4, <1>6, Zenon DEF FinishShutdown
<1>7. QED BY <1>2, <1>3, <1>5, <1>6, Zenon DEF ShutdownStep


-----------------------------------------------------------------------------
(* The theorems.                                                           *)

\* The root alone, running.
LEMMA InitInv == Init => IInv
<1>1. SUFFICES ASSUME Init PROVE IInv
  BY Zenon
<1>2. TypeOK
  BY <1>1, ActorTreeAssumption DEF Init, Only, TypeOK, States, Pcs
<1>3. SpawnInv /\ FarewellInv
  BY <1>1 DEF Init, Only, SpawnInv, FarewellInv
<1>4. AttachedInv
  BY <1>1, Zenon DEF Init, AttachedInv
<1>5. \A a \in Actors : ActorInv(a)
  BY <1>1 DEF Init, Only, ActorInv, Handling, AfterPostStop
<1>6. QED BY <1>2, <1>3, <1>4, <1>5, Zenon DEF IInv

\* Every step preserves the invariant.
LEMMA NextInv == IInv /\ [Next]_vars => IInv'
<1>1. SUFFICES ASSUME IInv, [Next]_vars PROVE IInv'
  BY Zenon
<1>2. CASE UNCHANGED vars
  BY <1>1, <1>2 DEF vars, actorVars, handlerVars, registryVars, spawnVars, IInv, TypeOK,
        SpawnInv, AttachedInv, FarewellInv, ActorInv
<1>3. ASSUME NEW a \in Actors, Spawn(a) \/ SpawnPathTaken(a)
      PROVE  IInv'
  BY <1>1, <1>3, SpawnPreserves, Zenon
<1>4. ASSUME NEW a \in Actors, MailboxFails(a) \/ SpawnStep(a)
      PROVE  IInv'
  BY <1>1, <1>4, SpawnStepInv, Zenon
<1>5. ASSUME NEW a \in Actors, Handle(a)
      PROVE  IInv'
  BY <1>1, <1>5, StartingInv, StoppingInv, CompletionInv, SendingInv, HandleFailedInv,
        LeavingInv, Zenon DEF Handle
<1>6. ASSUME NEW a \in Actors,
             StartFails(a) \/ UserMessageFails(a) \/ SuperviseFails(a) \/ RestartFails(a)
                \/ StopsItself(a)
      PROVE  IInv'
  BY <1>1, <1>6, StartingInv, StoppingInv, SendingInv, Zenon
<1>7. CASE (\E a \in Actors : Terminate(a)) \/ BeginShutdown \/ ShutdownStep
  BY <1>1, <1>7, OutsideInv, Zenon
<1>8. QED BY <1>1, <1>2, <1>3, <1>4, <1>5, <1>6, <1>7, Zenon DEF Next

\* The inductive invariant holds in every behaviour.
THEOREM InductiveInvariant == Spec => []IInv
BY InitInv, NextInv, PTL DEF Spec

\* Every variable keeps its type; in particular no behavior receives PostStop
\* twice, whichever thread runs _complete_stop.
THEOREM ActorTreeTypeCorrect == Spec => []TypeOK
<1>1. IInv => TypeOK
  BY Zenon DEF IInv
<1>2. QED BY <1>1, InductiveInvariant, PTL

\* _complete_stop comes to the behavior's PostStop once, and after every child
\* that was ever spawned has had its own: for every tree, every number of
\* failures and terminations, and spawns by any thread.
THEOREM StopsBottomUp == Spec => []PostStopBottomUp
<1>1. IInv => PostStopBottomUp
  <2>1. SUFFICES ASSUME IInv, NEW a \in Actors
                 PROVE  /\ postStops[a] <= 1
                        /\ postStops[a] = 1 =>
                              \A c \in ChildrenOf(a) : state[c] = "NONE" \/ postStops[c] = 1
    BY Zenon DEF PostStopBottomUp
  <2>2. postStops[a] <= 1
    <3>1. postStops[a] \in {0, 1}
      BY <2>1, Zenon DEF IInv, TypeOK
    <3>2. QED BY <3>1
  <2>3. ASSUME postStops[a] = 1, NEW c \in ChildrenOf(a), state[c] # "NONE"
        PROVE  postStops[c] = 1
    <3>1. children[a] = {} /\ c \in Actors /\ Parent[c] = a /\ c # Root
      BY <2>1, <2>3, ActorTreeAssumption, ZenonT(60) DEF IInv, ActorInv, ChildrenOf
    <3>2. QED BY <2>1, <2>3, <3>1, Zenon DEF IInv, AttachedInv
  <2>4. QED BY <2>2, <2>3, Zenon
<1>2. QED BY <1>1, InductiveInvariant, PTL

\* The steps that write the state of an actor.
LEMMA StateSteps ==
    ASSUME IInv, Next
    PROVE  \/ UNCHANGED state
           \/ \E a \in Actors, s \in States :
                 /\ Become(a, s)
                 /\ state[a] = "STOPPING" => s = "STOPPED"
                 /\ state[a] # "STOPPED"
<1>0. TypeOK /\ SpawnInv /\ \A b \in Actors : ActorInv(b)
  BY Zenon DEF IInv
<1>1. ASSUME NEW a \in Actors, Spawn(a) \/ SpawnPathTaken(a)
      PROVE  Become(a, "NEW") /\ state[a] = "NONE"
  BY <1>1, Zenon DEF Spawn, SpawnPathTaken, MaySpawn
<1>2. ASSUME NEW a \in Actors, MailboxFails(a)
      PROVE  Become(a, "FAILED") /\ state[a] = "STARTING"
  BY <1>0, <1>2, Zenon DEF MailboxFails, SpawnInv
<1>3. ASSUME NEW a \in Actors, SpawnStep(a)
      PROVE  UNCHANGED state \/ (Become(a, "STARTING") /\ state[a] = "NEW")
  BY <1>0, <1>3, Zenon DEF SpawnStep, StartContext, CreateMailbox, SendPreStart, Aborted,
     actorVars, SpawnInv
<1>4. ASSUME NEW a \in Actors, Start(a) \/ CompleteRestart(a)
      PROVE  Become(a, "RUNNING") /\ state[a] \notin {"STOPPING", "STOPPED"}
  BY <1>0, <1>4, Zenon DEF Start, CompleteRestart, ActorInv, Handling
<1>5. ASSUME NEW a \in Actors, StartFails(a) \/ UserMessageFails(a) \/ SuperviseFails(a)
      PROVE  UNCHANGED state \/ (Become(a, "FAILED") /\ state[a] \notin {"STOPPING", "STOPPED"})
  BY <1>0, <1>5, Zenon DEF StartFails, UserMessageFails, SuperviseFails, Fail, Ignored,
     ActorInv,
     Handling
<1>6. ASSUME NEW a \in Actors, RestartFails(a)
      PROVE  Become(a, "FAILED") /\ state[a] \notin {"STOPPING", "STOPPED"}
  BY <1>0, <1>6, Zenon DEF RestartFails, ActorInv, Handling
<1>7. ASSUME NEW a \in Actors, HandleStop(a) \/ StopsItself(a)
      PROVE  UNCHANGED state \/ (Become(a, "STOPPING") /\ state[a] \notin {"STOPPING", "STOPPED"})
  BY <1>7, Zenon DEF HandleStop, StopsItself, BeginStop, Ignored
<1>8. ASSUME NEW a \in Actors, HandleRestart(a)
      PROVE  Become(a, "STARTING") /\ state[a] \notin {"STOPPING", "STOPPED"}
  BY <1>8, Zenon DEF HandleRestart, Ignored
<1>9. ASSUME NEW a \in Actors, CompleteStop(a)
      PROVE  Become(a, "STOPPED") /\ state[a] # "STOPPED"
  BY <1>0, <1>9, Zenon DEF CompleteStop, ActorInv
<1>10. ASSUME NEW a \in Actors,
              \/ Ignore(a) \/ HandlePreStart(a) \/ Report(a) \/ HandleFailed(a)
              \/ HandleTerminated(a) \/ StopChildren(a) \/ StopChild(a) \/ ChildrenTold(a)
              \/ Check(a) \/ PostStop(a) \/ Leave(a) \/ Notify(a) \/ Close(a)
              \/ Unregister(a) \/ Stopped(a) \/ Terminate(a)
       PROVE  UNCHANGED state
  BY <1>10, Zenon DEF Ignore, HandlePreStart, Report, HandleFailed, HandleTerminated,
     StopChildren,
        StopChild, ChildrenTold, Check, PostStop, Leave, Notify, Close, Unregister, Stopped,
        Terminate, actorVars
<1>11. BeginShutdown \/ ShutdownStep => UNCHANGED state
  BY Zenon DEF BeginShutdown, ShutdownStep, StopGuardian, FinishShutdown, actorVars
<1>12. {"NEW", "FAILED", "STARTING", "RUNNING", "STOPPING", "STOPPED"} \subseteq States
  BY Zenon DEF States
<1>13. ASSUME NEW a \in Actors, NEW s \in States, Become(a, s),
              state[a] = "STOPPING" => s = "STOPPED", state[a] # "STOPPED"
       PROVE  \E b \in Actors, t \in States :
                 /\ Become(b, t) /\ (state[b] = "STOPPING" => t = "STOPPED")
                 /\ state[b] # "STOPPED"
  BY <1>13, Zenon
<1>14. CASE \E a \in Actors : Spawn(a) \/ SpawnPathTaken(a) \/ MailboxFails(a) \/ SpawnStep(a)
  BY <1>1, <1>2, <1>3, <1>12, <1>13, <1>14, Zenon
<1>15. CASE \E a \in Actors : Handle(a)
  BY <1>4, <1>7, <1>8, <1>9, <1>10, <1>12, <1>13, <1>15, Zenon DEF Handle
<1>16. CASE \E a \in Actors : \/ StartFails(a) \/ UserMessageFails(a) \/ SuperviseFails(a)
                              \/ RestartFails(a) \/ StopsItself(a) \/ Terminate(a)
  BY <1>5, <1>6, <1>7, <1>10, <1>12, <1>13, <1>16, Zenon
<1>17. QED BY <1>11, <1>14, <1>15, <1>16, Zenon DEF Next

\* _invoke_system, _fail and _finish_start leave STOPPING only for STOPPED and
\* STOPPED for nothing: a restart, a start or a failure under way when the stop
\* arrives revives nobody.
THEOREM StopIsFinal == Spec => NoResurrection
<1>1. IInv /\ [Next]_vars =>
        [\A a \in Actors :
            /\ state[a] = "STOPPING" => state'[a] \in {"STOPPING", "STOPPED"}
            /\ state[a] = "STOPPED" => state'[a] = "STOPPED"]_vars
  <2>1. SUFFICES ASSUME IInv, Next, NEW a \in Actors
                 PROVE  /\ state[a] = "STOPPING" => state'[a] \in {"STOPPING", "STOPPED"}
                        /\ state[a] = "STOPPED" => state'[a] = "STOPPED"
    BY Zenon
  <2>2. CASE UNCHANGED state
    BY <2>2, Zenon
  <2>3. ASSUME NEW b \in Actors, NEW s \in States, Become(b, s),
               state[b] = "STOPPING" => s = "STOPPED", state[b] # "STOPPED"
        PROVE  /\ state[a] = "STOPPING" => state'[a] \in {"STOPPING", "STOPPED"}
               /\ state[a] = "STOPPED" => state'[a] = "STOPPED"
    BY <2>1, <2>3, Zenon DEF Become, IInv, TypeOK
  <2>4. QED BY <2>1, <2>2, <2>3, StateSteps, Zenon
<1>2. QED BY <1>1, InductiveInvariant, PTL DEF Spec, NoResurrection

\* _complete_restart runs only when every child of the failed behavior has
\* stopped, however late a spawn by another thread attached it.
THEOREM RestartIsAlone == Spec => RestartWaitsForChildren
<1>1. IInv /\ [Next]_vars =>
        [\A a \in Actors :
            apc[a] # "restart" /\ apc'[a] = "restart" =>
                \A c \in ChildrenOf(a) : state[c] \in {"NONE", "STOPPED"}]_vars
  <2>1. SUFFICES ASSUME IInv, Next, NEW a \in Actors, apc[a] # "restart", apc'[a] = "restart"
                 PROVE  \A c \in ChildrenOf(a) : state[c] \in {"NONE", "STOPPED"}
    BY Zenon
  <2>2. apc \in [Actors -> Pcs]
    BY <2>1, Zenon DEF IInv, TypeOK
  <2>3. Check(a)
    <3>1. ASSUME NEW b \in Actors, NEW pc, Goto(b, pc), pc # "restart"
          PROVE  FALSE
      BY <2>1, <2>2, <3>1, Zenon DEF Goto
    <3>2. ~UNCHANGED apc
      BY <2>1, Zenon
    <3>3. ASSUME NEW b \in Actors, Check(b)
          PROVE  b = a
      BY <2>1, <2>2, <3>3, Zenon DEF Check, Goto
    <3>4. ASSUME NEW b \in Actors,
                 Spawn(b) \/ SpawnPathTaken(b) \/ MailboxFails(b) \/ SpawnStep(b)
          PROVE  FALSE
      BY <3>1, <3>2, <3>4, Zenon DEF Spawn, SpawnPathTaken, MailboxFails, SpawnStep,
         StartContext,
            CreateMailbox, SendPreStart, Aborted, handlerVars
    <3>5. ASSUME NEW b \in Actors,
                 \/ StartFails(b) \/ UserMessageFails(b) \/ SuperviseFails(b)
                 \/ RestartFails(b) \/ StopsItself(b) \/ Terminate(b)
          PROVE  FALSE
      BY <3>1, <3>2, <3>5, Zenon DEF StartFails, UserMessageFails, SuperviseFails,
         RestartFails,
            StopsItself, Terminate, Fail, BeginStop, handlerVars
    <3>6. ASSUME NEW b \in Actors,
                 \/ Ignore(b) \/ HandlePreStart(b) \/ Start(b) \/ Report(b) \/ HandleFailed(b)
                 \/ HandleStop(b) \/ HandleRestart(b) \/ HandleTerminated(b) \/ StopChildren(b)
                 \/ StopChild(b) \/ ChildrenTold(b)
          PROVE  FALSE
      BY <3>1, <3>2, <3>6, Zenon DEF Ignore, HandlePreStart, Start, Report, HandleFailed,
         HandleStop,
            BeginStop, HandleRestart, HandleTerminated, StopChildren, StopChild, ChildrenTold,
            handlerVars
    <3>7. ASSUME NEW b \in Actors,
                 \/ CompleteRestart(b) \/ CompleteStop(b) \/ PostStop(b) \/ Leave(b)
                 \/ Notify(b) \/ Close(b) \/ Unregister(b) \/ Stopped(b)
          PROVE  FALSE
      BY <3>1, <3>2, <3>7, Zenon DEF CompleteRestart, CompleteStop, PostStop, Leave, Notify,
         Close,
            Unregister, Stopped
    <3>8. ~(BeginShutdown \/ ShutdownStep)
      BY <3>2, Zenon DEF BeginShutdown, ShutdownStep, StopGuardian, FinishShutdown, handlerVars
    <3>9. QED BY <2>1, <3>3, <3>4, <3>5, <3>6, <3>7, <3>8, Zenon DEF Next, Handle
  <2>4. children[a] = {}
    BY <2>1, <2>2, <2>3, Zenon DEF Check, Goto, AllGone
  <2>5. QED BY <2>1, <2>4, ActorTreeAssumption DEF IInv, AttachedInv, ActorInv, ChildrenOf
<1>2. QED BY <1>1, InductiveInvariant, PTL DEF Spec, RestartWaitsForChildren
=============================================================================
