-------------------------- MODULE WorkerPoolProofs --------------------------
(***************************************************************************)
(* WorkerPool.tla for every number of workers, mailboxes and places: no    *)
(* wake-up is lost, neither of the owner of a queue nor of a worker that   *)
(* goes to sleep while the pool is stopped, and an accepted activation is  *)
(* in one place.                                                           *)
(***************************************************************************)
EXTENDS WorkerPool, Integers, TLAPS

States == {"NEW", "STARTING", "RUNNING", "STOPPING", "STOPPED"}

WorkerPcs == {"off", "loop", "flag", "system", "count", "ordinary", "check", "markIdle",
              "wait", "taken", "run", "exited"}

MailboxPcs == {"quiet", "alternate", "tryIdle", "publish", "queued"}

StopperPcs == {"new", "starting", "started", "wake", "wakeAborted", "wakeStarted", "join",
               "joinStarted", "detach", "setStopped", "stopped"}

\* The types of the fields of the pool, of its workers and of its callers.
TypeOK ==
    /\ state \in States /\ abort \in BOOLEAN
    /\ tasks \in [Workers -> Seq(Mailboxes)]
    /\ systemTasks \in [Workers -> Seq(Mailboxes)]
    /\ ready \in [Workers -> BOOLEAN]
    /\ idle \subseteq Workers /\ systemCount \in Int
    /\ wpc \in [Workers -> WorkerPcs]
    /\ round \in [Workers -> {1, 2}] /\ scan \in [Workers -> Nat]
    /\ mpc \in [Mailboxes -> MailboxPcs]
    /\ lifecycle \in [Mailboxes -> BOOLEAN]
    /\ first \in [Mailboxes -> Workers] /\ offset \in [Mailboxes -> Nat]
    /\ spc \in StopperPcs /\ step \in 0..N

\* What the thread that starts and stops the pool has done so far: _state
\* follows it, no worker runs before it started, the threads it starts or
\* wakes are those of the pool, and it empties the queues when all have left.
StopperInv ==
    /\ state = CASE spc = "new" -> "NEW" [] spc = "starting" -> "STARTING"
                 [] spc = "started" -> "RUNNING" [] spc = "stopped" -> "STOPPED"
                 [] OTHER -> "STOPPING"
    /\ spc \in {"wake", "wakeAborted", "wakeStarted"} => step < N
    /\ spc = "new" => \A w \in Workers : wpc[w] = "off"
    /\ spc = "starting" => \A w \in Workers : w >= step => wpc[w] = "off"
    /\ spc \in {"detach", "setStopped"} => Alive = {}

-----------------------------------------------------------------------------
\* A shard is a queue of the pool.
LEMMA ShardType == ASSUME NEW w \in Workers, NEW k \in Nat PROVE Shard(w, k) \in Workers
BY WorkerPoolAssumption DEF Shard, Workers

\* The worker after one of the pool is one of the pool.
LEMMA AlternateType == ASSUME NEW w \in Workers PROVE Alternate(w) \in Workers
BY WorkerPoolAssumption DEF Alternate, Workers

\* What dispatch() leaves of its caller when it returns or raises.
LEMMA ReturnType ==
    ASSUME TypeOK, NEW m \in Mailboxes, NEW pc \in MailboxPcs, Return(m, pc)
    PROVE  /\ first' \in [Mailboxes -> Workers] /\ mpc' \in [Mailboxes -> MailboxPcs]
           /\ lifecycle' \in [Mailboxes -> BOOLEAN] /\ offset' \in [Mailboxes -> Nat]
<1>1. 0 \in Workers
  BY WorkerPoolAssumption DEF Workers
<1>2. QED BY <1>1, Zenon DEF TypeOK, Return

\* Every step of a publisher keeps the types.
LEMMA TypePublisher ==
    ASSUME TypeOK, NEW m \in Mailboxes, ChooseWorker(m) \/ PublisherStep(m)
    PROVE  TypeOK'
<1> USE DEF TypeOK
<1>2. CASE ChooseWorker(m)
  <2>1. /\ first' \in [Mailboxes -> Workers] /\ mpc' \in [Mailboxes -> MailboxPcs]
        /\ lifecycle' \in [Mailboxes -> BOOLEAN]
    BY <1>2 DEF ChooseWorker, StartAt, MailboxPcs
  <2>2. QED BY <1>2, <2>1, Zenon DEF ChooseWorker, poolVars, queueVars, workerVars, stopperVars
<1>3. CASE TryAlternate(m)
  <2>1. first[m] \in Workers /\ Alternate(first[m]) \in Workers
    BY AlternateType, Zenon
  <2>2. first' \in [Mailboxes -> Workers] /\ mpc' \in [Mailboxes -> MailboxPcs]
    BY <1>3, <2>1, ZenonT(60) DEF TryAlternate, StartAt, MailboxPcs
  <2>3. QED BY <1>3, <2>2, Zenon DEF TryAlternate, poolVars, queueVars, workerVars, stopperVars
<1>4. CASE TryIdle(m)
  <2>1. first' \in [Mailboxes -> Workers] /\ mpc' \in [Mailboxes -> MailboxPcs]
    BY <1>4, ZenonT(60) DEF TryIdle, StartAt, MailboxPcs
  <2>2. idle' \subseteq Workers
    BY <1>4, Zenon DEF TryIdle
  <2>3. QED BY <1>4, <2>1, <2>2, Zenon DEF TryIdle, queueVars, workerVars, stopperVars
<1>5. CASE Publish(m)
  <2>1. Shard(first[m], offset[m]) \in Workers
    BY ShardType, Zenon
  <2>2. /\ first' \in [Mailboxes -> Workers] /\ mpc' \in [Mailboxes -> MailboxPcs]
        /\ lifecycle' \in [Mailboxes -> BOOLEAN] /\ offset' \in [Mailboxes -> Nat]
    <3>1. "queued" \in MailboxPcs
      BY Zenon DEF MailboxPcs
    <3>2. Return(m, "queued")
      BY <1>5, Zenon DEF Publish
    <3>3. QED BY <3>1, <3>2, ReturnType, Zenon
  <2>3. /\ tasks' \in [Workers -> Seq(Mailboxes)] /\ systemTasks' \in [Workers -> Seq(Mailboxes)]
        /\ systemCount' \in Int
    <3>1. Append(tasks[Shard(first[m], offset[m])], m) \in Seq(Mailboxes)
      BY <2>1
    <3>2. Append(systemTasks[Shard(first[m], offset[m])], m) \in Seq(Mailboxes)
      BY <2>1
    <3>3. CASE lifecycle[m]
      <4>1. /\ systemTasks' = [systemTasks EXCEPT ![Shard(first[m], offset[m])] = Append(@, m)]
            /\ systemCount' = systemCount + 1 /\ tasks' = tasks
        BY <1>5, <3>3, Zenon DEF Publish
      <4>2. QED BY <2>1, <3>2, <4>1
    <3>4. CASE ~lifecycle[m]
      BY <1>5, <3>1, <3>4, Zenon DEF Publish
    <3>5. QED BY <3>3, <3>4, Zenon
  <2>4. ready' \in [Workers -> BOOLEAN]
    BY <1>5, <2>1, Zenon DEF Publish
  <2>5. QED BY <1>5, <2>2, <2>3, <2>4, Zenon DEF Publish, workerVars, stopperVars
<1>6. CASE TryNextShard(m)
  BY <1>6 DEF TryNextShard, poolVars, queueVars, workerVars, stopperVars
<1>7. CASE PublishRefused(m) \/ CapacityExceeded(m)
  <2>1. /\ first' \in [Mailboxes -> Workers] /\ mpc' \in [Mailboxes -> MailboxPcs]
        /\ lifecycle' \in [Mailboxes -> BOOLEAN] /\ offset' \in [Mailboxes -> Nat]
    <3>1. "quiet" \in MailboxPcs /\ Return(m, "quiet")
      BY <1>7, Zenon DEF PublishRefused, CapacityExceeded, MailboxPcs
    <3>2. QED BY <3>1, ReturnType, Zenon
  <2>2. UNCHANGED <<poolVars, workerVars, stopperVars>>
    BY <1>7, Zenon DEF PublishRefused, CapacityExceeded
  <2>3. QED BY <2>1, <2>2, Zenon DEF poolVars, queueVars, workerVars, stopperVars
<1>8. QED BY <1>2, <1>3, <1>4, <1>5, <1>6, <1>7, Zenon DEF PublisherStep

\* take_system and take_ordinary either take the head of a shard or find it
\* empty; the other class of the shard stays as it is.
LEMMA TakeSystemCases ==
    ASSUME NEW w \in Workers, TakeSystem(w)
    PROVE  LET q == Shard(w, scan[w])
           IN  /\ tasks' = tasks
               /\ ready' = ready \/ (/\ q = w /\ ready' = [ready EXCEPT ![w] = FALSE]
                                    /\ tasks'[w] = <<>> /\ systemTasks'[w] = <<>>)
               /\ \/ /\ systemTasks[q] # <<>>
                     /\ systemTasks' = [systemTasks EXCEPT ![q] = Tail(@)]
                     /\ mpc' = [mpc EXCEPT ![Head(systemTasks[q])] = "quiet"]
                     /\ wpc' = [wpc EXCEPT ![w] = "count"]
                     /\ scan' = [scan EXCEPT ![w] = 0]
                  \/ /\ systemTasks' = systemTasks /\ mpc' = mpc
                     /\ wpc' = wpc \/ wpc' = [wpc EXCEPT ![w] = "ordinary"]
                     /\ \E k \in {0, scan[w] + 1} : scan' = [scan EXCEPT ![w] = k]
<1> DEFINE q == Shard(w, scan[w])
<1>1. CASE systemTasks[q] # <<>>
  BY <1>1, Zenon DEF TakeSystem, AfterTake, LeftEmpty, PopShard, Took, Goto
<1>2. CASE systemTasks[q] = <<>>
  BY <1>2, Zenon DEF TakeSystem, AfterTake, LeftEmpty, ScanOn, Goto
<1>3. QED BY <1>1, <1>2, Zenon

\* The same of take_ordinary.
LEMMA TakeOrdinaryCases ==
    ASSUME NEW w \in Workers, TakeOrdinary(w)
    PROVE  LET q == Shard(w, scan[w])
           IN  /\ systemTasks' = systemTasks
               /\ ready' = ready \/ (/\ q = w /\ ready' = [ready EXCEPT ![w] = FALSE]
                                    /\ tasks'[w] = <<>> /\ systemTasks'[w] = <<>>)
               /\ \/ /\ tasks[q] # <<>>
                     /\ tasks' = [tasks EXCEPT ![q] = Tail(@)]
                     /\ mpc' = [mpc EXCEPT ![Head(tasks[q])] = "quiet"]
                     /\ wpc' = [wpc EXCEPT ![w] = "taken"]
                     /\ scan' = [scan EXCEPT ![w] = 0]
                  \/ /\ tasks' = tasks /\ mpc' = mpc
                     /\ wpc' = wpc \/ wpc' = [wpc EXCEPT ![w] = "check"]
                     /\ \E k \in {0, scan[w] + 1} : scan' = [scan EXCEPT ![w] = k]
<1> DEFINE q == Shard(w, scan[w])
<1>1. CASE tasks[q] # <<>>
  BY <1>1, Zenon DEF TakeOrdinary, AfterTake, LeftEmpty, PopShard, Took, Goto
<1>2. CASE tasks[q] = <<>>
  BY <1>2, Zenon DEF TakeOrdinary, AfterTake, LeftEmpty, ScanOn, Goto
<1>3. QED BY <1>1, <1>2, Zenon

\* Taking from a shard leaves queues, events and program counters.
LEMMA TypeTake ==
    ASSUME TypeOK, NEW w \in Workers, TakeSystem(w) \/ TakeOrdinary(w)
    PROVE  TypeOK'
<1> DEFINE q == Shard(w, scan[w])
<1>1. scan \in [Workers -> Nat] /\ q \in Workers
  BY ShardType, Zenon DEF TypeOK
<1>2. {"count", "taken", "check", "ordinary"} \subseteq WorkerPcs /\ "quiet" \in MailboxPcs
  BY Zenon DEF WorkerPcs, MailboxPcs
<1>3. mpc \in [Mailboxes -> MailboxPcs] /\ wpc \in [Workers -> WorkerPcs]
  BY Zenon DEF TypeOK
<1>4. ready \in [Workers -> BOOLEAN]
  BY Zenon DEF TypeOK
<1>5. tasks \in [Workers -> Seq(Mailboxes)] /\ systemTasks \in [Workers -> Seq(Mailboxes)]
  BY Zenon DEF TypeOK
<1> HIDE DEF q
<1>6. CASE TakeSystem(w)
  <2>1. mpc' \in [Mailboxes -> MailboxPcs] /\ wpc' \in [Workers -> WorkerPcs]
    BY <1>2, <1>3, <1>6, TakeSystemCases, ZenonT(60)
  <2>2. systemTasks' \in [Workers -> Seq(Mailboxes)]
    <3>1. \/ systemTasks' = systemTasks
          \/ systemTasks[q] # <<>> /\ systemTasks' = [systemTasks EXCEPT ![q] = Tail(systemTasks[q])]
      BY <1>6, TakeSystemCases, Zenon DEF q
    <3>2. systemTasks[q] # <<>> => Tail(systemTasks[q]) \in Seq(Mailboxes)
      BY <1>1, <1>5
    <3>3. QED BY <1>1, <1>5, <3>1, <3>2, Zenon
  <2>3. ready' \in [Workers -> BOOLEAN] /\ scan' \in [Workers -> Nat]
    <3>1. ready' = ready \/ ready' = [ready EXCEPT ![w] = FALSE]
      BY <1>6, TakeSystemCases, Zenon
    <3>2. PICK k \in {0, scan[w] + 1} : scan' = [scan EXCEPT ![w] = k]
      BY <1>6, TakeSystemCases, Zenon
    <3>3. k \in Nat
      BY <1>1
    <3>4. scan' \in [Workers -> Nat]
      BY <1>1, <3>2, <3>3, Zenon
    <3>5. QED BY <1>4, <3>1, <3>4, Zenon
  <2>4. QED BY <1>5, <1>6, <2>1, <2>2, <2>3, Zenon DEF TakeSystem, TypeOK, stopperVars
<1>7. CASE TakeOrdinary(w)
  <2>1. mpc' \in [Mailboxes -> MailboxPcs] /\ wpc' \in [Workers -> WorkerPcs]
    BY <1>2, <1>3, <1>7, TakeOrdinaryCases
  <2>2. tasks' \in [Workers -> Seq(Mailboxes)]
    <3>1. \/ tasks' = tasks
          \/ tasks[q] # <<>> /\ tasks' = [tasks EXCEPT ![q] = Tail(tasks[q])]
      BY <1>7, TakeOrdinaryCases, Zenon DEF q
    <3>2. tasks[q] # <<>> => Tail(tasks[q]) \in Seq(Mailboxes)
      BY <1>1, <1>5
    <3>3. QED BY <1>1, <1>5, <3>1, <3>2, Zenon
  <2>3. ready' \in [Workers -> BOOLEAN] /\ scan' \in [Workers -> Nat]
    <3>1. ready' = ready \/ ready' = [ready EXCEPT ![w] = FALSE]
      BY <1>7, TakeOrdinaryCases, Zenon
    <3>2. PICK k \in {0, scan[w] + 1} : scan' = [scan EXCEPT ![w] = k]
      BY <1>7, TakeOrdinaryCases, Zenon
    <3>3. k \in Nat
      BY <1>1
    <3>4. scan' \in [Workers -> Nat]
      BY <1>1, <3>2, <3>3, Zenon
    <3>5. QED BY <1>4, <3>1, <3>4, Zenon
  <2>4. QED BY <1>5, <1>7, <2>1, <2>2, <2>3, Zenon DEF TakeOrdinary, TypeOK, stopperVars
<1>8. QED BY <1>6, <1>7, Zenon

\* Every step of a worker keeps the types.
LEMMA TypeWorker == ASSUME TypeOK, NEW w \in Workers, WorkerStep(w) PROVE TypeOK'
<1> USE DEF TypeOK, Goto
<1>1. CASE Loop(w) \/ ReadSystemFlag(w)
  BY <1>1, ZenonT(60) DEF Loop, ReadSystemFlag, WorkerPcs, poolVars, queueVars, callerVars,
     publisherVars, stopperVars
<1>2. CASE CountSystem(w)
  BY <1>2 DEF CountSystem, WorkerPcs, queueVars, callerVars, publisherVars, stopperVars
<1>3. CASE CheckState(w) \/ Wait(w)
  <2>1. idle' \subseteq Workers /\ round' \in [Workers -> {1, 2}]
    BY <1>3, ZenonT(60) DEF CheckState, Wait, MarkActive, WithoutIdle
  <2>2. wpc' \in [Workers -> WorkerPcs]
    BY <1>3, ZenonT(60) DEF CheckState, Wait, WorkerPcs
  <2>3. QED BY <1>3, <2>1, <2>2, Zenon DEF CheckState, Wait, queueVars, callerVars,
            publisherVars, stopperVars
<1>4. CASE MarkIdle(w)
  BY <1>4, Zenon DEF MarkIdle, WorkerPcs, queueVars, callerVars, publisherVars, stopperVars
<1>5. CASE TakenWhileIdle(w)
  BY <1>5, Zenon DEF TakenWhileIdle, MarkActive, WithoutIdle, WorkerPcs, queueVars, callerVars,
     publisherVars, stopperVars
<1>6. CASE RunTask(w) \/ FinishTask(w)
  BY <1>6, ZenonT(60) DEF RunTask, FinishTask, WorkerPcs, poolVars, queueVars, callerVars,
     publisherVars, stopperVars
<1>7. QED BY <1>1, <1>2, <1>3, <1>4, <1>5, <1>6, TypeTake, Zenon DEF WorkerStep

\* The steps of the thread that starts and stops the pool.
StopperNext ==
    Start \/ StartFails \/ StopNew \/ StopRunning \/ JoinTimesOut \/ StopperStep

\* Every step of the thread that starts and stops the pool keeps the types.
LEMMA TypeStopper == ASSUME TypeOK, StopperInv, StopperNext PROVE TypeOK'
<1> USE DEF TypeOK, Stopper
<1>1. 0 \in 0..N /\ \A k \in 0..N : k < N => k \in Workers /\ k + 1 \in 0..N
  BY WorkerPoolAssumption DEF Workers
<1>2. CASE Start \/ StartFails \/ StopNew \/ StopRunning \/ JoinTimesOut
  <2>1. /\ state' \in States /\ abort' \in BOOLEAN /\ spc' \in StopperPcs /\ step' \in 0..N
    BY <1>1, <1>2, Zenon DEF Start, StartFails, StopNew, StopRunning, JoinTimesOut, States,
       StopperPcs
  <2>2. UNCHANGED <<queueVars, idle, systemCount, workerVars, publisherVars>>
    BY <1>2, Zenon DEF Start, StartFails, StopNew, StopRunning, JoinTimesOut
  <2>3. QED BY <2>1, <2>2, Zenon DEF queueVars, workerVars, publisherVars
<1>3. CASE StartWorker
  <2>1. wpc' \in [Workers -> WorkerPcs] /\ spc' \in StopperPcs /\ step' \in 0..N
    BY <1>1, <1>3, Zenon DEF StartWorker, Goto, WorkerPcs, StopperPcs
  <2>2. QED BY <1>3, <2>1, Zenon DEF StartWorker, poolVars, queueVars, publisherVars
<1>4. CASE Started \/ SetStopped
  <2>1. state' \in States /\ spc' \in StopperPcs /\ step' \in 0..N
    BY <1>1, <1>4, Zenon DEF Started, SetStopped, States, StopperPcs
  <2>2. UNCHANGED <<abort, queueVars, idle, systemCount, workerVars, publisherVars>>
    BY <1>4, Zenon DEF Started, SetStopped
  <2>3. QED BY <2>1, <2>2, Zenon DEF queueVars, workerVars, publisherVars
<1>5. CASE Joined
  BY <1>1, <1>5, Zenon DEF Joined, StopperPcs, poolVars, queueVars, workerVars,
     publisherVars
<1>6. CASE WakeNext
  <2>1. step \in Workers /\ step + 1 \in 0..N
    BY <1>1, <1>6, Zenon DEF WakeNext, StopperInv
  <2>2. spc' \in StopperPcs /\ step' \in 0..N
    BY <1>1, <1>6, <2>1, Zenon DEF WakeNext, AfterWake, StopperPcs
  <2>3. QED BY <1>6, <2>2, Zenon DEF WakeNext, WakeUp, workerVars, publisherVars
<1>7. CASE Detach
  <2>1. spc' \in StopperPcs /\ step' \in 0..N
    BY <1>1, <1>7, Zenon DEF Detach, StopperPcs
  <2>2. <<>> \in Seq(Mailboxes)
    OBVIOUS
  <2>3. /\ tasks' \in [Workers -> Seq(Mailboxes)] /\ systemTasks' \in [Workers -> Seq(Mailboxes)]
        /\ ready' \in [Workers -> BOOLEAN]
    BY <1>7, <2>2, Zenon DEF Detach, SystemDetached
  <2>4. QED BY <1>7, <2>1, <2>3, Zenon DEF Detach, workerVars, publisherVars
<1>8. CASE Detached
  BY <1>1, <1>8 DEF Detached, CountReset, StopperPcs, queueVars, workerVars, publisherVars
<1>9. QED BY <1>2, <1>3, <1>4, <1>5, <1>6, <1>7, <1>8, Zenon DEF StopperNext, StopperStep

\* A step is one of a publisher, of a worker, or of the stopping thread.
LEMMA Steps ==
    ASSUME Next
    PROVE  \/ \E m \in Mailboxes : ChooseWorker(m) \/ PublisherStep(m)
           \/ \E w \in Workers : WorkerStep(w)
           \/ StopperNext
BY Zenon DEF Next, StopperNext

\* A publisher changes neither the workers nor the stopping thread.
LEMMA PublisherFrame ==
    ASSUME NEW m \in Mailboxes, ChooseWorker(m) \/ PublisherStep(m)
    PROVE  UNCHANGED <<state, abort, workerVars, stopperVars>>
BY Zenon DEF PublisherStep, ChooseWorker, TryAlternate, TryIdle, Publish, TryNextShard,
       PublishRefused, CapacityExceeded, poolVars

\* A worker that steps is alive, moves only its own program counter, and goes
\* to sleep only when it has seen the pool running.
LEMMA WorkerFrame ==
    ASSUME TypeOK, NEW w \in Workers, WorkerStep(w)
    PROVE  /\ UNCHANGED <<state, abort, stopperVars>>
           /\ w \in Alive
           /\ wpc' = [wpc EXCEPT ![w] = wpc'[w]]
           /\ wpc'[w] # "off"
           /\ wpc'[w] = "wait" => ~Stopped
<1>1. wpc \in [Workers -> WorkerPcs]
  BY Zenon DEF TypeOK
<1>2. CASE TakeSystem(w)
  <2>1. wpc[w] = "system" /\ UNCHANGED <<state, abort, stopperVars>>
    BY <1>2, Zenon DEF TakeSystem
  <2>2. wpc' = wpc \/ \E pc \in {"count", "ordinary"} : wpc' = [wpc EXCEPT ![w] = pc]
    BY <1>2, TakeSystemCases, Zenon
  <2>3. QED BY <1>1, <2>1, <2>2, Zenon DEF Alive
<1>3. CASE TakeOrdinary(w)
  <2>1. wpc[w] = "ordinary" /\ UNCHANGED <<state, abort, stopperVars>>
    BY <1>3, Zenon DEF TakeOrdinary
  <2>2. wpc' = wpc \/ \E pc \in {"taken", "check"} : wpc' = [wpc EXCEPT ![w] = pc]
    BY <1>3, TakeOrdinaryCases, Zenon
  <2>3. QED BY <1>1, <2>1, <2>2, Zenon DEF Alive
<1>4. CASE Loop(w) \/ ReadSystemFlag(w) \/ CountSystem(w)
  BY <1>1, <1>4, Zenon DEF Loop, ReadSystemFlag, CountSystem, Goto, Alive, poolVars, callerVars
<1>5. CASE CheckState(w) \/ MarkIdle(w) \/ Wait(w)
  BY <1>1, <1>5, Zenon DEF CheckState, MarkIdle, Wait, Goto, Alive, poolVars, callerVars
<1>6. CASE TakenWhileIdle(w) \/ RunTask(w) \/ FinishTask(w)
  BY <1>1, <1>6, Zenon DEF TakenWhileIdle, RunTask, FinishTask, Goto, Alive, poolVars, callerVars
<1>7. QED BY <1>2, <1>3, <1>4, <1>5, <1>6, Zenon DEF WorkerStep

\* Only the two takes of a worker touch the queues and their events.
LEMMA QuietWorker ==
    ASSUME NEW w \in Workers, WorkerStep(w), ~TakeSystem(w), ~TakeOrdinary(w)
    PROVE  UNCHANGED <<queueVars, mpc>>
BY Zenon DEF WorkerStep, Loop, ReadSystemFlag, CountSystem, CheckState, MarkIdle, Wait,
   TakenWhileIdle, RunTask, FinishTask, poolVars, callerVars, publisherVars

\* What the pool's state says of the stopping thread, of the workers it has
\* started and of those that have left, holds after every step.
LEMMA StopperInvStep == ASSUME TypeOK, StopperInv, Next PROVE StopperInv'
<1>1. CASE \E m \in Mailboxes : ChooseWorker(m) \/ PublisherStep(m)
  <2>1. UNCHANGED <<state, abort, workerVars, stopperVars>>
    BY <1>1, PublisherFrame, Zenon
  <2>2. QED BY <2>1, Zenon DEF StopperInv, Alive, workerVars, stopperVars
<1>2. CASE \E w \in Workers : WorkerStep(w)
  <2>1. PICK w \in Workers : WorkerStep(w)
    BY <1>2, Zenon
  <2>2. /\ UNCHANGED <<state, stopperVars>> /\ w \in Alive
        /\ wpc' = [wpc EXCEPT ![w] = wpc'[w]]
    BY <2>1, WorkerFrame, Zenon
  <2>3. \A v \in Workers : v # w => wpc'[v] = wpc[v]
    BY <2>2, ZenonT(60) DEF TypeOK
  <2>4. wpc[w] \notin {"off", "exited"} /\ spc \notin {"new", "detach", "setStopped"}
    BY <2>2, Zenon DEF StopperInv, Alive
  <2>5. QED BY <2>2, <2>3, <2>4, Zenon DEF StopperInv, stopperVars
<1>3. CASE StopperNext
  <2> USE DEF Stopper
  <2>1. CASE Start
    <3>1. wpc' = wpc
      BY <2>1, Zenon DEF Start, workerVars
    <3>2. QED BY <2>1, <3>1, Zenon DEF Start, StopperInv
  <2>2. CASE StartFails \/ StopNew \/ StopRunning \/ JoinTimesOut
    BY <2>2, WorkerPoolAssumption DEF StartFails, StopNew, StopRunning, JoinTimesOut,
       StopperInv
  <2>3. CASE StartWorker
    <3>1. \A v \in Workers : v # step => wpc'[v] = wpc[v]
      BY <2>3, Zenon DEF StartWorker, Goto, TypeOK
    <3>2. \A v \in Workers : v >= step + 1 => v >= step /\ v # step
      BY DEF TypeOK, Workers
    <3>3. /\ spc = "starting" /\ spc' = "starting" /\ step' = step + 1 /\ state' = state
      BY <2>3, Zenon DEF StartWorker, poolVars
    <3>4. QED BY <3>1, <3>2, <3>3, Zenon DEF StopperInv
  <2>4. CASE Started \/ Detached \/ SetStopped
    <3>1. wpc' = wpc
      BY <2>4, Zenon DEF Started, Detached, SetStopped, workerVars
    <3>2. QED BY <2>4, <3>1, Zenon DEF Started, Detached, SetStopped, StopperInv,
                 Alive, poolVars
  <2>5. CASE WakeNext
    <3>1. wpc' = wpc
      BY <2>5, Zenon DEF WakeNext, workerVars
    <3>2. QED BY <2>5, <3>1, Zenon DEF WakeNext, AfterWake, StopperInv, Alive
  <2>6. CASE Joined \/ Detach
    <3>1. wpc' = wpc /\ state' = state
      BY <2>6, Zenon DEF Joined, Detach, workerVars, poolVars
    <3>2. QED BY <2>6, <3>1, Zenon DEF Joined, Detach, StopperInv, Alive
  <2>7. QED BY <1>3, <2>1, <2>2, <2>3, <2>4, <2>5, <2>6, Zenon DEF StopperNext, StopperStep
<1>4. QED BY <1>1, <1>2, <1>3, Steps, Zenon

\* A publication sets the event of a queue that was empty, and only the owner
\* clears it, with both classes of the queue empty.
LEMMA SignalledStep == ASSUME TypeOK, StopperInv, WorkIsSignalled, Next PROVE WorkIsSignalled'
<1>0. /\ tasks \in [Workers -> Seq(Mailboxes)] /\ systemTasks \in [Workers -> Seq(Mailboxes)]
      /\ ready \in [Workers -> BOOLEAN]
  BY Zenon DEF TypeOK
<1>1. ASSUME NEW m \in Mailboxes, ChooseWorker(m) \/ PublisherStep(m) PROVE WorkIsSignalled'
  <2>1. CASE Publish(m)
    <3> DEFINE q == Shard(first[m], offset[m])
    <3>1. q \in Workers
      BY ShardType, Zenon DEF TypeOK
    <3>2. /\ tasks' = tasks \/ tasks' = [tasks EXCEPT ![q] = Append(tasks[q], m)]
          /\ systemTasks' = systemTasks
             \/ systemTasks' = [systemTasks EXCEPT ![q] = Append(systemTasks[q], m)]
          /\ IF Empty(q) THEN ready' = [ready EXCEPT ![q] = TRUE] ELSE ready' = ready
      <4>1. /\ tasks' = tasks \/ tasks' = [tasks EXCEPT ![q] = Append(tasks[q], m)]
            /\ systemTasks' = systemTasks
               \/ systemTasks' = [systemTasks EXCEPT ![q] = Append(systemTasks[q], m)]
        BY <2>1, Zenon DEF Publish
      <4>2. IF Empty(q) THEN ready' = [ready EXCEPT ![q] = TRUE] ELSE ready' = ready
        BY <2>1, Zenon DEF Publish, Wakes
      <4>3. QED BY <4>1, <4>2, Zenon
    <3> HIDE DEF q
    <3>3. ready'[q]
      BY <1>0, <3>1, <3>2, Zenon DEF WorkIsSignalled
    <3>4. ASSUME NEW r \in Workers, r # q PROVE Empty(r)' \/ ready'[r]
      <4>1. tasks'[r] = tasks[r] /\ systemTasks'[r] = systemTasks[r] /\ ready'[r] = ready[r]
        BY <1>0, <3>2, <3>4, Zenon
      <4>2. QED BY <4>1, Zenon DEF WorkIsSignalled, Empty
    <3>5. QED BY <3>3, <3>4, Zenon DEF WorkIsSignalled
  <2>2. CASE ~Publish(m)
    <3>1. UNCHANGED queueVars
      BY <1>1, <2>2, Zenon DEF PublisherStep, ChooseWorker, TryAlternate, TryIdle,
         TryNextShard,
         PublishRefused, CapacityExceeded, poolVars
    <3>2. QED BY <3>1, Zenon DEF WorkIsSignalled, Empty, queueVars
  <2>3. QED BY <2>1, <2>2, Zenon
<1>2. ASSUME NEW w \in Workers, WorkerStep(w) PROVE WorkIsSignalled'
  <2>1. CASE TakeSystem(w)
    <3> DEFINE q == Shard(w, scan[w])
    <3>1. q \in Workers
      BY ShardType, Zenon DEF TypeOK
    <3>2. tasks' = tasks
      BY <2>1, Zenon DEF TakeSystem
    <3>3. systemTasks' = systemTasks \/ (systemTasks[q] # <<>> /\ systemTasks' = [systemTasks EXCEPT ![q] = Tail(systemTasks[q])])
      BY <2>1, TakeSystemCases, Zenon
    <3>4. ready' = ready \/ (ready' = [ready EXCEPT ![w] = FALSE] /\ tasks'[w] = <<>> /\ systemTasks'[w] = <<>>)
      BY <2>1, TakeSystemCases, Zenon
    <3> HIDE DEF q
    <3>5. ASSUME NEW r \in Workers PROVE Empty(r) => Empty(r)'
      <4>1. tasks'[r] = tasks[r] /\ (systemTasks[r] = <<>> => systemTasks'[r] = <<>>)
        BY <1>0, <3>1, <3>2, <3>3, Zenon
      <4>2. QED BY <4>1, Zenon DEF Empty
    <3>6. QED BY <1>0, <3>4, <3>5, Zenon DEF WorkIsSignalled, Empty
  <2>2. CASE TakeOrdinary(w)
    <3> DEFINE q == Shard(w, scan[w])
    <3>1. q \in Workers
      BY ShardType, Zenon DEF TypeOK
    <3>2. systemTasks' = systemTasks
      BY <2>2, Zenon DEF TakeOrdinary
    <3>3. tasks' = tasks \/ (tasks[q] # <<>> /\ tasks' = [tasks EXCEPT ![q] = Tail(tasks[q])])
      BY <2>2, TakeOrdinaryCases, Zenon
    <3>4. ready' = ready \/ (ready' = [ready EXCEPT ![w] = FALSE] /\ tasks'[w] = <<>> /\ systemTasks'[w] = <<>>)
      BY <2>2, TakeOrdinaryCases, Zenon
    <3> HIDE DEF q
    <3>5. ASSUME NEW r \in Workers PROVE Empty(r) => Empty(r)'
      <4>1. systemTasks'[r] = systemTasks[r] /\ (tasks[r] = <<>> => tasks'[r] = <<>>)
        BY <1>0, <3>1, <3>2, <3>3, Zenon
      <4>2. QED BY <4>1, Zenon DEF Empty
    <3>6. QED BY <1>0, <3>4, <3>5, Zenon DEF WorkIsSignalled, Empty
  <2>3. CASE ~TakeSystem(w) /\ ~TakeOrdinary(w)
    <3>1. UNCHANGED queueVars
      BY <1>2, <2>3, QuietWorker, Zenon
    <3>2. QED BY <3>1, Zenon DEF WorkIsSignalled, Empty, queueVars
  <2>4. QED BY <2>1, <2>2, <2>3, Zenon
<1>3. ASSUME StopperNext PROVE WorkIsSignalled'
  <2>1. CASE WakeNext
    BY <1>0, <2>1, Zenon DEF WakeNext, WakeUp, WorkIsSignalled, Empty
  <2>2. CASE Detach
    BY <1>0, <2>2, Zenon DEF Detach, SystemDetached, WorkIsSignalled, Empty
  <2>3. CASE ~WakeNext /\ ~Detach
    <3>1. UNCHANGED queueVars
      BY <1>3, <2>3, Zenon DEF StopperNext, StopperStep, Start, StartFails, StopNew,
         StopRunning,
         JoinTimesOut, StartWorker, Started, Joined, Detached, SetStopped, poolVars
    <3>2. QED BY <3>1, Zenon DEF WorkIsSignalled, Empty, queueVars
  <2>4. QED BY <2>1, <2>2, <2>3, Zenon
<1>4. QED BY <1>1, <1>2, <1>3, Steps, Zenon

\* Whoever is asleep when the pool begins to stop is woken before the stopping
\* thread has passed its queue, and nobody else clears the event.
LEMMA StopWakesStep == ASSUME TypeOK, StopperInv, StopWakesWorkers, Next PROVE StopWakesWorkers'
<1>0. ready \in [Workers -> BOOLEAN] /\ wpc \in [Workers -> WorkerPcs] /\ step \in 0..N
  BY Zenon DEF TypeOK
<1>1. ASSUME NEW m \in Mailboxes, ChooseWorker(m) \/ PublisherStep(m) PROVE StopWakesWorkers'
  <2>1. UNCHANGED <<state, wpc, spc, step>>
    BY <1>1, PublisherFrame, Zenon DEF workerVars, stopperVars
  <2>2. \A w \in Workers : ready[w] => ready'[w]
    <3>1. CASE Publish(m)
      <4>1. ready' = ready \/ ready' = [ready EXCEPT ![Shard(first[m], offset[m])] = TRUE]
        BY <3>1, Zenon DEF Publish
      <4>2. QED BY <1>0, <4>1, Zenon
    <3>2. CASE ~Publish(m)
      BY <1>1, <3>2, Zenon DEF PublisherStep, ChooseWorker, TryAlternate, TryIdle,
         TryNextShard,
         PublishRefused, CapacityExceeded, poolVars, queueVars
    <3>3. QED BY <3>1, <3>2, Zenon
  <2>3. QED BY <2>1, <2>2, Zenon DEF StopWakesWorkers, Stopped
<1>2. ASSUME NEW w \in Workers, WorkerStep(w) PROVE StopWakesWorkers'
  <2>1. /\ UNCHANGED <<state, spc, step>>
        /\ wpc' = [wpc EXCEPT ![w] = wpc'[w]]
        /\ wpc'[w] = "wait" => ~Stopped
    BY <1>2, WorkerFrame, Zenon DEF stopperVars
  <2>2. \A v \in Workers : v # w => wpc'[v] = wpc[v] /\ ready'[v] = ready[v]
    <3>1. ready' = ready \/ ready' = [ready EXCEPT ![w] = FALSE]
      <4>1. CASE TakeSystem(w)
        BY <4>1, TakeSystemCases, Zenon
      <4>2. CASE TakeOrdinary(w)
        BY <4>2, TakeOrdinaryCases, Zenon
      <4>3. CASE ~TakeSystem(w) /\ ~TakeOrdinary(w)
        BY <1>2, <4>3, QuietWorker, Zenon DEF queueVars
      <4>4. QED BY <4>1, <4>2, <4>3, Zenon
    <3>2. QED BY <1>0, <2>1, <3>1, Zenon
  <2>3. QED BY <2>1, <2>2, Zenon DEF StopWakesWorkers, Stopped
<1>3. ASSUME StopperNext PROVE StopWakesWorkers'
  <2> USE DEF Stopper
  <2>1. CASE WakeNext
    <3>1. UNCHANGED <<state, wpc>> /\ ready' = [ready EXCEPT ![step] = TRUE]
      BY <2>1, Zenon DEF WakeNext, WakeUp, workerVars
    <3>2. \A w \in Workers : ready[w] => ready'[w]
      BY <1>0, <3>1, Zenon
    <3>3. ASSUME NEW w \in Workers, spc \in {"wake", "wakeStarted"}, step <= w
          PROVE  ready'[w] \/ (spc' \in {"wake", "wakeStarted"} /\ step' <= w)
      <4>1. CASE step = w
        BY <1>0, <3>1, <4>1, Zenon
      <4>2. CASE step # w
        <5>1. step + 1 <= w /\ step + 1 < N
          BY <1>0, <3>3, <4>2, WorkerPoolAssumption DEF Workers
        <5>2. QED BY <2>1, <3>3, <5>1, Zenon DEF WakeNext
      <4>3. QED BY <4>1, <4>2, Zenon
    <3>4. QED BY <3>1, <3>2, <3>3, Zenon DEF StopWakesWorkers, Stopped
  <2>2. CASE Detach
    <3>1. Alive = {} /\ wpc' = wpc
      BY <2>2, Zenon DEF Detach, StopperInv, workerVars
    <3>2. \A w \in Workers : wpc'[w] # "wait"
      BY <3>1, Zenon DEF Alive
    <3>3. QED BY <3>2, Zenon DEF StopWakesWorkers
  <2>3. CASE StartFails \/ StopRunning
    <3>1. \A w \in Workers : 0 <= w
      BY DEF Workers
    <3>2. QED BY <2>3, <3>1, Zenon DEF StartFails, StopRunning, StopWakesWorkers
  <2>4. CASE StopNew
    BY <2>4, Zenon DEF StopNew, StopperInv, StopWakesWorkers, workerVars
  <2>5. CASE Start \/ StartWorker \/ Started
    <3>1. state' \notin {"STOPPING", "STOPPED"}
      BY <2>5, Zenon DEF Start, StartWorker, Started, StopperInv, poolVars
    <3>2. QED BY <3>1, Zenon DEF StopWakesWorkers, Stopped
  <2>6. CASE Joined \/ JoinTimesOut \/ Detached \/ SetStopped
    <3>1. UNCHANGED <<wpc, ready>> /\ spc \notin {"wake", "wakeStarted"} /\ Stopped
      BY <2>6, Zenon DEF Joined, JoinTimesOut, Detached, SetStopped, workerVars,
         poolVars,
         queueVars, StopperInv, Stopped
    <3>2. QED BY <3>1, Zenon DEF StopWakesWorkers
  <2>7. QED BY <1>3, <2>1, <2>2, <2>3, <2>4, <2>5, <2>6, Zenon DEF StopperNext, StopperStep
<1>4. QED BY <1>1, <1>2, <1>3, Steps, Zenon

\* The queues of both classes hold mailboxes.
LEMMA QueueType ==
    ASSUME TypeOK, NEW k \in BOOLEAN, NEW q \in Workers PROVE Queue(k, q) \in Seq(Mailboxes)
BY Zenon DEF TypeOK, Queue

\* A step that leaves the queues and the activations as they are, and does not
\* revive an ended pool, keeps every activation in its place.
LEMMA SameQueues ==
    ASSUME QueuedOnce, UNCHANGED <<tasks, systemTasks>>,
           \A m \in Mailboxes : (mpc'[m] = "queued") <=> (mpc[m] = "queued"),
           Stopped /\ Alive = {} => Stopped' /\ Alive' = {}
    PROVE  QueuedOnce'
<1>1. /\ HeldTwice' <=> HeldTwice
      /\ \A m \in Mailboxes : Held(m)' <=> Held(m)
  BY DEF HeldTwice, Held, Queue
<1>2. QED BY <1>1, Zenon DEF QueuedOnce

\* Two places with the same activation are one place.
LEMMA OnePlace ==
    ASSUME ~HeldTwice, NEW k \in BOOLEAN, NEW l \in BOOLEAN, NEW q \in Workers, NEW r \in Workers,
           NEW i \in DOMAIN Queue(k, q), NEW j \in DOMAIN Queue(l, r),
           Queue(k, q)[i] = Queue(l, r)[j]
    PROVE  <<k, q, i>> = <<l, r, j>>
BY DEF HeldTwice

\* An activation put behind one queue is the only one of its mailbox.
LEMMA QueuedPut ==
    ASSUME TypeOK, QueuedOnce, NEW m \in Mailboxes, mpc[m] # "queued",
           NEW k0 \in BOOLEAN, NEW q0 \in Workers,
           Queue(k0, q0)' = Append(Queue(k0, q0), m),
           \A k \in BOOLEAN, q \in Workers : <<k, q>> # <<k0, q0>> => Queue(k, q)' = Queue(k, q),
           mpc' = [mpc EXCEPT ![m] = "queued"],
           Stopped /\ Alive = {} => Stopped' /\ Alive' = {}
    PROVE  QueuedOnce'
<1>3. ~Held(m)
  BY Zenon DEF QueuedOnce
<1>5. Queue(k0, q0) \in Seq(Mailboxes)
  BY QueueType, Zenon
<1>4. PICK new \in Nat : new = Len(Queue(k0, q0)) + 1
  BY <1>5
<1>6. ASSUME NEW k \in BOOLEAN, NEW q \in Workers, NEW i \in DOMAIN Queue(k, q)'
      PROVE  \/ i \in DOMAIN Queue(k, q) /\ Queue(k, q)'[i] = Queue(k, q)[i]
             \/ <<k, q, i>> = <<k0, q0, new>> /\ Queue(k, q)'[i] = m
  <2>1. CASE <<k, q>> = <<k0, q0>>
    <3>1. i \in DOMAIN Append(Queue(k0, q0), m) /\ k = k0 /\ q = q0
      BY <1>6, <2>1, Zenon
    <3>2. QED BY <1>4, <1>5, <3>1
  <2>2. CASE <<k, q>> # <<k0, q0>>
    BY <1>6, <2>2, Zenon
  <2>3. QED BY <2>1, <2>2, Zenon
<1>7. ASSUME NEW k \in BOOLEAN, NEW q \in Workers, NEW i \in DOMAIN Queue(k, q)
      PROVE  i \in DOMAIN Queue(k, q)' /\ Queue(k, q)'[i] = Queue(k, q)[i]
  <2>1. CASE <<k, q>> = <<k0, q0>>
    <3>1. i \in DOMAIN Queue(k0, q0) /\ k = k0 /\ q = q0
      BY <1>7, <2>1, Zenon
    <3>2. QED BY <1>5, <3>1
  <2>2. CASE <<k, q>> # <<k0, q0>>
    BY <1>7, <2>2, Zenon
  <2>3. QED BY <2>1, <2>2, Zenon
<1>8. new \in DOMAIN Queue(k0, q0)' /\ Queue(k0, q0)'[new] = m
  BY <1>4, <1>5
<1>9. ~HeldTwice'
  <2>1. SUFFICES ASSUME NEW k \in BOOLEAN, NEW l \in BOOLEAN, NEW q \in Workers, NEW r \in Workers,
                        NEW i \in DOMAIN Queue(k, q)', NEW j \in DOMAIN Queue(l, r)',
                        Queue(k, q)'[i] = Queue(l, r)'[j], <<k, q, i>> # <<l, r, j>>
                 PROVE  FALSE
    BY DEF HeldTwice
  <2>2. CASE <<k, q, i>> = <<k0, q0, new>> /\ Queue(k, q)'[i] = m
    <3>1. j \in DOMAIN Queue(l, r) /\ Queue(l, r)[j] = m
      BY <1>6, <2>1, <2>2, Zenon
    <3>2. QED BY <1>3, <3>1, Zenon DEF Held
  <2>3. CASE <<l, r, j>> = <<k0, q0, new>> /\ Queue(l, r)'[j] = m
    <3>1. i \in DOMAIN Queue(k, q) /\ Queue(k, q)[i] = m
      BY <1>6, <2>1, <2>3, Zenon
    <3>2. QED BY <1>3, <3>1, Zenon DEF Held
  <2>4. CASE /\ i \in DOMAIN Queue(k, q) /\ Queue(k, q)'[i] = Queue(k, q)[i]
             /\ j \in DOMAIN Queue(l, r) /\ Queue(l, r)'[j] = Queue(l, r)[j]
    <3>1. Queue(k, q)[i] = Queue(l, r)[j] /\ ~HeldTwice
      BY <2>1, <2>4, Zenon DEF QueuedOnce
    <3>2. QED BY <2>1, <2>4, <3>1, OnePlace
  <2>5. QED BY <1>6, <2>2, <2>3, <2>4, Zenon
<1>10. Held(m)' /\ mpc'[m] = "queued"
  BY <1>8, Zenon DEF Held, TypeOK
<1>11. ASSUME NEW n \in Mailboxes, n # m PROVE (Held(n)' <=> Held(n)) /\ mpc'[n] = mpc[n]
  <2>1. Held(n) => Held(n)'
    <3>1. SUFFICES ASSUME NEW k \in BOOLEAN, NEW q \in Workers, NEW i \in DOMAIN Queue(k, q),
                          Queue(k, q)[i] = n
                   PROVE  Held(n)'
      BY Zenon DEF Held
    <3>2. i \in DOMAIN Queue(k, q)' /\ Queue(k, q)'[i] = n
      BY <1>7, <3>1, Zenon
    <3>3. QED BY <3>2, Zenon DEF Held
  <2>2. Held(n)' => Held(n)
    <3>1. SUFFICES ASSUME NEW k \in BOOLEAN, NEW q \in Workers, NEW i \in DOMAIN Queue(k, q)',
                          Queue(k, q)'[i] = n
                   PROVE  Held(n)
      BY Zenon DEF Held
    <3>2. i \in DOMAIN Queue(k, q) /\ Queue(k, q)[i] = n
      BY <1>6, <1>11, <3>1, Zenon
    <3>3. QED BY <3>2, Zenon DEF Held
  <2>3. mpc'[n] = mpc[n]
    BY <1>11, Zenon DEF TypeOK
  <2>4. QED BY <2>1, <2>2, <2>3, Zenon
<1>12. QED BY <1>9, <1>10, <1>11, Zenon DEF QueuedOnce

\* Taking the head of a queue takes it out of the only place that held it.
LEMMA QueuedTake ==
    ASSUME TypeOK, QueuedOnce, Alive # {}, NEW k0 \in BOOLEAN, NEW q0 \in Workers,
           Queue(k0, q0) # <<>>,
           Queue(k0, q0)' = Tail(Queue(k0, q0)),
           \A k \in BOOLEAN, q \in Workers : <<k, q>> # <<k0, q0>> => Queue(k, q)' = Queue(k, q),
           mpc' = [mpc EXCEPT ![Head(Queue(k0, q0))] = "quiet"]
    PROVE  QueuedOnce'
<1> DEFINE At(k, q, i) == IF <<k, q>> = <<k0, q0>> THEN i + 1 ELSE i
<1>1. Queue(k0, q0) \in Seq(Mailboxes)
  BY QueueType, Zenon
<1>2. PICK h \in Mailboxes :
         1 \in DOMAIN Queue(k0, q0) /\ Queue(k0, q0)[1] = h /\ h = Head(Queue(k0, q0))
  BY <1>1
<1>3. ASSUME NEW k \in BOOLEAN, NEW q \in Workers, NEW i \in DOMAIN Queue(k, q)'
      PROVE  /\ At(k, q, i) \in DOMAIN Queue(k, q) /\ Queue(k, q)'[i] = Queue(k, q)[At(k, q, i)]
             /\ <<k, q, At(k, q, i)>> # <<k0, q0, 1>> /\ i \in Nat
  <2>1. CASE <<k, q>> = <<k0, q0>>
    <3>1. i \in DOMAIN Tail(Queue(k0, q0)) /\ k = k0 /\ q = q0
      BY <1>3, <2>1, Zenon
    <3>2. i \in Nat /\ i # 0 /\ i + 1 \in DOMAIN Queue(k0, q0) /\ Tail(Queue(k0, q0))[i] = Queue(k0, q0)[i + 1]
      BY <1>1, <3>1
    <3>3. QED BY <3>1, <3>2
  <2>2. CASE <<k, q>> # <<k0, q0>>
    <3>1. Queue(k, q) \in Seq(Mailboxes) /\ Queue(k, q)' = Queue(k, q)
      BY <2>2, QueueType, Zenon
    <3>2. QED BY <2>2, <3>1
  <2>3. QED BY <2>1, <2>2, Zenon
<1>4. ASSUME NEW k \in BOOLEAN, NEW q \in Workers, NEW j \in DOMAIN Queue(k, q),
             <<k, q, j>> # <<k0, q0, 1>>
      PROVE  \E i \in DOMAIN Queue(k, q)' : Queue(k, q)'[i] = Queue(k, q)[j]
  <2>1. CASE <<k, q>> = <<k0, q0>>
    <3>1. j - 1 \in DOMAIN Tail(Queue(k0, q0)) /\ Tail(Queue(k0, q0))[j - 1] = Queue(k0, q0)[j]
      BY <1>1, <1>4, <2>1
    <3>2. QED BY <2>1, <3>1, Zenon
  <2>2. CASE <<k, q>> # <<k0, q0>>
    BY <2>2, Zenon
  <2>3. QED BY <2>1, <2>2, Zenon
<1>5. ~HeldTwice'
  <2>1. SUFFICES ASSUME NEW k \in BOOLEAN, NEW l \in BOOLEAN, NEW q \in Workers, NEW r \in Workers,
                        NEW i \in DOMAIN Queue(k, q)', NEW j \in DOMAIN Queue(l, r)',
                        Queue(k, q)'[i] = Queue(l, r)'[j], <<k, q, i>> # <<l, r, j>>
                 PROVE  FALSE
    BY DEF HeldTwice
  <2>2. i \in Nat /\ j \in Nat
    BY <1>3, Zenon
  <2>3. <<k, q, At(k, q, i)>> # <<l, r, At(l, r, j)>>
    BY <2>1, <2>2
  <2>4. /\ At(k, q, i) \in DOMAIN Queue(k, q) /\ At(l, r, j) \in DOMAIN Queue(l, r)
        /\ Queue(k, q)[At(k, q, i)] = Queue(l, r)[At(l, r, j)]
    BY <1>3, <2>1
  <2> HIDE DEF At
  <2>5. QED BY <2>3, <2>4, OnePlace DEF QueuedOnce
<1>6. ~Held(h)'
  <2>1. SUFFICES ASSUME NEW k \in BOOLEAN, NEW q \in Workers, NEW i \in DOMAIN Queue(k, q)',
                        Queue(k, q)'[i] = h
                 PROVE  FALSE
    BY Zenon DEF Held
  <2>2. /\ At(k, q, i) \in DOMAIN Queue(k, q) /\ Queue(k, q)[At(k, q, i)] = Queue(k0, q0)[1]
        /\ <<k, q, At(k, q, i)>> # <<k0, q0, 1>>
    BY <1>2, <1>3, <2>1, Zenon
  <2> HIDE DEF At
  <2>3. QED BY <1>2, <2>2, OnePlace DEF QueuedOnce
<1>7. ASSUME NEW n \in Mailboxes, n # h PROVE Held(n)' <=> Held(n)
  <2>1. ASSUME Held(n)' PROVE Held(n)
    <3>1. PICK k \in BOOLEAN, q \in Workers : \E i \in DOMAIN Queue(k, q)' : Queue(k, q)'[i] = n
      BY <2>1, Zenon DEF Held
    <3>2. PICK i \in DOMAIN Queue(k, q)' : Queue(k, q)'[i] = n
      BY <3>1, Zenon
    <3>3. At(k, q, i) \in DOMAIN Queue(k, q) /\ Queue(k, q)[At(k, q, i)] = n
      BY <1>3, <3>2, Zenon
    <3> HIDE DEF At
    <3>4. QED BY <3>3, Zenon DEF Held
  <2>2. ASSUME Held(n) PROVE Held(n)'
    <3>1. PICK k \in BOOLEAN, q \in Workers : \E j \in DOMAIN Queue(k, q) : Queue(k, q)[j] = n
      BY <2>2, Zenon DEF Held
    <3>2. PICK j \in DOMAIN Queue(k, q) : Queue(k, q)[j] = n
      BY <3>1, Zenon
    <3>3. <<k, q, j>> # <<k0, q0, 1>>
      BY <1>2, <1>7, <3>2, Zenon
    <3>4. QED BY <1>4, <3>2, <3>3, Zenon DEF Held
  <2>3. QED BY <2>1, <2>2, Zenon
<1>8. mpc'[h] = "quiet" /\ \A n \in Mailboxes : n # h => mpc'[n] = mpc[n]
  BY <1>2, Zenon DEF TypeOK
<1>9. QED BY <1>5, <1>6, <1>7, <1>8, Zenon DEF QueuedOnce

\* Where an activation is changes with a publication, a take, and when an
\* ended pool empties its queues.
LEMMA QueuedStep == ASSUME TypeOK, StopperInv, QueuedOnce, Next PROVE QueuedOnce'
<1>0. tasks \in [Workers -> Seq(Mailboxes)] /\ systemTasks \in [Workers -> Seq(Mailboxes)]
  BY Zenon DEF TypeOK
<1>1. ASSUME NEW m \in Mailboxes, ChooseWorker(m) \/ PublisherStep(m) PROVE QueuedOnce'
  <2>1. Stopped /\ Alive = {} => Stopped' /\ Alive' = {}
    BY <1>1, PublisherFrame, Zenon DEF Stopped, Alive, workerVars
  <2>2. CASE Publish(m)
    <3>1. PICK q0 \in Workers : q0 = Shard(first[m], offset[m])
      BY ShardType, Zenon DEF TypeOK
    <3>2. PICK k0 \in BOOLEAN : k0 = lifecycle[m]
      BY Zenon DEF TypeOK
    <3>3. mpc[m] = "publish" /\ mpc' = [mpc EXCEPT ![m] = "queued"]
      BY <2>2, Zenon DEF Publish, Return
    <3>4. CASE k0
      <4>1. systemTasks' = [systemTasks EXCEPT ![q0] = Append(systemTasks[q0], m)] /\ tasks' = tasks
        BY <2>2, <3>1, <3>2, <3>4, Zenon DEF Publish
      <4>2. /\ Queue(k0, q0)' = Append(Queue(k0, q0), m)
            /\ \A k \in BOOLEAN, q \in Workers : <<k, q>> # <<k0, q0>> => Queue(k, q)' = Queue(k, q)
        BY <1>0, <3>4, <4>1, Zenon DEF Queue
      <4>3. QED BY <2>1, <3>3, <4>2, QueuedPut, Zenon
    <3>5. CASE ~k0
      <4>1. tasks' = [tasks EXCEPT ![q0] = Append(tasks[q0], m)] /\ systemTasks' = systemTasks
        BY <2>2, <3>1, <3>2, <3>5, Zenon DEF Publish
      <4>2. /\ Queue(k0, q0)' = Append(Queue(k0, q0), m)
            /\ \A k \in BOOLEAN, q \in Workers : <<k, q>> # <<k0, q0>> => Queue(k, q)' = Queue(k, q)
        BY <1>0, <3>5, <4>1, Zenon DEF Queue
      <4>3. QED BY <2>1, <3>3, <4>2, QueuedPut, Zenon
    <3>6. QED BY <3>4, <3>5, Zenon
  <2>3. CASE ~Publish(m)
    <3>1. UNCHANGED <<tasks, systemTasks>>
      BY <1>1, <2>3, Zenon DEF PublisherStep, ChooseWorker, TryAlternate, TryIdle,
         TryNextShard,
         PublishRefused, CapacityExceeded, poolVars, queueVars
    <3>2. mpc \in [Mailboxes -> MailboxPcs]
      BY Zenon DEF TypeOK
    <3>3. \A n \in Mailboxes : (mpc'[n] = "queued") <=> (mpc[n] = "queued")
      <4>1. CASE ChooseWorker(m) \/ TryAlternate(m)
        BY <3>2, <4>1, Zenon DEF ChooseWorker, TryAlternate, StartAt
      <4>2. CASE TryIdle(m)
        BY <3>2, <4>2, Zenon DEF TryIdle, StartAt
      <4>3. CASE TryNextShard(m)
        BY <4>3, Zenon DEF TryNextShard
      <4>4. CASE PublishRefused(m) \/ CapacityExceeded(m)
        BY <3>2, <4>4, Zenon DEF PublishRefused, CapacityExceeded, Return
      <4>5. QED BY <1>1, <2>3, <4>1, <4>2, <4>3, <4>4, Zenon DEF PublisherStep
    <3>4. QED BY <2>1, <3>1, <3>3, SameQueues, Zenon
  <2>4. QED BY <2>2, <2>3, Zenon
<1>2. ASSUME NEW w \in Workers, WorkerStep(w) PROVE QueuedOnce'
  <2>1. Alive # {}
    BY <1>2, WorkerFrame, Zenon
  <2>2. PICK q0 \in Workers : q0 = Shard(w, scan[w])
    BY ShardType, Zenon DEF TypeOK
  <2>3. CASE TakeSystem(w)
    <3>1. CASE systemTasks' = systemTasks /\ mpc' = mpc
      BY <2>1, <2>3, <3>1, TakeSystemCases, SameQueues, Zenon
    <3>2. CASE /\ systemTasks[q0] # <<>>
               /\ systemTasks' = [systemTasks EXCEPT ![q0] = Tail(systemTasks[q0])]
               /\ mpc' = [mpc EXCEPT ![Head(systemTasks[q0])] = "quiet"]
      <4>1. tasks' = tasks
        BY <2>3, Zenon DEF TakeSystem
      <4>2. /\ Queue(TRUE, q0) # <<>> /\ Queue(TRUE, q0)' = Tail(Queue(TRUE, q0))
            /\ mpc' = [mpc EXCEPT ![Head(Queue(TRUE, q0))] = "quiet"]
            /\ \A k \in BOOLEAN, q \in Workers : <<k, q>> # <<TRUE, q0>> => Queue(k, q)' = Queue(k, q)
        BY <1>0, <3>2, <4>1, Zenon DEF Queue
      <4>3. QED BY <2>1, <4>2, QueuedTake, Zenon
    <3>3. QED BY <2>2, <2>3, <3>1, <3>2, TakeSystemCases, Zenon
  <2>4. CASE TakeOrdinary(w)
    <3>1. CASE tasks' = tasks /\ mpc' = mpc
      BY <2>1, <2>4, <3>1, TakeOrdinaryCases, SameQueues, Zenon
    <3>2. CASE /\ tasks[q0] # <<>>
               /\ tasks' = [tasks EXCEPT ![q0] = Tail(tasks[q0])]
               /\ mpc' = [mpc EXCEPT ![Head(tasks[q0])] = "quiet"]
      <4>1. systemTasks' = systemTasks
        BY <2>4, Zenon DEF TakeOrdinary
      <4>2. /\ Queue(FALSE, q0) # <<>> /\ Queue(FALSE, q0)' = Tail(Queue(FALSE, q0))
            /\ mpc' = [mpc EXCEPT ![Head(Queue(FALSE, q0))] = "quiet"]
            /\ \A k \in BOOLEAN, q \in Workers : <<k, q>> # <<FALSE, q0>> => Queue(k, q)' = Queue(k, q)
        BY <1>0, <3>2, <4>1, Zenon DEF Queue
      <4>3. QED BY <2>1, <4>2, QueuedTake, Zenon
    <3>3. QED BY <2>2, <2>4, <3>1, <3>2, TakeOrdinaryCases, Zenon
  <2>5. CASE ~TakeSystem(w) /\ ~TakeOrdinary(w)
    BY <1>2, <2>1, <2>5, QuietWorker, SameQueues, Zenon DEF queueVars
  <2>6. QED BY <2>3, <2>4, <2>5, Zenon
<1>3. ASSUME StopperNext PROVE QueuedOnce'
  <2>1. Stopped /\ Alive = {} => Stopped' /\ Alive' = {}
    <3>1. CASE Start \/ StartWorker \/ Started \/ StopNew
      BY <3>1, Zenon DEF Start, StartWorker, Started, StopNew, StopperInv, Stopped
    <3>2. CASE StartFails \/ StopRunning \/ JoinTimesOut \/ WakeNext \/ Joined
               \/ Detach \/ Detached \/ SetStopped
      BY <3>2, Zenon DEF StartFails, StopRunning, JoinTimesOut, WakeNext, Joined,
         Detach,
         Detached, SetStopped, Stopped, Alive, poolVars, workerVars
    <3>3. QED BY <1>3, <3>1, <3>2, Zenon DEF StopperNext, StopperStep
  <2>2. CASE Detach
    <3>1. Stopped' /\ Alive' = {}
      BY <2>1, <2>2, Zenon DEF Detach, StopperInv, Stopped
    <3>2. ASSUME NEW k \in BOOLEAN, NEW q \in Workers
          PROVE  Queue(k, q)' = Queue(k, q) \/ Queue(k, q)' = <<>>
      BY <1>0, <2>2, Zenon DEF Detach, SystemDetached, Queue
    <3>3. ASSUME NEW k \in BOOLEAN, NEW q \in Workers, NEW i \in DOMAIN Queue(k, q)'
          PROVE  i \in DOMAIN Queue(k, q) /\ Queue(k, q)'[i] = Queue(k, q)[i]
      <4>1. DOMAIN <<>> = {}
        OBVIOUS
      <4>2. QED BY <3>2, <3>3, <4>1, Zenon
    <3>4. ~HeldTwice'
      BY <3>3 DEF QueuedOnce, HeldTwice
    <3>5. \A m \in Mailboxes : Held(m)' => Held(m)
      BY <3>3, ZenonT(60) DEF Held
    <3>6. mpc' = mpc
      BY <2>2, Zenon DEF Detach, publisherVars
    <3>7. QED BY <3>1, <3>4, <3>5, <3>6, Zenon DEF QueuedOnce
  <2>3. CASE ~Detach
    <3>1. UNCHANGED <<tasks, systemTasks, mpc>>
      BY <1>3, <2>3, Zenon DEF StopperNext, StopperStep, Start, StartFails, StopNew,
         StopRunning,
         JoinTimesOut, StartWorker, Started, WakeNext, Joined, Detached, SetStopped,
         poolVars, queueVars, publisherVars
    <3>2. QED BY <2>1, <3>1, SameQueues, Zenon
  <2>4. QED BY <2>2, <2>3, Zenon
<1>4. QED BY <1>1, <1>2, <1>3, Steps, Zenon

-----------------------------------------------------------------------------
\* The inductive invariant: the types, what the stopping thread has done, and
\* the three properties of the run.
IInv == TypeOK /\ StopperInv /\ WorkIsSignalled /\ StopWakesWorkers /\ QueuedOnce

\* A pool as __init__ leaves it satisfies the invariant.
LEMMA InitInv == Init => IInv
<1> SUFFICES ASSUME Init PROVE IInv
  BY Zenon
<1>1. 0 \in Workers /\ 0 \in 0..N
  BY WorkerPoolAssumption DEF Workers
<1>2. TypeOK
  <2>1. <<>> \in Seq(Mailboxes)
    OBVIOUS
  <2>2. state \in States /\ spc \in StopperPcs /\ "off" \in WorkerPcs /\ "quiet" \in MailboxPcs
    BY Zenon DEF Init, States, WorkerPcs, MailboxPcs, StopperPcs
  <2>3. tasks \in [Workers -> Seq(Mailboxes)] /\ systemTasks \in [Workers -> Seq(Mailboxes)]
    BY <2>1, Zenon DEF Init
  <2>4. /\ ready \in [Workers -> BOOLEAN] /\ wpc \in [Workers -> WorkerPcs]
        /\ round \in [Workers -> {1, 2}] /\ scan \in [Workers -> Nat]
    BY <2>2, Zenon DEF Init
  <2>5. /\ mpc \in [Mailboxes -> MailboxPcs] /\ lifecycle \in [Mailboxes -> BOOLEAN]
        /\ first \in [Mailboxes -> Workers] /\ offset \in [Mailboxes -> Nat]
    BY <1>1, <2>2, Zenon DEF Init
  <2>6. abort \in BOOLEAN /\ idle \subseteq Workers /\ systemCount \in Int /\ step \in 0..N
    <3>1. abort \in BOOLEAN
      BY Zenon DEF Init
    <3>2. idle \subseteq Workers
      BY Zenon DEF Init
    <3>3. systemCount \in Int /\ step \in 0..N
      BY <1>1 DEF Init
    <3>4. QED BY <3>1, <3>2, <3>3, Zenon
  <2>7. QED BY <2>2, <2>3, <2>4, <2>5, <2>6, Zenon DEF TypeOK
<1>3. StopperInv /\ StopWakesWorkers
  BY Zenon DEF Init, StopperInv, StopWakesWorkers, Stopped
<1>4. WorkIsSignalled
  BY Zenon DEF Init, WorkIsSignalled, Empty
<1>5. QueuedOnce
  <2>1. \A k \in BOOLEAN, q \in Workers : DOMAIN Queue(k, q) = {}
    BY DEF Init, Queue
  <2>2. ~HeldTwice /\ \A m \in Mailboxes : ~Held(m) /\ mpc[m] # "queued"
    BY <2>1, Zenon DEF Init, HeldTwice, Held
  <2>3. QED BY <2>2, Zenon DEF QueuedOnce
<1>6. QED BY <1>2, <1>3, <1>4, <1>5, Zenon DEF IInv

\* Every step of every thread preserves the invariant.
LEMMA NextInv == IInv /\ [Next]_vars => IInv'
<1>1. ASSUME IInv, Next PROVE IInv'
  <2>1. TypeOK'
    BY <1>1, Steps, TypePublisher, TypeWorker, TypeStopper, Zenon DEF IInv
  <2>2. QED BY <1>1, <2>1, StopperInvStep, SignalledStep, StopWakesStep, QueuedStep,
               Zenon DEF IInv
<1>2. ASSUME IInv, UNCHANGED vars PROVE IInv'
  <2>1. TypeOK' /\ StopperInv'
    BY <1>2, Zenon DEF IInv, TypeOK, StopperInv, Alive, vars, queueVars, workerVars,
       publisherVars, stopperVars
  <2>2. WorkIsSignalled' /\ StopWakesWorkers'
    BY <1>2, Zenon DEF IInv, WorkIsSignalled, Empty, StopWakesWorkers, Stopped, vars,
       queueVars, workerVars, stopperVars
  <2>3. QueuedOnce'
    BY <1>2, SameQueues, Zenon DEF IInv, Stopped, Alive, vars, queueVars, workerVars,
       publisherVars
  <2>4. QED BY <2>1, <2>2, <2>3, Zenon DEF IInv
<1>3. QED BY <1>1, <1>2, Zenon

\* The invariant holds in every state of every pool.
LEMMA InductiveInvariant == Spec => []IInv
BY InitInv, NextInv, PTL DEF Spec

\* The fields of the pool and the control of its threads keep their types.
THEOREM PoolTypeCorrect == Spec => []TypeOK
<1>1. IInv => TypeOK
  BY Zenon DEF IInv
<1>2. QED BY <1>1, InductiveInvariant, PTL

\* No lost wake-up, whatever the number of workers and whoever steals: a queue
\* with an activation in it has its ready event set.
THEOREM NoLostWakeUp == Spec => []WorkIsSignalled
<1>1. IInv => WorkIsSignalled
  BY Zenon DEF IInv
<1>2. QED BY <1>1, InductiveInvariant, PTL

\* A worker that goes to sleep while stop() begins has been woken, or will be
\* by the thread that is still going round the queues.
THEOREM NobodySleepsThroughStop == Spec => []StopWakesWorkers
<1>1. IInv => StopWakesWorkers
  BY Zenon DEF IInv
<1>2. QED BY <1>1, InductiveInvariant, PTL

\* An activation that dispatch() accepted is in exactly one place until a
\* worker takes it or the ended pool abandons it, and no other is in any.
THEOREM AcceptedInOnePlace == Spec => []QueuedOnce
<1>1. IInv => QueuedOnce
  BY Zenon DEF IInv
<1>2. QED BY <1>1, InductiveInvariant, PTL
=============================================================================
