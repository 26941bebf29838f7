----------------------------- MODULE WorkerPool -----------------------------
(***************************************************************************)
(* The dispatcher: movie/dispatch/worker_pool.py.  A pool of workers, one  *)
(* queue of activations per worker, sharded capacity, work stealing, a     *)
(* priority class for lifecycle activations, and a bounded shutdown.       *)
(*                                                                         *)
(* The tasks are the activations of mailboxes (Mailbox.tla): a mailbox has *)
(* at most one activation queued or being published, and publishes the     *)
(* next while a worker may still be running the last.  Every action is one *)
(* critical section of a lock, with the reads before it whose outcome does *)
(* not change until then, or one read of an Event outside the locks.       *)
(***************************************************************************)
EXTENDS Naturals, Sequences, FiniteSets

CONSTANTS
    N,                \* _worker_count
    Mailboxes,        \* what publishes activations
    QueueCapacity,    \* queue-capacity, over all shards
    SystemCapacity,   \* system-queue-capacity, over all shards
    StopTimesOut      \* may stop() miss its deadline

Workers == 0..(N - 1)

ASSUME WorkerPoolAssumption ==
    /\ N \in Nat \ {0}
    /\ QueueCapacity \in Nat \ {0}
    /\ SystemCapacity \in Nat \ {0}
    /\ IsFiniteSet(Mailboxes)
    /\ StopTimesOut \in BOOLEAN

VARIABLES
    state,            \* _state
    abort,            \* _abort
    tasks,            \* WorkQueue.tasks
    systemTasks,      \* WorkQueue.system_tasks
    ready,            \* WorkQueue.ready
    idle,             \* _idle_workers (and _idle_available: not empty)
    systemCount,      \* _system_count (and _system_available: not zero)
    wpc, round, scan, \* workers: control, pass of next_task, queue offset
    mpc, lifecycle,   \* publishers: control, class of the activation
    first, offset,    \* publishers: first shard tried, offset from it
    spc, step         \* the thread that starts and stops the pool

queueVars == <<tasks, systemTasks, ready>>
workerVars == <<wpc, round, scan>>
publisherVars == <<mpc, lifecycle, first, offset>>
stopperVars == <<spc, step>>
poolVars == <<state, abort, queueVars, idle, systemCount>>
callerVars == <<publisherVars, stopperVars>>
vars == <<state, abort, queueVars, idle, systemCount, workerVars, publisherVars,
          stopperVars>>

\* __init__: divmod spreads the capacities over the shards.
Share(total, q) == (total \div N) + (IF q < total % N THEN 1 ELSE 0)

Shard(w, k) == (w + k) % N

Init ==
    /\ state = "NEW" /\ abort = FALSE
    /\ tasks = [q \in Workers |-> <<>>]
    /\ systemTasks = [q \in Workers |-> <<>>]
    /\ ready = [q \in Workers |-> FALSE]
    /\ idle = {} /\ systemCount = 0
    /\ wpc = [w \in Workers |-> "off"]
    /\ round = [w \in Workers |-> 1]
    /\ scan = [w \in Workers |-> 0]
    /\ mpc = [m \in Mailboxes |-> "quiet"]
    /\ lifecycle = [m \in Mailboxes |-> FALSE]
    /\ first = [m \in Mailboxes |-> 0]
    /\ offset = [m \in Mailboxes |-> 0]
    /\ spc = "new" /\ step = 0

(***************************************************************************)
(* Publishing: _choose_worker, then _publish, one shard at a time.         *)
(***************************************************************************)
Alternate(w) == (w + 1) % N

\* Worker._busy is set around the task only, not while one is being taken.
Busy(w) == wpc[w] = "run"

\* Where a publication starts: each publishing thread goes round the workers
\* from a place of its own, exchanges a busy worker for the next one, and two
\* busy workers for an idle one; the three are looked at one after the other, and
\* the first of them once more before the idle ones.
StartAt(m, w, pc) ==
    /\ first' = [first EXCEPT ![m] = w]
    /\ mpc' = [mpc EXCEPT ![m] = pc]

ChooseWorker(m) ==
    /\ mpc[m] = "quiet"
    /\ \E system \in BOOLEAN : lifecycle' = [lifecycle EXCEPT ![m] = system]
    /\ \E w \in Workers : StartAt(m, w, IF Busy(w) THEN "alternate" ELSE "publish")
    /\ UNCHANGED <<poolVars, offset, workerVars, stopperVars>>

TryAlternate(m) ==
    LET w == first[m] IN
    /\ mpc[m] = "alternate"
    /\ IF Busy(Alternate(w)) THEN StartAt(m, w, "tryIdle")
                             ELSE StartAt(m, Alternate(w), "publish")
    /\ UNCHANGED <<poolVars, lifecycle, offset, workerVars, stopperVars>>

TryIdle(m) ==
    /\ mpc[m] = "tryIdle"
    /\ \/ /\ idle = {} \/ ~Busy(first[m])
          /\ StartAt(m, first[m], "publish")
          /\ UNCHANGED idle
       \/ \E v \in idle : StartAt(m, v, "publish") /\ idle' = idle \ {v}
    /\ UNCHANGED <<state, abort, queueVars, systemCount, lifecycle, offset,
                   workerVars, stopperVars>>

HasRoom(q, system) ==
    IF system THEN Len(systemTasks[q]) < Share(SystemCapacity, q)
              ELSE Len(tasks[q]) < Share(QueueCapacity, q)

Empty(q) == tasks[q] = <<>> /\ systemTasks[q] = <<>>

\* was_empty: the publication has to wake the owner of the queue.
Wakes(m, q) == Empty(q)

Return(m, pc) ==
    /\ mpc' = [mpc EXCEPT ![m] = pc]
    /\ lifecycle' = [lifecycle EXCEPT ![m] = FALSE]
    /\ first' = [first EXCEPT ![m] = 0]
    /\ offset' = [offset EXCEPT ![m] = 0]

Publish(m) ==
    LET q == Shard(first[m], offset[m]) IN
    /\ mpc[m] = "publish"
    /\ state = "RUNNING"
    /\ HasRoom(q, lifecycle[m])
    /\ IF lifecycle[m]
         THEN /\ systemTasks' = [systemTasks EXCEPT ![q] = Append(@, m)]
              /\ systemCount' = systemCount + 1
              /\ UNCHANGED tasks
         ELSE /\ tasks' = [tasks EXCEPT ![q] = Append(@, m)]
              /\ UNCHANGED <<systemTasks, systemCount>>
    /\ ready' = IF Wakes(m, q) THEN [ready EXCEPT ![q] = TRUE] ELSE ready
    /\ Return(m, "queued")
    /\ UNCHANGED <<state, abort, idle, workerVars, stopperVars>>

\* This shard is full: try the next one.
TryNextShard(m) ==
    /\ mpc[m] = "publish"
    /\ state = "RUNNING"
    /\ ~HasRoom(Shard(first[m], offset[m]), lifecycle[m])
    /\ offset[m] + 1 < N
    /\ offset' = [offset EXCEPT ![m] = @ + 1]
    /\ UNCHANGED <<poolVars, workerVars, mpc, lifecycle, first, stopperVars>>

\* "Dispatcher is not accepting tasks": the caller keeps its task.
PublishRefused(m) ==
    /\ mpc[m] = "publish"
    /\ state # "RUNNING"
    /\ Return(m, "quiet")
    /\ UNCHANGED <<poolVars, workerVars, stopperVars>>

\* DispatcherCapacityExceeded: the last shard is full as well.
CapacityExceeded(m) ==
    /\ mpc[m] = "publish"
    /\ state = "RUNNING"
    /\ ~HasRoom(Shard(first[m], offset[m]), lifecycle[m])
    /\ offset[m] + 1 = N
    /\ Return(m, "quiet")
    /\ UNCHANGED <<poolVars, workerVars, stopperVars>>

(***************************************************************************)
(* Workers: Worker.run around next_task, which scans all queues twice, the *)
(* second time as an idle worker, before it sleeps on its own queue.       *)
(***************************************************************************)
Goto(w, pc) == wpc' = [wpc EXCEPT ![w] = pc]

\* The top of next_task's loop.
Loop(w) ==
    /\ wpc[w] = "loop"
    /\ Goto(w, IF abort THEN "exited" ELSE "flag")
    /\ round' = [round EXCEPT ![w] = 1]
    /\ UNCHANGED <<poolVars, scan, callerVars>>

\* _take_available reads _system_available before it scans for lifecycle work.
ReadSystemFlag(w) ==
    /\ wpc[w] = "flag"
    /\ Goto(w, IF systemCount > 0 THEN "system" ELSE "ordinary")
    /\ UNCHANGED <<poolVars, round, scan, callerVars>>

\* WorkQueue.take_system and take_ordinary: the owner of a queue it leaves
\* empty clears the queue's ready event.
LeftWithoutOrdinary(q) == tasks'[q] = <<>>
LeftEmpty(q) == tasks'[q] = <<>> /\ systemTasks'[q] = <<>>

AfterTake(w, q) ==
    ready' = IF q = w /\ LeftEmpty(q) THEN [ready EXCEPT ![q] = FALSE] ELSE ready

\* popleft
PeekShard(queue, q) == queue
PopShard(queue, q) == [queue EXCEPT ![q] = Tail(@)]

\* A task that was taken is no longer queued: its mailbox may publish again.
Took(m) == mpc' = [mpc EXCEPT ![m] = "quiet"]

\* An empty shard: on to the next, and after the last to what follows the scan.
MoreShards(w) == scan[w] + 1 < N

ScanOn(w, after) ==
    /\ IF MoreShards(w)
         THEN scan' = [scan EXCEPT ![w] = @ + 1] /\ UNCHANGED wpc
         ELSE scan' = [scan EXCEPT ![w] = 0] /\ Goto(w, after)
    /\ UNCHANGED mpc

TakeSystem(w) ==
    LET q == Shard(w, scan[w]) IN
    /\ wpc[w] = "system"
    /\ IF systemTasks[q] # <<>>
         THEN /\ systemTasks' = PopShard(systemTasks, q)
              /\ Took(Head(systemTasks[q]))
              /\ Goto(w, "count")
              /\ scan' = [scan EXCEPT ![w] = 0]
         ELSE ScanOn(w, "ordinary") /\ UNCHANGED systemTasks
    /\ UNCHANGED tasks
    /\ AfterTake(w, q)
    /\ UNCHANGED <<state, abort, idle, systemCount, round, lifecycle, first,
                   offset, stopperVars>>

\* The count is corrected after the queue's lock has been released.
CountSystem(w) ==
    /\ wpc[w] = "count"
    /\ systemCount' = systemCount - 1
    /\ Goto(w, "taken")
    /\ UNCHANGED <<state, abort, queueVars, idle, round, scan, callerVars>>

TakeOrdinary(w) ==
    LET q == Shard(w, scan[w]) IN
    /\ wpc[w] = "ordinary"
    /\ IF tasks[q] # <<>>
         THEN /\ tasks' = PopShard(tasks, q)
              /\ Took(Head(tasks[q]))
              /\ Goto(w, "taken")
              /\ scan' = [scan EXCEPT ![w] = 0]
         ELSE ScanOn(w, "check") /\ UNCHANGED tasks
    /\ UNCHANGED systemTasks
    /\ AfterTake(w, q)
    /\ UNCHANGED <<state, abort, idle, systemCount, round, lifecycle, first,
                   offset, stopperVars>>

\* _mark_active, on the three ways out of the second pass.
WithoutIdle(w) == idle \ {w}

MarkActive(w) ==
    /\ idle' = WithoutIdle(w)
    /\ round' = [round EXCEPT ![w] = 1]

\* Nothing found: leave if the pool is stopping, otherwise look once more as an
\* idle worker, and then sleep.  A pool that is stopping stays so.
Stopped == state \in {"STOPPING", "STOPPED"}

CheckState(w) ==
    /\ wpc[w] = "check"
    /\ Goto(w, IF Stopped THEN "exited" ELSE IF round[w] = 1 THEN "markIdle" ELSE "wait")
    /\ IF Stopped /\ round[w] = 2 THEN MarkActive(w) ELSE UNCHANGED <<idle, round>>
    /\ UNCHANGED <<state, abort, queueVars, systemCount, scan, callerVars>>

MarkIdle(w) ==
    /\ wpc[w] = "markIdle"
    /\ idle' = idle \cup {w}
    /\ round' = [round EXCEPT ![w] = 2]
    /\ Goto(w, "flag")
    /\ UNCHANGED <<state, abort, queueVars, systemCount, scan, callerVars>>

\* Nobody but w clears the event it was woken by.
Wait(w) ==
    /\ wpc[w] = "wait"
    /\ ready[w]
    /\ MarkActive(w)
    /\ Goto(w, "loop")
    /\ UNCHANGED <<state, abort, queueVars, systemCount, scan, callerVars>>

TakenWhileIdle(w) ==
    /\ wpc[w] = "taken" /\ round[w] = 2
    /\ MarkActive(w)
    /\ UNCHANGED <<state, abort, queueVars, systemCount, wpc, scan, callerVars>>

RunTask(w) ==
    /\ wpc[w] = "taken" /\ round[w] = 1
    /\ Goto(w, "run")
    /\ UNCHANGED <<poolVars, round, scan, callerVars>>

\* The task has returned or raised; either is logged at most.
FinishTask(w) ==
    /\ wpc[w] = "run"
    /\ Goto(w, "loop")
    /\ UNCHANGED <<poolVars, round, scan, callerVars>>

WorkerStep(w) ==
    \/ Loop(w) \/ ReadSystemFlag(w) \/ TakeSystem(w) \/ CountSystem(w)
    \/ TakeOrdinary(w) \/ CheckState(w) \/ MarkIdle(w) \/ Wait(w)
    \/ TakenWhileIdle(w) \/ RunTask(w) \/ FinishTask(w)

(***************************************************************************)
(* start and stop, serialised by _lifecycle_lock; _set_state holds every   *)
(* queue's lock, so that no publication is half done when it takes effect. *)
(***************************************************************************)
Stopper(pc, k) == spc' = pc /\ step' = k

Start ==
    /\ spc = "new"
    /\ state' = "STARTING"
    /\ Stopper("starting", 0)
    /\ UNCHANGED <<abort, queueVars, idle, systemCount, workerVars,
                   publisherVars>>

StartWorker ==
    /\ spc = "starting" /\ step < N
    /\ Goto(step, "loop")
    /\ Stopper("starting", step + 1)
    /\ UNCHANGED <<poolVars, round, scan, publisherVars>>

Started ==
    /\ spc = "starting" /\ step = N
    /\ state' = "RUNNING"
    /\ Stopper("started", 0)
    /\ UNCHANGED <<abort, queueVars, idle, systemCount, workerVars,
                   publisherVars>>

\* A thread that cannot be created: the ones already started are called back.
StartFails ==
    /\ spc = "starting" /\ step < N
    /\ abort' = TRUE
    /\ state' = "STOPPING"
    /\ Stopper("wakeStarted", 0)
    /\ UNCHANGED <<queueVars, idle, systemCount, workerVars, publisherVars>>

StopNew ==
    /\ spc = "new"
    /\ state' = "STOPPED"
    /\ Stopper("stopped", 0)
    /\ UNCHANGED <<abort, queueVars, idle, systemCount, workerVars,
                   publisherVars>>

StopRunning ==
    /\ spc = "started"
    /\ state' = "STOPPING"
    /\ Stopper("wake", 0)
    /\ UNCHANGED <<abort, queueVars, idle, systemCount, workerVars,
                   publisherVars>>

\* _wake_all, queue by queue and without their locks.
AfterWake == CASE spc = "wake" -> "join"
               [] spc = "wakeAborted" -> "join"
               [] spc = "wakeStarted" -> "joinStarted"

LeaveAsleep(q) == ready
WakeUp(q) == [ready EXCEPT ![q] = TRUE]

WakeNext ==
    /\ spc \in {"wake", "wakeAborted", "wakeStarted"}
    /\ ready' = WakeUp(step)
    /\ IF step + 1 < N THEN Stopper(spc, step + 1) ELSE Stopper(AfterWake, 0)
    /\ UNCHANGED <<state, abort, tasks, systemTasks, idle, systemCount,
                   workerVars, publisherVars>>

Alive == {w \in Workers : wpc[w] \notin {"off", "exited"}}

Joined ==
    /\ spc = "join" /\ Alive = {}
    /\ Stopper("detach", 0)
    /\ UNCHANGED <<poolVars, workerVars, publisherVars>>

\* The deadline passes with a worker alive: TimeoutError, and from here on the
\* workers leave without draining.  The next call of stop(), whenever it comes,
\* joins them again.
JoinTimesOut ==
    /\ StopTimesOut
    /\ spc = "join" /\ Alive # {}
    /\ abort' = TRUE
    /\ Stopper("wakeAborted", 0)
    /\ UNCHANGED <<state, queueVars, idle, systemCount, workerVars,
                   publisherVars>>

\* _detach_abandoned_tasks, shard by shard, and then the count.
SystemDetached(q) == [systemTasks EXCEPT ![q] = <<>>]

Detach ==
    /\ spc = "detach" /\ step < N
    /\ tasks' = [tasks EXCEPT ![step] = <<>>]
    /\ systemTasks' = SystemDetached(step)
    /\ ready' = [ready EXCEPT ![step] = FALSE]
    /\ Stopper("detach", step + 1)
    /\ UNCHANGED <<state, abort, idle, systemCount, workerVars, publisherVars>>

CountReset == 0

Detached ==
    /\ spc = "detach" /\ step = N
    /\ systemCount' = CountReset
    /\ Stopper("setStopped", 0)
    /\ UNCHANGED <<state, abort, queueVars, idle, workerVars, publisherVars>>

\* The rollback of a failed start joins for a bounded time and sets STOPPED
\* whether or not the workers have left; stop may miss its deadline here too.
SetStopped ==
    /\ \/ spc \in {"setStopped", "joinStarted"} /\ state' = "STOPPED"
                                              /\ Stopper("stopped", 0)
       \/ spc = "setStopped" /\ UNCHANGED state /\ Stopper("join", 0)
    /\ UNCHANGED <<abort, queueVars, idle, systemCount, workerVars,
                   publisherVars>>

StopperStep ==
    \/ StartWorker \/ Started \/ WakeNext \/ Joined \/ Detach \/ Detached
    \/ SetStopped

PublisherStep(m) ==
    \/ TryAlternate(m) \/ TryIdle(m)
    \/ Publish(m) \/ TryNextShard(m) \/ PublishRefused(m) \/ CapacityExceeded(m)

Next ==
    \/ \E m \in Mailboxes : ChooseWorker(m) \/ PublisherStep(m)
    \/ \E w \in Workers : WorkerStep(w)
    \/ Start \/ StartFails \/ StopNew \/ StopRunning \/ JoinTimesOut \/ StopperStep

Spec == Init /\ [][Next]_vars

-----------------------------------------------------------------------------
(***************************************************************************)
(* Properties.                                                             *)
(***************************************************************************)

\* A shard's queue of lifecycle activations, or of ordinary ones.
Queue(system, q) == IF system THEN systemTasks[q] ELSE tasks[q]

HeldTwice == \E k, l \in BOOLEAN, q, r \in Workers :
    \E i \in DOMAIN Queue(k, q), j \in DOMAIN Queue(l, r) :
       Queue(k, q)[i] = Queue(l, r)[j] /\ <<k, q, i>> # <<l, r, j>>

Held(m) == \E k \in BOOLEAN, q \in Workers : \E i \in DOMAIN Queue(k, q) : Queue(k, q)[i] = m

\* Publishing, stealing and taking move an activation without duplicating or
\* dropping it: until an ended pool abandons its queues, one place holds an
\* activation that dispatch() accepted, and none holds any other.
QueuedOnce ==
    /\ ~HeldTwice
    /\ \A m \in Mailboxes :
          IF mpc[m] = "queued" THEN Held(m) \/ (Stopped /\ Alive = {}) ELSE ~Held(m)

\* No lost wake-up: a queue with work in it has its ready event set, although
\* thieves empty queues without clearing it and only the owner clears it, so
\* that no owner sleeps on work and every queued activation is taken.
WorkIsSignalled == \A q \in Workers : Empty(q) \/ ready[q]

\* README: "Bounded actor-system and dispatcher shutdown": a worker that found
\* no work and the pool running just before stop() does not sleep through it.
StopWakesWorkers ==
    Stopped => \A w \in Workers :
                  wpc[w] = "wait" =>
                     \/ ready[w]
                     \/ spc \in {"wake", "wakeStarted"} /\ step <= w

\* The next two are what a test's name and the README claim; neither holds
\* (README.md beside this module says why).
\* tests/test_worker_pool.py: "rejects_new_work_while_draining_accepted_work":
\* a stop() that returns without a timeout has run what dispatch() accepted.
AcceptedIsDrained ==
    spc = "stopped" /\ ~abort => \A m \in Mailboxes : mpc[m] # "queued"

\* README: the default capacities are "ensuring one reserved lifecycle
\* activation per actor": with no more mailboxes than system capacity, a
\* lifecycle activation is never refused for capacity.
LifecycleIsReserved ==
    [][\A m \in Mailboxes :
          lifecycle[m] /\ Cardinality(Mailboxes) <= SystemCapacity => ~CapacityExceeded(m)]_vars
=============================================================================
