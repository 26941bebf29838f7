------------------------------- MODULE Mailbox -------------------------------
(***************************************************************************)
(* One actor's mailbox: movie/mailbox/default.py (DefaultMailbox) behind   *)
(* the actor cell of movie/actor/impl/ref.py, driven by the threads that   *)
(* send to the actor and by the dispatcher workers that run it.            *)
(*                                                                         *)
(* Every action is one critical section of the code, or one call that the  *)
(* code makes outside its locks (dispatcher.dispatch, one behavior         *)
(* invocation), so that every interleaving the locks allow is a behaviour. *)
(* The dispatcher is seen from the mailbox: a count of queued activations, *)
(* ordinary publication that may be refused for lack of capacity, priority *)
(* publication that is refused only once the dispatcher has stopped.       *)
(* WorkerPool.tla models the dispatcher itself.                            *)
(***************************************************************************)
EXTENDS Naturals, Sequences

CONSTANTS
    Threads,      \* threads that send to the actor
    Spawner,      \* the one that spawned it and sends it PreStart
    Workers,      \* dispatcher workers
    Traffic,      \* Traffic[t]: the kinds of message thread t may send
    MaxSends,     \* bound: messages per thread
    Capacity,     \* _capacity
    Throughput    \* _throughput

\* "tell" and "remote" are user messages: LocalActorRef.tell and
\* admit_remote_message; "Resume" stands for the control messages.
UserKinds == {"tell", "remote"}
SystemKinds == {"PreStart", "Stop", "Restart", "Terminated", "Resume"}
Kinds == UserKinds \cup SystemKinds

ASSUME MailboxAssumption ==
    /\ Spawner \in Threads
    /\ Traffic \in [Threads -> SUBSET Kinds]
    /\ MaxSends \in Nat \ {0}
    /\ Capacity \in Nat \ {0}
    /\ Throughput \in Nat \ {0}

VARIABLES
    messages, system,        \* _messages, _system_messages
    inFlight,                \* _in_flight_user_messages
    scheduled, running,      \* _scheduled, _running
    inline,                  \* _inline_run_requested
    accepting, closed,       \* _accepting_user_messages, _closed
    cellAccepting,           \* ActorCell._accepting_user_messages
    cellClosed,              \* ActorCell._closed
    up,                      \* the dispatcher is RUNNING
    activations,             \* activations of this mailbox in its queues
    actor, suspended,        \* ActorState, _user_messages_suspended
    restarting,              \* _restart_pending
    tpc, sent, current,      \* sending threads: control, count, message
    wpc, batch, systemBatch, \* workers: control, rest of the batch, its source
    told,                    \* what the sender of a user message was told
    invoked,                 \* user messages the behavior was invoked with
    deadLetters,             \* user messages published as dead letters
    discarded                \* user messages dropped by a stopping actor

mailboxVars == <<messages, system, inFlight, scheduled, running, inline,
                 accepting, closed>>
cellVars == <<cellAccepting, cellClosed>>
dispatcherVars == <<up, activations>>
actorVars == <<actor, suspended, restarting>>
threadVars == <<tpc, sent, current>>
workerVars == <<wpc, batch, systemBatch>>
historyVars == <<told, invoked, deadLetters, discarded>>
vars == <<mailboxVars, cellVars, dispatcherVars, actorVars, threadVars,
          workerVars, historyVars>>

Message == [from : Threads, n : 1..MaxSends, kind : Kinds]
IsUser(m) == m.kind \in UserKinds
UserMessage == {m \in Message : IsUser(m)}

\* A deque holds raw messages and, for the one that scheduled the mailbox,
\* the _Entry that wraps it until a batch extracts it.
Item == [msg : Message, entry : BOOLEAN]
Raw(m) == [msg |-> m, entry |-> FALSE]
Entry(m) == [msg |-> m, entry |-> TRUE]
Unwrap(items) == [i \in DOMAIN items |-> items[i].msg]
Wrap(ms) == [i \in DOMAIN ms |-> Raw(ms[i])]
MessagesOf(q) == {q[i].msg : i \in DOMAIN q}

PreStart == [from |-> Spawner, n |-> 1, kind |-> "PreStart"]
OwnStop == [from |-> Spawner, n |-> 1, kind |-> "Stop"]
NoMessage == PreStart

\* LocalActorContext.can_process_user_messages
CanProcess == actor = "RUNNING" /\ ~suspended

Init ==
    /\ messages = <<>> /\ system = <<>> /\ inFlight = 0
    /\ scheduled = FALSE /\ running = FALSE /\ inline = FALSE
    /\ accepting = TRUE /\ closed = FALSE
    /\ cellAccepting = TRUE /\ cellClosed = FALSE
    /\ up = TRUE /\ activations = 0
    /\ actor = "STARTING" /\ suspended = FALSE /\ restarting = FALSE
    /\ tpc = [t \in Threads |-> IF t = Spawner THEN "enqueue" ELSE "idle"]
    /\ sent = [t \in Threads |-> IF t = Spawner THEN 1 ELSE 0]
    /\ current = [t \in Threads |-> NoMessage]
    /\ wpc = [w \in Workers |-> "idle"]
    /\ batch = [w \in Workers |-> <<>>]
    /\ systemBatch = [w \in Workers |-> FALSE]
    /\ told = [m \in UserMessage |-> "nothing"]
    /\ invoked = {} /\ deadLetters = {} /\ discarded = {}

(***************************************************************************)
(* ActorCell: the flags a sender reads before it reaches the mailbox.      *)
(***************************************************************************)

\* ActorCell.tell, admit and tell_system, with the dead letter that
\* LocalActorRef.tell and admit_remote_message publish for a refusal.
Tell(t) ==
    /\ tpc[t] = "idle"
    /\ sent[t] < MaxSends
    /\ sent' = [sent EXCEPT ![t] = @ + 1]
    /\ \E k \in Traffic[t] :
         LET m == [from |-> t, n |-> sent[t] + 1, kind |-> k]
             refused == cellClosed \/ (IsUser(m) /\ ~cellAccepting)
         IN  /\ current' = [current EXCEPT ![t] = m]
             /\ tpc' = [tpc EXCEPT ![t] = IF refused THEN "idle" ELSE "enqueue"]
             /\ deadLetters' =
                  IF refused /\ IsUser(m) THEN deadLetters \cup {m} ELSE deadLetters
    /\ UNCHANGED <<mailboxVars, cellVars, dispatcherVars, actorVars, workerVars,
                   told, invoked, discarded>>

\* Reporting to the sender of a user message; a system send has no report.
Report(t, what) ==
    told' = IF IsUser(current[t]) THEN [told EXCEPT ![current[t]] = what] ELSE told

\* The exception of a failed PreStart makes ActorRegistry.spawn abort the start.
AfterRaise(t) == IF current[t] = PreStart THEN "abort" ELSE "idle"

(***************************************************************************)
(* DefaultMailbox._enqueue: the critical section that admits a message,    *)
(* one action for each way out of it.                                      *)
(***************************************************************************)
Stopping(m) == closed \/ (IsUser(m) /\ ~accepting)
FullWithoutInFlight(m) == IsUser(m) /\ Len(messages) >= Capacity
Full(m) == IsUser(m) /\ Len(messages) + inFlight >= Capacity
Queued(m) == scheduled \/ (IsUser(m) /\ ~CanProcess)

Put(m, item) ==
    IF IsUser(m)
      THEN messages' = Append(messages, item) /\ UNCHANGED system
      ELSE system' = Append(system, item) /\ UNCHANGED messages

\* STOPPING: send ignores the result, try_send hands it to the remote caller,
\* which publishes the dead letter.
EnqueueStopping(t) ==
    LET m == current[t] IN
    /\ tpc[t] = "enqueue"
    /\ Stopping(m)
    /\ tpc' = [tpc EXCEPT ![t] = "idle"]
    /\ Report(t, IF m.kind = "remote" THEN "refused" ELSE "returned")
    /\ deadLetters' =
         IF m.kind = "remote" THEN deadLetters \cup {m} ELSE deadLetters
    /\ UNCHANGED <<mailboxVars, cellVars, dispatcherVars, actorVars, sent,
                   current, workerVars, invoked, discarded>>

\* FULL or MailboxCapacityExceeded: both callers publish a dead letter.
EnqueueFull(t) ==
    LET m == current[t] IN
    /\ tpc[t] = "enqueue"
    /\ ~Stopping(m) /\ Full(m)
    /\ tpc' = [tpc EXCEPT ![t] = "idle"]
    /\ Report(t, "refused")
    /\ deadLetters' = deadLetters \cup {m}
    /\ UNCHANGED <<mailboxVars, cellVars, dispatcherVars, actorVars, sent,
                   current, workerVars, invoked, discarded>>

\* Somebody owns an activation, or the actor takes no user message now.
EnqueueQueued(t) ==
    LET m == current[t] IN
    /\ tpc[t] = "enqueue"
    /\ ~Stopping(m) /\ ~Full(m) /\ Queued(m)
    /\ Put(m, Raw(m))
    /\ tpc' = [tpc EXCEPT ![t] = "idle"]
    /\ Report(t, "accepted")
    /\ UNCHANGED <<inFlight, scheduled, running, inline, accepting, closed,
                   cellVars, dispatcherVars, actorVars, sent, current,
                   workerVars, invoked, deadLetters, discarded>>

\* This thread schedules the mailbox and has to publish the activation.
EnqueueScheduled(t) ==
    LET m == current[t] IN
    /\ tpc[t] = "enqueue"
    /\ ~Stopping(m) /\ ~Full(m) /\ ~Queued(m)
    /\ Put(m, Entry(m))
    /\ scheduled' = TRUE
    /\ tpc' = [tpc EXCEPT ![t] = "dispatch"]
    /\ UNCHANGED <<inFlight, running, inline, accepting, closed, cellVars,
                   dispatcherVars, actorVars, sent, current, workerVars,
                   historyVars>>

(***************************************************************************)
(* _enqueue, outside the lock: publish the activation, or take the         *)
(* scheduling back under the lock and re-publish it for whoever queued a   *)
(* message meanwhile.                                                      *)
(***************************************************************************)
Dispatch(t) ==
    /\ tpc[t] = "dispatch"
    /\ up
    /\ activations' = activations + 1
    /\ tpc' = [tpc EXCEPT ![t] = "idle"]
    /\ Report(t, "accepted")
    /\ UNCHANGED <<mailboxVars, cellVars, up, actorVars, sent, current,
                   workerVars, invoked, deadLetters, discarded>>

\* DispatcherCapacityExceeded, or "Dispatcher is not accepting tasks".
DispatchRefused(t) ==
    /\ tpc[t] = "dispatch"
    /\ tpc' = [tpc EXCEPT ![t] = "rollback"]
    /\ UNCHANGED <<mailboxVars, cellVars, dispatcherVars, actorVars, sent,
                   current, workerVars, historyVars>>

\* A refused user message is reported: tell lets the exception out, and
\* try_send turns it into FULL, for which a dead letter is published.
Refuse(t) ==
    /\ Report(t, "refused")
    /\ deadLetters' = IF current[t].kind = "remote"
                        THEN deadLetters \cup {current[t]} ELSE deadLetters

\* target.remove(entry)
WithoutKept(q, item) == q
Without(q, item) ==
    LET k == CHOOSE i \in DOMAIN q : q[i] = item
    IN  SubSeq(q, 1, k - 1) \o SubSeq(q, k + 1, Len(q))

Rollback(t) ==
    LET m == current[t]
        target == IF IsUser(m) THEN messages ELSE system
        found == \E i \in DOMAIN target : target[i] = Entry(m)
    IN  /\ tpc[t] = "rollback"
        /\ messages' = IF found /\ IsUser(m) THEN Without(messages, Entry(m))
                                          ELSE messages
        /\ IF found /\ (system # <<>> \/ messages' # <<>>)
             THEN /\ scheduled' = TRUE
                  /\ tpc' = [tpc EXCEPT ![t] = "fallback"]
                  /\ UNCHANGED <<told, deadLetters>>
             ELSE /\ scheduled' = (scheduled /\ ~found)
                  /\ tpc' = [tpc EXCEPT ![t] = AfterRaise(t)]
                  /\ Refuse(t)
        /\ UNCHANGED <<system, inFlight, running, inline, accepting, closed,
                       cellVars, dispatcherVars, actorVars, sent, current,
                       workerVars, invoked, discarded>>

\* dispatch_system: a lifecycle message counts as accepted, a user message
\* re-raises the refusal.
Fallback(t) ==
    /\ tpc[t] = "fallback"
    /\ up
    /\ activations' = activations + 1
    /\ tpc' = [tpc EXCEPT ![t] = "idle"]
    /\ Refuse(t)
    /\ UNCHANGED <<mailboxVars, cellVars, up, actorVars, sent, current,
                   workerVars, invoked, discarded>>

FallbackFails(t) ==
    /\ tpc[t] = "fallback"
    /\ ~up
    /\ tpc' = [tpc EXCEPT ![t] = AfterRaise(t)]
    /\ Refuse(t)
    /\ UNCHANGED <<mailboxVars, cellVars, dispatcherVars, actorVars, sent,
                   current, workerVars, invoked, discarded>>

(***************************************************************************)
(* Closing the inbox: the cell's flags, then the mailbox, each under its   *)
(* own lock, first for user messages and later for all of them.            *)
(***************************************************************************)
CellStopUserMessages == cellAccepting' = FALSE /\ UNCHANGED cellClosed
CellClose == cellAccepting' = FALSE /\ cellClosed' = TRUE

\* stop_user_messages, whose result LocalActorRef publishes as dead letters.
StopUserMessages ==
    /\ accepting' = FALSE
    /\ messages' = <<>>
    /\ deadLetters' = deadLetters \cup MessagesOf(messages)
    /\ UNCHANGED <<system, inFlight, scheduled, running, inline, closed>>

Close ==
    /\ accepting' = FALSE /\ closed' = TRUE
    /\ messages' = <<>> /\ system' = <<>> /\ inFlight' = 0
    /\ UNCHANGED <<scheduled, running, inline>>

\* LocalActorContext.abort_start on the spawning thread: FAILED, then
\* _complete_stop with its two rounds of closing.
AbortStart(t) ==
    /\ tpc[t] = "abort"
    /\ actor' = "STOPPED"
    /\ CellStopUserMessages
    /\ tpc' = [tpc EXCEPT ![t] = "abortStop"]
    /\ UNCHANGED <<mailboxVars, dispatcherVars, suspended, restarting, sent,
                   current, workerVars, historyVars>>

AbortStop(t) ==
    /\ tpc[t] = "abortStop"
    /\ StopUserMessages
    /\ tpc' = [tpc EXCEPT ![t] = "abortCell"]
    /\ UNCHANGED <<cellVars, dispatcherVars, actorVars, sent, current,
                   workerVars, told, invoked, discarded>>

AbortCell(t) ==
    /\ tpc[t] = "abortCell"
    /\ CellClose
    /\ tpc' = [tpc EXCEPT ![t] = "abortClose"]
    /\ UNCHANGED <<mailboxVars, dispatcherVars, actorVars, sent, current,
                   workerVars, historyVars>>

AbortClose(t) ==
    /\ tpc[t] = "abortClose"
    /\ Close
    /\ tpc' = [tpc EXCEPT ![t] = "idle"]
    /\ UNCHANGED <<cellVars, dispatcherVars, actorVars, sent, current,
                   workerVars, historyVars>>

ThreadStep(t) ==
    \/ EnqueueStopping(t) \/ EnqueueFull(t)
    \/ EnqueueQueued(t) \/ EnqueueScheduled(t)
    \/ Dispatch(t) \/ DispatchRefused(t)
    \/ Rollback(t) \/ Fallback(t) \/ FallbackFails(t)
    \/ AbortStart(t) \/ AbortStop(t) \/ AbortCell(t) \/ AbortClose(t)

(***************************************************************************)
(* Workers.  DefaultMailbox.__call__ runs batches while it owns _running;  *)
(* an activation picked up meanwhile only leaves a request to run again.   *)
(***************************************************************************)
Goto(w, pc) == wpc' = [wpc EXCEPT ![w] = pc]

TakeActivation(w) ==
    /\ wpc[w] = "idle"
    /\ activations > 0
    /\ activations' = activations - 1
    /\ Goto(w, "enter")
    /\ UNCHANGED <<mailboxVars, cellVars, up, actorVars, threadVars, batch,
                   systemBatch, historyVars>>

AlreadyRunning == running

Enter(w) ==
    /\ wpc[w] = "enter"
    /\ IF AlreadyRunning THEN inline' = TRUE /\ Goto(w, "idle") /\ UNCHANGED running
                         ELSE running' = TRUE /\ Goto(w, "take") /\ UNCHANGED inline
    /\ UNCHANGED <<messages, system, inFlight, scheduled, accepting, closed,
                   cellVars, dispatcherVars, actorVars, threadVars, batch,
                   systemBatch, historyVars>>

\* The three ways out of a batch that give the activation up.
NoUserMessageToRun == closed \/ messages = <<>> \/ ~CanProcess
NothingToRun == \/ closed
                \/ system = <<>> /\ (messages = <<>> \/ ~CanProcess)

\* _run_batch, first critical section: up to _throughput messages, lifecycle
\* messages first.
First(q) == SubSeq(q, 1, IF Len(q) < Throughput THEN Len(q) ELSE Throughput)
Rest(q) == SubSeq(q, Len(First(q)) + 1, Len(q))

LifecycleFirst == system # <<>>

TakeBatch(w) ==
    /\ wpc[w] = "take"
    /\ ~NothingToRun
    /\ IF LifecycleFirst
         THEN /\ batch' = [batch EXCEPT ![w] = Unwrap(First(system))]
              /\ system' = Rest(system)
              /\ systemBatch' = [systemBatch EXCEPT ![w] = TRUE]
              /\ UNCHANGED <<messages, inFlight>>
         ELSE /\ batch' = [batch EXCEPT ![w] = Unwrap(First(messages))]
              /\ messages' = Rest(messages)
              /\ systemBatch' = [systemBatch EXCEPT ![w] = FALSE]
              /\ inFlight' = inFlight + Len(First(messages))
              /\ UNCHANGED system
    /\ Goto(w, "invoke")
    /\ UNCHANGED <<scheduled, running, inline, accepting, closed, cellVars,
                   dispatcherVars, actorVars, threadVars, told, invoked,
                   deadLetters, discarded>>

\* The same test guards the start of a batch, what follows it, and recovery.
GiveUp(w) ==
    /\ wpc[w] \in {"take", "recheck", "recover"}
    /\ NothingToRun
    /\ scheduled' = FALSE
    /\ Goto(w, "finish")
    /\ UNCHANGED <<messages, system, inFlight, running, inline, accepting,
                   closed, cellVars, dispatcherVars, actorVars, threadVars,
                   batch, systemBatch, historyVars>>

\* _fail reports to the parent, or failing that sends the actor a Stop; after a
\* BaseException it also ends the batch.  A stopping actor keeps its state.
AfterFailure(w) ==
    \E pc \in {"invoke", "selfStop", "restoreFailed", "selfStopFailed"} : Goto(w, pc)

Fails(w) ==
    /\ \/ actor = "STOPPING" /\ UNCHANGED actor
          /\ \E pc \in {"invoke", "restoreFailed"} : Goto(w, pc)
       \/ actor # "STOPPING" /\ actor' = "FAILED" /\ AfterFailure(w)
    /\ UNCHANGED <<suspended, restarting>>

\* send_system(Stop) to itself: the worker owns the scheduling, so that the
\* message only joins the queue.
SelfStop(w) ==
    /\ wpc[w] \in {"selfStop", "selfStopFailed"}
    /\ system' = IF closed THEN system ELSE Append(system, Raw(OwnStop))
    /\ Goto(w, IF wpc[w] = "selfStop" THEN "invoke" ELSE "restoreFailed")
    /\ UNCHANGED <<messages, inFlight, scheduled, running, inline, accepting,
                   closed, cellVars, dispatcherVars, actorVars, threadVars, batch,
                   systemBatch, historyVars>>

\* LocalActorContext.invoke_batch, one message at a time.  The outcomes of a
\* user message are what on_message can make of it: the behavior goes on,
\* suspends user messages, raises (an Exception, or a BaseException that ends
\* the batch), or returns Behaviors.stopped.
InvokeUser(w) ==
    /\ wpc[w] = "invoke" /\ ~systemBatch[w]
    /\ batch[w] # <<>> /\ CanProcess
    /\ invoked' = invoked \cup {Head(batch[w])}
    /\ batch' = [batch EXCEPT ![w] = Tail(@)]
    /\ \/ suspended' \in BOOLEAN /\ UNCHANGED <<actor, wpc>>
       \/ actor' = "FAILED" /\ AfterFailure(w) /\ UNCHANGED suspended
       \/ actor' = "STOPPING" /\ Goto(w, "stopCell") /\ UNCHANGED suspended
    /\ restarting' = (restarting /\ actor' # "STOPPING")
    /\ UNCHANGED <<mailboxVars, cellVars, dispatcherVars, threadVars,
                   systemBatch, told, deadLetters, discarded>>

\* The end of the batch, or a user message the actor no longer takes: the rest
\* goes back unless the actor is stopping.
BatchReturns(w) ==
    /\ wpc[w] = "invoke"
    /\ batch[w] = <<>> \/ (~systemBatch[w] /\ ~CanProcess)
    /\ IF actor \in {"STARTING", "RUNNING", "FAILED"}
         THEN UNCHANGED <<batch, discarded>>
         ELSE /\ batch' = [batch EXCEPT ![w] = <<>>]
              /\ discarded' = discarded \cup {batch[w][i] : i \in DOMAIN batch[w]}
    /\ Goto(w, "restore")
    /\ UNCHANGED <<mailboxVars, cellVars, dispatcherVars, actorVars, threadVars,
                   systemBatch, told, invoked, deadLetters>>

\* _finish_start, reached by the first PreStart and by a restart; the behavior
\* may have suspended user messages by then.
Starts ==
    /\ actor' = "RUNNING"
    /\ suspended' \in BOOLEAN
    /\ restarting' = FALSE

\* _complete_restart: a failure leaves _restart_pending set and sends the actor
\* a Stop.
CompleteRestart(w) ==
    \/ Starts /\ UNCHANGED wpc
    \/ actor' = "FAILED" /\ suspended' \in BOOLEAN /\ restarting' = TRUE
       /\ Goto(w, "selfStop")

\* LocalActorContext._invoke_system by message; whether the actor still has
\* children is left open.
SystemEffect(w, kind) ==
    \/ /\ kind = "PreStart" /\ actor = "STARTING"
       /\ (Starts /\ UNCHANGED wpc) \/ Fails(w)
    \/ /\ kind = "Stop" /\ actor # "STOPPING"
       /\ actor' = "STOPPING" /\ restarting' = FALSE
       /\ Goto(w, "stopCell") /\ UNCHANGED suspended
    \/ /\ kind \in {"Stop", "Terminated"} /\ actor = "STOPPING"
       /\ Goto(w, "stopping") /\ UNCHANGED actorVars
    \/ /\ kind = "Terminated" /\ actor # "STOPPING" /\ restarting
       /\ CompleteRestart(w)
    \/ /\ kind = "Restart" /\ actor # "STOPPING"
       /\ \/ CompleteRestart(w)
          \/ actor' = "STARTING" /\ restarting' = TRUE /\ UNCHANGED <<suspended, wpc>>
    \/ /\ kind = "Resume"
       /\ \/ suspended' \in BOOLEAN /\ UNCHANGED <<actor, restarting, wpc>>
          \/ Fails(w)
    \/ /\ kind \in {"PreStart", "Restart", "Terminated"}
       /\ kind = "PreStart" => actor # "STARTING"
       /\ kind = "Restart" => actor = "STOPPING"
       /\ kind = "Terminated" => actor # "STOPPING"
       /\ UNCHANGED <<actorVars, wpc>>

InvokeSystem(w) ==
    /\ wpc[w] = "invoke" /\ systemBatch[w] /\ batch[w] # <<>>
    /\ batch' = [batch EXCEPT ![w] = Tail(@)]
    /\ IF actor = "STOPPED" THEN UNCHANGED <<actorVars, wpc>>
                            ELSE SystemEffect(w, Head(batch[w]).kind)
    /\ UNCHANGED <<mailboxVars, cellVars, dispatcherVars, threadVars,
                   systemBatch, historyVars>>

\* Stop: _ref.stop_user_messages(), then _complete_stop once no child is left,
\* which stops user messages again and closes the cell and the mailbox.
StopCell(w) ==
    /\ wpc[w] = "stopCell"
    /\ CellStopUserMessages
    /\ Goto(w, "stopMailbox")
    /\ UNCHANGED <<mailboxVars, dispatcherVars, actorVars, threadVars, batch,
                   systemBatch, historyVars>>

StopMailbox(w) ==
    /\ wpc[w] = "stopMailbox"
    /\ StopUserMessages
    /\ Goto(w, IF actor = "STOPPED" THEN "closeCell" ELSE "stopping")
    /\ UNCHANGED <<cellVars, dispatcherVars, actorVars, threadVars, batch,
                   systemBatch, told, invoked, discarded>>

CompleteStop(w) ==
    /\ wpc[w] = "stopping"
    /\ \/ Goto(w, "invoke") /\ UNCHANGED actor
       \/ Goto(w, "stopCell") /\ actor' = "STOPPED"
    /\ UNCHANGED <<mailboxVars, cellVars, dispatcherVars, suspended, restarting,
                   threadVars, batch, systemBatch, historyVars>>

CloseCell(w) ==
    /\ wpc[w] = "closeCell"
    /\ CellClose
    /\ Goto(w, "closeMailbox")
    /\ UNCHANGED <<mailboxVars, dispatcherVars, actorVars, threadVars, batch,
                   systemBatch, historyVars>>

CloseMailbox(w) ==
    /\ wpc[w] = "closeMailbox"
    /\ Close
    /\ Goto(w, "invoke")
    /\ UNCHANGED <<cellVars, dispatcherVars, actorVars, threadVars, batch,
                   systemBatch, historyVars>>

\* _restore_batch: the unprocessed rest goes back in front.
PutBehind(ms, q) == q \o Wrap(ms)
PutBack(ms, q) == Wrap(ms) \o q

Restore(w) ==
    /\ wpc[w] \in {"restore", "restoreFailed"}
    /\ inFlight' = IF systemBatch[w] THEN inFlight ELSE 0
    /\ messages' = IF closed \/ systemBatch[w] THEN messages
                                              ELSE PutBack(batch[w], messages)
    /\ system' = IF closed \/ ~systemBatch[w] THEN system
                                             ELSE PutBack(batch[w], system)
    /\ batch' = [batch EXCEPT ![w] = <<>>]
    /\ Goto(w, IF wpc[w] = "restore" THEN "recheck" ELSE "recover")
    /\ UNCHANGED <<scheduled, running, inline, accepting, closed, cellVars,
                   dispatcherVars, actorVars, threadVars, systemBatch,
                   historyVars>>

Recheck(w) ==
    /\ wpc[w] \in {"recheck", "recover"}
    /\ ~NothingToRun
    /\ Goto(w, IF wpc[w] = "recheck" THEN "redispatch" ELSE "recoverDispatch")
    /\ UNCHANGED <<mailboxVars, cellVars, dispatcherVars, actorVars, threadVars,
                   batch, systemBatch, historyVars>>

\* The activation goes back to the dispatcher, so that a hot mailbox yields.
Redispatch(w) ==
    /\ wpc[w] \in {"redispatch", "recoverDispatch"}
    /\ up
    /\ activations' = activations + 1
    /\ Goto(w, IF wpc[w] = "redispatch" THEN "handoff" ELSE "finish")
    /\ UNCHANGED <<mailboxVars, cellVars, up, actorVars, threadVars, batch,
                   systemBatch, historyVars>>

\* Refused: the worker keeps running the mailbox itself, or, after a failure,
\* decides under the lock.
RedispatchRefused(w) ==
    /\ wpc[w] \in {"redispatch", "recoverDispatch"}
    /\ Goto(w, IF wpc[w] = "redispatch" THEN "take" ELSE "recoverLocked")
    /\ UNCHANGED <<mailboxVars, cellVars, dispatcherVars, actorVars, threadVars,
                   batch, systemBatch, historyVars>>

RecoverLocked(w) ==
    /\ wpc[w] = "recoverLocked"
    /\ scheduled' = (scheduled /\ system # <<>>)
    /\ Goto(w, IF system # <<>> THEN "recoverSystem" ELSE "finish")
    /\ UNCHANGED <<messages, system, inFlight, running, inline, accepting,
                   closed, cellVars, dispatcherVars, actorVars, threadVars,
                   batch, systemBatch, historyVars>>

\* dispatch_system; its exception leaves __call__ with _running still set.
RecoverSystem(w) ==
    /\ wpc[w] = "recoverSystem"
    /\ activations' = IF up THEN activations + 1 ELSE activations
    /\ Goto(w, IF up THEN "finish" ELSE "idle")
    /\ UNCHANGED <<mailboxVars, cellVars, up, actorVars, threadVars, batch,
                   systemBatch, historyVars>>

\* A request left by another worker after the handoff is served by this one.
Handoff(w) ==
    /\ wpc[w] = "handoff"
    /\ inline' = FALSE
    /\ Goto(w, IF inline THEN "take" ELSE "finish")
    /\ UNCHANGED <<messages, system, inFlight, scheduled, running, accepting,
                   closed, cellVars, dispatcherVars, actorVars, threadVars,
                   batch, systemBatch, historyVars>>

Finish(w) ==
    /\ wpc[w] = "finish"
    /\ inline' = FALSE
    /\ running' = inline
    /\ Goto(w, IF inline THEN "take" ELSE "idle")
    /\ UNCHANGED <<messages, system, inFlight, scheduled, accepting, closed,
                   cellVars, dispatcherVars, actorVars, threadVars, batch,
                   systemBatch, historyVars>>

WorkerStep(w) ==
    \/ TakeActivation(w) \/ Enter(w) \/ TakeBatch(w) \/ GiveUp(w)
    \/ InvokeUser(w) \/ InvokeSystem(w) \/ SelfStop(w) \/ BatchReturns(w)
    \/ StopCell(w) \/ StopMailbox(w) \/ CompleteStop(w)
    \/ CloseCell(w) \/ CloseMailbox(w)
    \/ Restore(w) \/ Recheck(w) \/ Redispatch(w) \/ RedispatchRefused(w)
    \/ RecoverLocked(w) \/ RecoverSystem(w) \/ Handoff(w) \/ Finish(w)

\* The dispatcher stops and abandons what is left in its queues.
StopDispatcher ==
    /\ up
    /\ up' = FALSE
    /\ UNCHANGED <<mailboxVars, cellVars, activations, actorVars, threadVars,
                   workerVars, historyVars>>

AbandonActivation ==
    /\ ~up
    /\ activations > 0
    /\ activations' = activations - 1
    /\ UNCHANGED <<mailboxVars, cellVars, up, actorVars, threadVars, workerVars,
                   historyVars>>

Next ==
    \/ \E t \in Threads : Tell(t) \/ ThreadStep(t)
    \/ \E w \in Workers : WorkerStep(w)
    \/ StopDispatcher
    \/ AbandonActivation

Spec == Init /\ [][Next]_vars

------------------------------------------------------------------------------
(***************************************************************************)
(* Properties.                                                             *)
(***************************************************************************)
ThreadPc == {"idle", "enqueue", "dispatch", "rollback", "fallback",
             "abort", "abortStop", "abortCell", "abortClose"}
RunPc == {"take", "invoke", "selfStop", "selfStopFailed", "stopCell",
          "stopMailbox", "stopping",
          "closeCell", "closeMailbox", "restore", "restoreFailed", "recheck",
          "redispatch", "recover", "recoverDispatch", "recoverLocked",
          "recoverSystem"}
WorkerPc == RunPc \cup {"idle", "enter", "handoff", "finish"}
ActorState == {"STARTING", "RUNNING", "FAILED", "STOPPING", "STOPPED"}

\* Types of the mailbox's fields, the cell's, and the threads' local state.
TypeOK ==
    /\ messages \in Seq(Item) /\ system \in Seq(Item)
    /\ inFlight \in Nat
    /\ scheduled \in BOOLEAN /\ running \in BOOLEAN /\ inline \in BOOLEAN
    /\ accepting \in BOOLEAN /\ closed \in BOOLEAN
    /\ cellAccepting \in BOOLEAN /\ cellClosed \in BOOLEAN
    /\ up \in BOOLEAN /\ activations \in Nat
    /\ actor \in ActorState /\ suspended \in BOOLEAN /\ restarting \in BOOLEAN
    /\ tpc \in [Threads -> ThreadPc]
    /\ sent \in [Threads -> 0..MaxSends]
    /\ current \in [Threads -> Message]
    /\ wpc \in [Workers -> WorkerPc]
    /\ batch \in [Workers -> Seq(Message)]
    /\ systemBatch \in [Workers -> BOOLEAN]
    /\ told \in [UserMessage -> {"nothing", "accepted", "refused", "returned"}]
    /\ invoked \in SUBSET Message
    /\ deadLetters \in SUBSET Message
    /\ discarded \in SUBSET Message

\* Whoever is obliged to see to it that a scheduled mailbox runs: an activation
\* in the dispatcher, a thread publishing one, a worker running the batch, or
\* a worker that has been asked to run again.
ThreadOwns(t) == tpc[t] \in {"dispatch", "rollback", "fallback"}
WorkerOwns(w) == wpc[w] \in RunPc \cup {"enter"}
WorkerRuns(w) == wpc[w] \in RunPc \cup {"handoff", "finish"}

Owned == \/ activations > 0
         \/ inline /\ \E w \in Workers : wpc[w] \in {"handoff", "finish"}
         \/ \E t \in Threads : ThreadOwns(t)
         \/ \E w \in Workers : WorkerOwns(w)

\* README: "at most one activation per scheduled mailbox".  The activation is
\* never duplicated by the handoffs between senders, dispatcher and workers.
AtMostOneActivation ==
    /\ activations <= 1
    /\ inline => activations = 0
    /\ \A t \in Threads : ThreadOwns(t) =>
          /\ activations = 0 /\ ~inline
          /\ \A u \in Threads : ThreadOwns(u) => u = t
          /\ \A w \in Workers : ~WorkerOwns(w)
    /\ \A w \in Workers : WorkerOwns(w) =>
          /\ activations = 0 /\ ~inline
          /\ \A v \in Workers : WorkerOwns(v) => v = w

\* README: "One behavior invocation at a time per actor": _running admits one
\* worker to the batches, also when a handoff is picked up before the worker
\* that made it has left __call__.
OneInvocationAtATime ==
    \A v, w \in Workers : WorkerRuns(v) /\ WorkerRuns(w) => v = w

\* What can run now: the negation of the tests that give an activation up.
Runnable == system # <<>> \/ (messages # <<>> /\ CanProcess)

\* No lost wake-up: while the dispatcher runs, a message the actor could take
\* now always has somebody obliged to run the mailbox, through refused
\* dispatches, roll-backs, suspension, failure and recovery.
NoStrandedMessage ==
    up /\ ~closed /\ Runnable => Owned

\* The _Entry a publishing thread will look for if it has to roll back.
EntryQueued(t) ==
    LET target == IF IsUser(current[t]) THEN messages ELSE system
    IN  \E i \in DOMAIN target : target[i] = Entry(current[t])

AbortPc == {"abort", "abortStop", "abortCell", "abortClose"}
FailedPc == {"selfStopFailed", "restoreFailed", "recover", "recoverDispatch",
             "recoverLocked", "recoverSystem"}

\* The inductive core of the three invariants above.  _scheduled is set exactly
\* while somebody is obliged to run the mailbox, _running exactly while a worker
\* is inside __call__, and a request to run again has a worker to serve it;
\* while the dispatcher runs, no refused dispatch, roll-back or recovery ends
\* with one and without the other.
SchedulingInv ==
    /\ AtMostOneActivation
    /\ OneInvocationAtATime
    /\ \A w \in Workers : WorkerRuns(w) => running
    /\ up /\ running => \E w \in Workers : WorkerRuns(w)
    /\ inline => running
    /\ activations > 0 \/ inline => scheduled
    /\ \A t \in Threads : ThreadOwns(t) => scheduled
    /\ \A w \in Workers : WorkerOwns(w) => scheduled
    /\ up /\ scheduled => Owned
    /\ up /\ ~closed /\ Runnable => scheduled
    /\ \A t \in Threads : up /\ tpc[t] \in {"dispatch", "rollback"} => EntryQueued(t)
    /\ \A t \in Threads : tpc[t] \in AbortPc => ~up
    /\ \A w \in Workers : wpc[w] \in FailedPc => actor # "RUNNING"

\* Queued and extracted user messages together never exceed _capacity.
CapacityRespected == Len(messages) + inFlight <= Capacity

BatchPc == {"invoke", "selfStop", "selfStopFailed", "stopCell", "stopMailbox",
            "stopping", "closeCell", "closeMailbox", "restore", "restoreFailed"}

\* Its inductive form: only the worker that runs the mailbox holds extracted
\* messages, and the places of the user messages among them are kept for the
\* rest of the batch that may come back.
CapacityInv ==
    /\ CapacityRespected
    /\ \A w \in Workers : batch[w] # <<>> => wpc[w] \in BatchPc
    /\ \A w \in Workers : ~closed /\ ~systemBatch[w] => Len(batch[w]) <= inFlight

\* What a sender was told comes true.  An accepted user message is pending,
\* was invoked, became a dead letter, or was in the batch of an actor that
\* stopped; close() loses none.  One whose send raised, or was reported FULL,
\* is not delivered: the roll-back removed it before any worker took it.
AnswerIsKept ==
    \A m \in UserMessage :
       LET inBatch == \E w \in Workers : \E i \in DOMAIN batch[w] : batch[w][i] = m
       IN /\ told[m] = "accepted" =>
                inBatch \/ m \in invoked \cup deadLetters \cup discarded \cup MessagesOf(messages)
          /\ told[m] = "refused" =>
                ~inBatch /\ m \notin invoked \cup MessagesOf(messages)

\* CONTEXT.md: a dead letter is "a delivery attempt that the runtime knows
\* cannot reach its intended actor identity": a tell that returned normally
\* and whose message the mailbox turned away has published one.  This does not
\* hold (README.md beside this module says why).
TurnedAwayIsDeadLetter ==
    \A m \in UserMessage : told[m] = "returned" => m \in deadLetters

(***************************************************************************)
(* The mailbox implements the inbox: what a running worker has extracted   *)
(* is still in front of what is queued.                                    *)
(***************************************************************************)
Extracted(fromSystem) ==
    IF \E w \in Workers : batch[w] # <<>> /\ systemBatch[w] = fromSystem
      THEN batch[CHOOSE w \in Workers :
                    batch[w] # <<>> /\ systemBatch[w] = fromSystem]
      ELSE <<>>

Abstract == INSTANCE Inbox WITH
    Priority <- {m \in Message : ~IsUser(m)},
    user <- Extracted(FALSE) \o Unwrap(messages),
    lifecycle <- Extracted(TRUE) \o Unwrap(system),
    open <- ~closed

\* Every step of senders and workers is a step of the two queues of Inbox, or
\* leaves them alone: extraction, restoration, handoff and recovery neither
\* reorder nor duplicate nor invent a message.
InboxSpec == Abstract!InboxSpec
==============================================================================
