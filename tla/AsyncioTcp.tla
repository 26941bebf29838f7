---------------------------- MODULE AsyncioTcp -----------------------------
(***************************************************************************)
(* One end of a TCP connection on the asyncio transport                    *)
(* (AsyncioTcpConnection, src/movie/remoting/asyncio_tcp.py).  Threads     *)
(* admit records into bounded queues, one per channel, receive records and *)
(* close the connection; on the loop of the I/O extension a writer task    *)
(* and a reader task move records to and from the socket.  The threads     *)
(* wake the tasks with events they set through call_soon_threadsafe, and   *)
(* whoever claims the cleanup cancels the tasks and closes the socket.     *)
(*                                                                         *)
(* Records have size one, so a byte limit is a message limit.  The peer    *)
(* reads what is written; the frames it sends are Incoming, in order.      *)
(***************************************************************************)
EXTENDS AsyncioIO, SequencesExt, FiniteSetsExt

CONSTANTS
    Channels,       \* the logical channels records are sent on
    Sends,          \* [Channels -> Nat]: how many records are sent on each
    Terminal,       \* whether a GOAWAY is sent
    OutboundLimit,  \* outbound_message_limit
    BatchLimit,     \* _WRITE_BATCH_RECORDS
    Incoming,       \* the frames the peer sends
    FirstLimit,     \* inbound_message_limit until activate()
    ActiveLimit,    \* inbound_message_limit from activate() on
    Home,           \* the worker whose loop serves the connection
    Closers,        \* threads that call close()
    Commands,       \* other commands submitted to the extension
    PeerCloses,     \* whether the peer closes after its last frame
    MayReset,       \* whether the connection may be reset
    MayStop         \* whether the extension is stopped

ASSUME TcpAssumption ==
    /\ Sends \in [Channels -> Nat] /\ Home \in Workers
    /\ {OutboundLimit, BatchLimit, FirstLimit, ActiveLimit} \subseteq Nat \ {0}

VARIABLES
    conn,     \* the connection, under its lock, with its socket
    event,    \* the asyncio events: "writer", "reader", "activation"
    task,     \* [Tasks -> progress]; cleanup is the task of _perform_close_on_loop
    hit,      \* the tasks that were cancelled
    batch,    \* what the writer is sending
    next,     \* the frame the reader reads next
    closer,   \* [Closers -> progress of close()]
    command,  \* who waits for the cleanup submitted as a command, or "none"
    others,   \* commands not yet submitted
    reset,    \* the connection was reset
    sent, written, received \* records admitted, written and received

data == <<event, batch, next, sent, written, received>>
control == <<closer, command, others, reset>>
vars == <<ioVars, conn, task, hit, data, control>>

Tasks == {"writer", "reader", "cleanup"}

Init ==
    /\ IOInit
    /\ conn = [state |-> "none", queue |-> [c \in Channels |-> <<>>], ready |-> <<>>,
               terminal |-> "none", out |-> 0, wake |-> FALSE, accepted |-> FALSE,
               active |-> FALSE, limit |-> FirstLimit, inbound |-> <<>>, in |-> 0,
               pressed |-> FALSE, started |-> FALSE, complete |-> FALSE,
               registered |-> FALSE, socket |-> "none"]
    /\ event = [e \in {"writer", "reader", "activation"} |-> FALSE]
    /\ task = [t \in Tasks |-> "none"] /\ hit = {}
    /\ batch = <<>> /\ next = 1
    /\ closer = [t \in Closers |-> "idle"] /\ command = "none" /\ others = Commands
    /\ reset = FALSE
    /\ sent = [c \in Channels |-> 0] /\ written = <<>> /\ received = <<>>

\* connect() or the listener creates the connection, with its two tasks.
Open ==
    /\ io.state = "RUNNING" /\ conn.state = "none"
    /\ conn' = [conn EXCEPT !.state = "OPEN", !.registered = TRUE, !.socket = "open"]
    /\ task' = [task EXCEPT !["writer"] = "wait", !["reader"] = "activation"]
    /\ UNCHANGED <<ioVars, hit, data, control>>

----------------------------------------------------------------------------
(* Threads that send, receive and activate. *)

\* _wake_writer_locked: the wake-up that is still to come serves this record too.
Wakes(idle) == idle /\ ~conn.wake

WakeWriter(idle) ==
    /\ Wakes(idle) => HasLoop(Home)
    /\ IF Wakes(idle) THEN CallSoon(Home, "writer") ELSE UNCHANGED soon

\* send, send_prevalidated and send_active, with _enqueue_outbound_locked.
Send(c) ==
    /\ sent[c] < Sends[c] /\ conn.state \in {"OPEN", "READ_FAILED"}
    /\ conn.terminal = "none" /\ conn.out < OutboundLimit
    /\ LET new == conn.queue[c] = <<>>
           idle == new /\ conn.ready = <<>>
       IN /\ WakeWriter(idle)
          /\ conn' = [conn EXCEPT !.queue[c] = Append(@, sent[c] + 1), !.out = @ + 1,
                                  !.ready = IF new THEN Append(@, c) ELSE @,
                                  !.wake = @ \/ idle]
    /\ sent' = [sent EXCEPT ![c] = @ + 1]
    /\ UNCHANGED <<io, worker, task, hit, event, batch, next, written, received, control>>

SendTerminal ==
    /\ Terminal /\ conn.state \in {"OPEN", "READ_FAILED"} /\ conn.terminal = "none"
    /\ WakeWriter(conn.ready = <<>>)
    /\ conn' = [conn EXCEPT !.terminal = "pending", !.out = @ + 1,
                            !.wake = @ \/ conn.ready = <<>>]
    /\ UNCHANGED <<io, worker, task, hit, data, control>>

NobodyWaits == FALSE

\* receive_many: a reader that waits for room is woken before records are taken.
ReaderWaits == conn.pressed

Receive(n) ==
    /\ conn.state # "none" /\ n \in 1..Len(conn.inbound)
    /\ ReaderWaits => HasLoop(Home)
    /\ IF ReaderWaits THEN CallSoon(Home, "reader") ELSE UNCHANGED soon
    /\ conn' = [conn EXCEPT !.inbound = SubSeq(@, n + 1, Len(@)), !.in = @ - n]
    /\ received' = received \o SubSeq(conn.inbound, 1, n)
    /\ UNCHANGED <<io, worker, task, hit, event, batch, next, sent, written, control>>

\* The association activates the transport once it received the peer's accept.
Activate ==
    /\ conn.state \in {"OPEN", "READ_FAILED"} /\ ~conn.active /\ HasLoop(Home)
    /\ \E i \in DOMAIN received : Incoming[received[i]] = "ACCEPT"
    /\ conn' = [conn EXCEPT !.active = TRUE, !.limit = ActiveLimit]
    /\ soon' = [soon EXCEPT ![Home] = @ \o <<"activation">>
                                        \o IF ReaderWaits THEN <<"reader">> ELSE <<>>]
    /\ UNCHANGED <<io, worker, task, hit, data, control>>

----------------------------------------------------------------------------
(* Closing: the state is marked, the cleanup claimed, the tasks cancelled. *)

Marked(c) ==
    IF c.state = "CLOSED" THEN c
    ELSE [c EXCEPT !.state = "CLOSED", !.queue = [d \in Channels |-> <<>>], !.ready = <<>>,
                   !.terminal = "none", !.out = 0, !.wake = FALSE, !.inbound = <<>>,
                   !.in = 0, !.pressed = FALSE]

Claims == ~conn.complete /\ ~conn.started

Abandoned(c) == IF c.complete THEN c ELSE [c EXCEPT !.started = FALSE]

\* The last of the cleanup: close the socket, unregister, tell who waits.
Released(c) == [c EXCEPT !.socket = "closed", !.registered = FALSE, !.complete = TRUE]

\* The loop runs one task at a time; a task that closes the connection does
\* not give way before it has tried to claim the cleanup.
LoopFree == HasLoop(Home) /\ \A t \in Tasks : task[t] # "claim"

OnLoop(t, pc) == LoopFree /\ task[t] = pc

Goto(t, pc) == task' = [task EXCEPT ![t] = pc]

\* _close_from_loop, called by the task that met an error or the end.
FromLoop(t) ==
    /\ conn' = Marked(conn)
    /\ Goto(t, "claim")
    /\ UNCHANGED <<ioVars, hit, data, control>>

\* _perform_close_on_loop cancels the other tasks and waits for them.
Perform(t) ==
    /\ Goto(t, "gather")
    /\ hit' = hit \cup {u \in {"writer", "reader"} \ {t} : task[u] # "done"}

ClaimOnLoop(t) ==
    /\ HasLoop(Home) /\ task[t] = "claim"
    /\ IF Claims THEN Perform(t) /\ conn' = [conn EXCEPT !.started = TRUE]
                 ELSE Goto(t, "await") /\ UNCHANGED <<hit, conn>>
    /\ UNCHANGED <<ioVars, data, control>>

\* The claimed cleanup runs in a task of its own.
BeginCleanup ==
    /\ OnLoop("cleanup", "starting") /\ "cleanup" \notin hit
    /\ Perform("cleanup")
    /\ UNCHANGED <<ioVars, conn, data, control>>

Gathered(t) ==
    /\ OnLoop(t, "gather")
    /\ \A u \in {"writer", "reader"} \ {t} : task[u] = "done"
    /\ conn' = Released(conn)
    /\ Goto(t, "done")
    /\ UNCHANGED <<ioVars, hit, data, control>>

\* A cancelled task ends where it waits; one that never began runs nothing.  A
\* task that awaits a cleanup another claimed always ends here: the cleanup
\* cancels it and gathers it before it sets _cleanup_complete_on_loop.
Cancelled(t) ==
    /\ LoopFree /\ t \in hit /\ task[t] \notin {"none", "gather", "done"}
    /\ Goto(t, "done")
    /\ conn' = IF t = "reader" /\ task[t] = "body" /\ conn.state # "CLOSED"
               THEN [conn EXCEPT !.in = @ - 1] ELSE conn
    /\ UNCHANGED <<ioVars, hit, data, control>>

----------------------------------------------------------------------------
(* close() *)

CloseMarks(t) ==
    /\ closer[t] = "idle" /\ conn.state # "none"
    /\ conn' = Marked(conn)
    /\ closer' = [closer EXCEPT ![t] = "claim"]
    /\ UNCHANGED <<ioVars, task, hit, data, command, others, reset>>

CloseClaims(t) ==
    /\ closer[t] = "claim"
    /\ closer' = [closer EXCEPT ![t] = IF Claims THEN "owner" ELSE "waiting"]
    /\ conn' = IF Claims THEN [conn EXCEPT !.started = TRUE] ELSE conn
    /\ UNCHANGED <<ioVars, task, hit, data, command, others, reset>>

\* run_coroutine: admitted, refused for want of capacity, or not running.
CloseSubmits(t) ==
    /\ closer[t] = "owner"
    /\ \/ /\ Admits
          /\ io' = AdmitCommand /\ CallSoon(Home, "run") /\ command' = "pending"
          /\ closer' = [closer EXCEPT ![t] = "result"] /\ UNCHANGED conn
       \/ /\ io.state = "RUNNING" /\ ~Admits
          /\ closer' = [closer EXCEPT ![t] = "full"] /\ UNCHANGED <<io, soon, command, conn>>
       \/ /\ io.state # "RUNNING"
          /\ conn' = Abandoned(conn)
          /\ closer' = [closer EXCEPT ![t] = "stopping"] /\ UNCHANGED <<io, soon, command>>
    /\ UNCHANGED <<worker, task, hit, data, others, reset>>

CloseGivesUp(t) ==
    /\ closer[t] = "full"
    /\ closer' = [closer EXCEPT ![t] = "raised"]
    /\ UNCHANGED <<ioVars, conn, task, hit, data, command, others, reset>>

\* _schedule_close_on_loop, then the capacity error is raised.
CloseSchedules(t) ==
    /\ closer[t] = "full"
    /\ closer' = [closer EXCEPT ![t] = "raised"]
    /\ IF HasLoop(Home) THEN CallSoon(Home, "start") /\ UNCHANGED conn
                        ELSE conn' = Abandoned(conn) /\ UNCHANGED soon
    /\ UNCHANGED <<io, worker, task, hit, data, command, others, reset>>

CloseWaitsForLoop(t) ==
    /\ closer[t] = "waiting" /\ conn.complete
    /\ closer' = [closer EXCEPT ![t] = "returned"]
    /\ UNCHANGED <<ioVars, conn, task, hit, data, command, others, reset>>

\* _wait_for_cleanup: done, or done here once the loop is gone.
CloseWaits(t) ==
    /\ closer[t] = "waiting" /\ (conn.complete \/ io.state = "STOPPED")
    /\ conn' = IF conn.complete THEN conn ELSE Released(Abandoned(conn))
    /\ closer' = [closer EXCEPT ![t] = "returned"]
    /\ UNCHANGED <<ioVars, task, hit, data, command, others, reset>>

CloseWithoutWait(t) ==
    /\ closer[t] = "stopping"
    /\ conn' = Released(conn)
    /\ closer' = [closer EXCEPT ![t] = "returned"]
    /\ UNCHANGED <<ioVars, task, hit, data, command, others, reset>>

\* The extension does not take commands: wait for its end, then clean up here.
CloseStopped(t) ==
    /\ closer[t] = "stopping" /\ io.state = "STOPPED"
    /\ conn' = Released(conn)
    /\ closer' = [closer EXCEPT ![t] = "returned"]
    /\ UNCHANGED <<ioVars, task, hit, data, command, others, reset>>

\* The deadline of a close() that waits; the cleanup itself goes on.
CloseTimesOut(t) ==
    /\ closer[t] \in {"waiting", "stopping", "result"}
    /\ closer' = [closer EXCEPT ![t] = "raised"]
    /\ UNCHANGED <<ioVars, conn, task, hit, data, command, others, reset>>

\* The command's task is done: release the command, then answer who waits.
CommandDone ==
    /\ command = "running" /\ task["cleanup"] = "done" /\ LoopFree
    /\ command' = "done" /\ io' = ReleaseCommand
    /\ closer' = [t \in Closers |-> IF closer[t] = "result" THEN "returned" ELSE closer[t]]
    /\ UNCHANGED <<worker, soon, conn, task, hit, data, others, reset>>

Close(t) ==
    CloseMarks(t) \/ CloseClaims(t) \/ CloseSubmits(t) \/ CloseSchedules(t) \/ CloseWaits(t)
    \/ CloseStopped(t)

----------------------------------------------------------------------------
(* The loop: its callbacks and the writer and reader tasks. *)

Submit ==
    /\ others > 0 /\ Admits
    /\ others' = others - 1 /\ io' = AdmitCommand /\ CallSoon(Home, "other")
    /\ UNCHANGED <<worker, conn, task, hit, data, closer, command, reset>>

Callback ==
    /\ LoopFree /\ soon[Home] # <<>> /\ Head(soon[Home]) # "stop"
    /\ soon' = [soon EXCEPT ![Home] = Tail(@)]
    /\ LET k == Head(soon[Home])
       IN /\ event' = IF k \in DOMAIN event THEN [event EXCEPT ![k] = TRUE] ELSE event
          /\ task' = IF k \in {"run", "start"} THEN [task EXCEPT !["cleanup"] = "starting"] ELSE task
          /\ command' = IF k = "run" THEN "running" ELSE command
          /\ io' = IF k = "other" THEN ReleaseCommand ELSE io
    /\ UNCHANGED <<worker, conn, hit, batch, next, sent, written, received, closer, others, reset>>

WriterWakes ==
    /\ OnLoop("writer", "wait") /\ event["writer"] /\ "writer" \notin hit
    /\ event' = [event EXCEPT !["writer"] = FALSE]
    /\ Goto("writer", "take")
    /\ UNCHANGED <<ioVars, conn, hit, batch, next, sent, written, received, control>>

\* One record of the channel at the head, which goes to the back if it has more.
TakeOne(b, i) ==
    IF b.ready = <<>> THEN b
    ELSE LET c == Head(b.ready)
             left == Tail(b.queue[c])
         IN [ready |-> IF left = <<>> THEN Tail(b.ready) ELSE Append(Tail(b.ready), c),
             queue |-> [b.queue EXCEPT ![c] = left],
             records |-> Append(b.records, <<c, Head(b.queue[c])>>)]

TakeBatch ==
    FoldLeft(TakeOne, [ready |-> conn.ready, queue |-> conn.queue, records |-> <<>>],
             [i \in 1..BatchLimit |-> i])

TakesTerminalEarly(b) == conn.terminal = "pending"

\* The GOAWAY follows when no channel has a record left.
TakesTerminal(b) ==
    b.ready = <<>> /\ conn.terminal = "pending" /\ Len(b.records) < BatchLimit

StaysAwake(c) == c

\* Nothing to write: under the lock, the next record needs a wake-up again.
GoesToSleep(c) == [c EXCEPT !.wake = FALSE]

WriterTakes ==
    /\ OnLoop("writer", "take") /\ "writer" \notin hit
    /\ LET b == TakeBatch
           records == b.records \o (IF TakesTerminal(b) THEN <<"GOAWAY">> ELSE <<>>)
           last == [conn EXCEPT !.ready = b.ready, !.queue = b.queue,
                                !.terminal = IF TakesTerminal(b) THEN "taken" ELSE @]
       IN IF conn.state = "CLOSED" THEN Goto("writer", "done") /\ UNCHANGED <<conn, batch>>
          ELSE /\ Goto("writer", IF records = <<>> THEN "wait" ELSE "send")
               /\ batch' = records
               /\ conn' = IF records = <<>> THEN GoesToSleep(last) ELSE last
    /\ UNCHANGED <<ioVars, hit, event, next, sent, written, received, control>>

WriterSends ==
    /\ OnLoop("writer", "send") /\ "writer" \notin hit /\ ~reset
    /\ written' = written \o batch
    /\ batch' = <<>>
    /\ Goto("writer", IF conn.state = "CLOSED" THEN "done" ELSE "take")
    /\ conn' = IF conn.state = "CLOSED" THEN conn ELSE [conn EXCEPT !.out = @ - Len(batch)]
    /\ UNCHANGED <<ioVars, hit, event, next, sent, received, control>>

WriterFails ==
    /\ OnLoop("writer", "send") /\ "writer" \notin hit /\ reset
    /\ FromLoop("writer")

NeverWaits == FALSE

\* _wait_for_activation: after the peer's accept, read on only once activated.
MustWait == conn.accepted /\ ~conn.active

ReaderActivation ==
    /\ OnLoop("reader", "activation") /\ "reader" \notin hit
    /\ Goto("reader", IF conn.state = "CLOSED" THEN "done"
                      ELSE IF MustWait THEN "inactive" ELSE "header")
    /\ event' = IF conn.state # "CLOSED" /\ MustWait THEN [event EXCEPT !["activation"] = FALSE]
                ELSE event
    /\ UNCHANGED <<ioVars, conn, hit, batch, next, sent, written, received, control>>

ReaderActivated ==
    /\ OnLoop("reader", "inactive") /\ event["activation"] /\ "reader" \notin hit
    /\ Goto("reader", "activation")
    /\ UNCHANGED <<ioVars, conn, hit, data, control>>

ReaderHeader ==
    /\ OnLoop("reader", "header") /\ "reader" \notin hit
    /\ conn.state = "CLOSED" \/ next <= Len(Incoming)
    /\ Goto("reader", IF conn.state = "CLOSED" THEN "done" ELSE "reserve")
    /\ UNCHANGED <<ioVars, conn, hit, data, control>>

\* The reader meets the end of the stream, or a reset.
ReaderEnds ==
    /\ "reader" \notin hit /\ conn.state # "CLOSED"
    /\ \/ OnLoop("reader", "header") /\ (reset \/ (PeerCloses /\ next > Len(Incoming)))
       \/ OnLoop("reader", "body") /\ reset
    /\ FromLoop("reader")

LimitFor(f) == conn.limit + (IF Incoming[f] = "GOAWAY" THEN 1 ELSE 0)

\* _reserve_inbound: room for the frame, or wait for a receiver to make room.
ReaderReserves ==
    /\ OnLoop("reader", "reserve") /\ "reader" \notin hit
    /\ LET room == conn.in < LimitFor(next)
           state == IF conn.state = "CLOSED" THEN "done" ELSE IF room THEN "body" ELSE "blocked"
       IN /\ Goto("reader", state)
          /\ conn' = [conn EXCEPT !.in = IF state = "body" THEN @ + 1 ELSE @,
                                  !.pressed = IF state = "blocked" THEN TRUE ELSE @]
          /\ event' = IF state = "blocked" THEN [event EXCEPT !["reader"] = FALSE] ELSE event
    /\ UNCHANGED <<ioVars, hit, batch, next, sent, written, received, control>>

ReaderResumes ==
    /\ OnLoop("reader", "blocked") /\ event["reader"] /\ "reader" \notin hit
    /\ Goto("reader", "reserve")
    /\ conn' = [conn EXCEPT !.pressed = FALSE]
    /\ UNCHANGED <<ioVars, hit, data, control>>

\* The body arrived: the frame is handed over, unless the limit shrank meanwhile.
ReaderEnqueues ==
    /\ OnLoop("reader", "body") /\ "reader" \notin hit
    /\ LET fits == conn.in <= LimitFor(next)
       IN IF conn.state = "CLOSED" THEN Goto("reader", "done") /\ UNCHANGED <<conn, next>>
          ELSE IF fits
          THEN /\ Goto("reader", "activation")
               /\ conn' = [conn EXCEPT !.inbound = Append(@, next),
                                       !.accepted = @ \/ Incoming[next] = "ACCEPT"]
               /\ next' = next + 1
          ELSE /\ Goto("reader", "done")
               /\ conn' = [conn EXCEPT !.state = "READ_FAILED", !.in = @ - 1, !.pressed = FALSE]
               /\ UNCHANGED next
    /\ UNCHANGED <<ioVars, hit, event, batch, sent, written, received, control>>

\* The peer or the network resets the connection.
Reset ==
    /\ MayReset /\ ~reset /\ conn.socket = "open"
    /\ reset' = TRUE
    /\ UNCHANGED <<ioVars, conn, task, hit, data, closer, command, others>>

WriterStep == WriterWakes \/ WriterTakes \/ WriterSends \/ WriterFails

ReaderStep ==
    \/ ReaderActivation \/ ReaderActivated \/ ReaderHeader \/ ReaderEnds
    \/ ReaderReserves \/ ReaderResumes \/ ReaderEnqueues

\* The loop that serves the connection stops: its tasks are cancelled, and
\* must have ended before the loop is closed.
HomeStops ==
    /\ LoopFree /\ LoopStops(Home)
    /\ hit' = hit \cup {t \in Tasks : task[t] \notin {"none", "done"}}
    /\ UNCHANGED <<conn, task, data, control>>

HomeExits ==
    /\ \A t \in hit : task[t] = "done"
    /\ WorkerExits(Home)
    /\ UNCHANGED <<conn, task, hit, data, control>>

LoopStep ==
    \/ Callback \/ WriterStep \/ ReaderStep \/ BeginCleanup \/ CommandDone \/ HomeStops \/ HomeExits
    \/ \E t \in Tasks : ClaimOnLoop(t) \/ Gathered(t) \/ Cancelled(t)

\* What the extension does that is not about this connection.
ExtensionStep ==
    /\ \/ Lifecycle \/ (MayStop /\ BeginStop)
       \/ \E w \in Workers \ {Home} : LoopStops(w) \/ WorkerExits(w)
    /\ UNCHANGED <<conn, task, hit, data, control>>

ThreadStep == Open \/ SendTerminal \/ Activate \/ Submit \/ Reset \/ \E c \in Channels : Send(c)

Next ==
    \/ ThreadStep \/ LoopStep \/ ExtensionStep
    \/ \E n \in 1..Len(Incoming) : Receive(n)
    \/ \E t \in Closers : Close(t) \/ CloseTimesOut(t)

Spec == Init /\ [][Next]_vars

\* The loop and the extension's threads run, a thread that called close()
\* goes on, and the association keeps receiving and activates.  Nobody has to
\* send, and no deadline has to pass.
FairSpec ==
    /\ Spec
    /\ WF_vars(LoopStep) /\ WF_vars(Activate) /\ WF_vars(Open)
    /\ WF_vars(\E n \in 1..Len(Incoming) : Receive(n))
    /\ WF_vars((Lifecycle \/ \E w \in Workers \ {Home} : LoopStops(w) \/ WorkerExits(w))
               /\ UNCHANGED <<conn, task, hit, data, control>>)
    /\ \A t \in Closers : WF_vars(Close(t))

----------------------------------------------------------------------------
\* Per channel, records reach the socket in the order they were admitted,
\* none twice and none left out, however channels take turns; the GOAWAY is
\* written once, after every record that was admitted, and nothing follows it.
WrittenInOrder ==
    /\ \A c \in Channels :
          LET own == SelectSeq(written, LAMBDA r : r # "GOAWAY" /\ r[1] = c)
          IN \A i \in DOMAIN own : own[i][2] = i
    /\ \A i \in DOMAIN written :
          written[i] = "GOAWAY" => i = Len(written) /\ i = 1 + MapThenSumSet(LAMBDA c : sent[c], Channels)

\* A peer that keeps to the protocol never overruns the inbound limit, though
\* activate() may lower it while frames are on their way: the reader waits at
\* the peer's accept, so no frame was admitted under the limit that is gone.
NeverOverrun == conn.state # "READ_FAILED"

\* The socket outlives the tasks that use it: it is closed only when neither
\* task is inside a read or a write, even when the extension stops meanwhile
\* and close() does the cleanup itself.
SocketOutlivesTasks ==
    conn.socket = "closed" =>
        /\ task["writer"] \notin {"wait", "take", "send"}
        /\ task["reader"] \notin {"activation", "inactive", "header", "reserve", "blocked", "body"}

\* No wake-up of the writer is lost: what was admitted is written, while the
\* connection stays open and the extension runs.
AdmittedIsWritten ==
    []<>(\/ conn.out = 0 \/ conn.state # "OPEN" \/ io.state # "RUNNING")

\* No wake-up of the reader is lost, neither when it waits for room nor when
\* it waits for activation: every frame of the peer is received.
IncomingIsReceived ==
    (conn.state = "OPEN") ~> (Len(received) = Len(Incoming) \/ conn.state # "OPEN"
                              \/ io.state # "RUNNING")

\* close() returns or raises without waiting for its deadline: threads that
\* close, tasks that meet the end of the stream and an extension that stops
\* never wait for each other in a circle.
CloseSettles ==
    \A t \in Closers : (closer[t] = "claim") ~> (closer[t] \in {"returned", "raised"})

\* While the extension runs, a closed connection is cleaned up by somebody,
\* also when close() found the command capacity taken and raised.
ClosedIsReleased ==
    (conn.state = "CLOSED") ~> ((~conn.registered /\ conn.socket = "closed") \/ io.state # "RUNNING")

============================================================================
