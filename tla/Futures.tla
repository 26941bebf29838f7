------------------------------ MODULE Futures ------------------------------
(***************************************************************************)
(* Futures whose callbacks run elsewhere (src/movie/future.py).  A         *)
(* RuntimeFuture hands the callbacks it owes to the CallbackExecutor as    *)
(* one job that drains them: whoever finds that no drain is under way      *)
(* submits one.  The executor's workers take jobs from one queue; close()  *)
(* queues a sentinel for each of them, and what is submitted later runs    *)
(* on the thread that submits it.                                          *)
(*                                                                         *)
(* A job is the future it drains.  A future's callbacks are a set: their   *)
(* order is not modelled, nor are their exceptions, which are logged, nor  *)
(* the cancellation hook, which runs before _invoke_callbacks does.        *)
(***************************************************************************)
EXTENDS Naturals, Sequences

CONSTANTS
    Futures,
    Callbacks,      \* everything that is ever registered
    Internal,       \* those registered with add_internal_done_callback
    FutureOf,       \* [Callbacks -> Futures]
    WorkerCount,    \* the executor's workers
    Threads,        \* threads that settle futures and register callbacks
    Stop,           \* the sentinel (None)
    Nothing

Workers == 1..WorkerCount
Agents == Workers \cup Threads

WellFormed ==
    /\ WorkerCount \in Nat
    /\ Threads \cap Workers = {}
    /\ FutureOf \in [Callbacks -> Futures]
    /\ Stop \notin Futures /\ Nothing \notin Callbacks

VARIABLES
    closed, running,   \* CallbackExecutor: _closed, whether _threads were made
    queue,             \* _queue
    settled,           \* the futures that are finished or cancelled
    begun,             \* those with _callbacks_started
    draining,          \* those with _callback_draining
    done,              \* the callbacks in _done_callbacks and _internal_callbacks
    pending,           \* the callbacks in _pending_callbacks
    pc, job,           \* per agent: control, and the future it works for
    todo, starts,      \* _invoke_callbacks: internal callbacks left, start_runner
    calling,           \* the callback an agent is in
    registered, runs   \* what was registered, and how often each callback ran

executorVars == <<closed, running, queue>>
futureVars == <<settled, begun, draining, done, pending>>
agentVars == <<pc, job, todo, starts, calling>>
vars == <<executorVars, futureVars, agentVars, registered, runs>>

Init ==
    /\ closed = FALSE /\ running = FALSE /\ queue = <<>>
    /\ settled = {} /\ begun = {} /\ draining = {} /\ done = {} /\ pending = {}
    /\ pc = [a \in Agents |-> IF a \in Workers THEN "off" ELSE "idle"]
    /\ job \in [Agents -> Futures]
    /\ todo = [a \in Agents |-> {}] /\ starts = [a \in Agents |-> FALSE]
    /\ calling = [a \in Agents |-> Nothing]
    /\ registered = {} /\ runs = [c \in Callbacks |-> 0]

Goto(a, label) == pc' = [pc EXCEPT ![a] = label]
Of(callbacks, f) == {c \in callbacks : FutureOf[c] = f}
Runs(c) == runs' = [runs EXCEPT ![c] = @ + 1]

(***************************************************************************)
(* The future.                                                             *)
(***************************************************************************)

\* A result, an exception or a cancellation, under the future's condition.
Settle(t, f) ==
    /\ pc[t] = "idle" /\ f \notin settled
    /\ settled' = settled \cup {f}
    /\ Goto(t, "invoke")
    /\ job' = [job EXCEPT ![t] = f]
    /\ UNCHANGED <<executorVars, begun, draining, done, pending, todo, starts,
                   calling, registered, runs>>

\* _invoke_callbacks up to the end of its critical section.
Owed(f) == Of(pending \cup (done \ Internal), f)

Invoke(t) ==
    LET f == job[t]
        start == Owed(f) # {} /\ f \notin draining
    IN
    /\ pc[t] = "invoke" /\ f \notin begun
    /\ begun' = begun \cup {f}
    /\ pending' = pending \cup Of(done \ Internal, f)
    /\ todo' = [todo EXCEPT ![t] = Of(done \cap Internal, f)]
    /\ starts' = [starts EXCEPT ![t] = start]
    /\ draining' = IF start THEN draining \cup {f} ELSE draining
    /\ Goto(t, "internal")
    /\ UNCHANGED <<executorVars, settled, done, job, calling, registered, runs>>

\* Internal callbacks run on the thread that settles the future.
RunInternal(t, c) ==
    /\ pc[t] = "internal" /\ c \in todo[t]
    /\ todo' = [todo EXCEPT ![t] = @ \ {c}]
    /\ Runs(c)
    /\ UNCHANGED <<executorVars, futureVars, pc, job, starts, calling, registered>>

Invoked(t) ==
    /\ pc[t] = "internal" /\ todo[t] = {}
    /\ Goto(t, IF starts[t] THEN "submit" ELSE "idle")
    /\ starts' = [starts EXCEPT ![t] = FALSE]
    /\ UNCHANGED <<executorVars, futureVars, job, todo, calling, registered, runs>>

\* add_done_callback and add_internal_done_callback.
Early(c) == FutureOf[c] \notin settled \/ FutureOf[c] \notin begun

Register(t, c) ==
    /\ pc[t] = "idle" /\ c \notin registered
    /\ Early(c)
    /\ registered' = registered \cup {c}
    /\ done' = done \cup {c}
    /\ UNCHANGED <<executorVars, settled, begun, draining, pending, agentVars, runs>>

RegisterInternalLate(t, c) ==
    /\ pc[t] = "idle" /\ c \notin registered
    /\ ~Early(c) /\ c \in Internal
    /\ registered' = registered \cup {c}
    /\ Runs(c)
    /\ UNCHANGED <<executorVars, futureVars, agentVars>>

RegisterLate(t, c) ==
    LET f == FutureOf[c] IN
    /\ pc[t] = "idle" /\ c \notin registered
    /\ ~Early(c) /\ c \notin Internal
    /\ registered' = registered \cup {c}
    /\ pending' = pending \cup {c}
    /\ IF f \notin draining
         THEN /\ draining' = draining \cup {f}
              /\ Goto(t, "submit")
              /\ job' = [job EXCEPT ![t] = f]
         ELSE UNCHANGED <<draining, pc, job>>
    /\ UNCHANGED <<executorVars, settled, begun, done, todo, starts, calling, runs>>

(***************************************************************************)
(* The executor.                                                           *)
(***************************************************************************)

\* submit: the first one starts the workers; a closed executor runs the job
\* on this thread.
Submit(t) ==
    /\ pc[t] = "submit" /\ ~closed
    /\ running' = TRUE
    /\ queue' = Append(queue, job[t])
    /\ pc' = [a \in Agents |-> IF a = t \/ pc[a] = "off" THEN "idle" ELSE pc[a]]
    /\ UNCHANGED <<closed, futureVars, job, todo, starts, calling, registered, runs>>

SubmitInline(t) ==
    /\ pc[t] = "submit" /\ closed
    /\ Goto(t, "drain")
    /\ UNCHANGED <<executorVars, futureVars, job, todo, starts, calling,
                   registered, runs>>

Sentinels == IF running THEN [i \in 1..WorkerCount |-> Stop] ELSE <<>>

Close ==
    /\ ~closed
    /\ closed' = TRUE
    /\ queue' = queue \o Sentinels
    /\ UNCHANGED <<running, futureVars, agentVars, registered, runs>>

Take(w) ==
    /\ pc[w] = "idle" /\ queue # <<>>
    /\ queue' = Tail(queue)
    /\ IF Head(queue) = Stop
         THEN Goto(w, "exited") /\ UNCHANGED job
         ELSE Goto(w, "drain") /\ job' = [job EXCEPT ![w] = Head(queue)]
    /\ UNCHANGED <<closed, running, futureVars, todo, starts, calling,
                   registered, runs>>

\* _drain_user_callbacks, on a worker or on the submitting thread.
Pop(a, c) ==
    /\ pc[a] = "drain" /\ c \in Of(pending, job[a])
    /\ pending' = pending \ {c}
    /\ calling' = [calling EXCEPT ![a] = c]
    /\ Goto(a, "call")
    /\ UNCHANGED <<executorVars, settled, begun, draining, done, job, todo,
                   starts, registered, runs>>

Return(a) ==
    /\ pc[a] = "call"
    /\ Runs(calling[a])
    /\ calling' = [calling EXCEPT ![a] = Nothing]
    /\ Goto(a, "drain")
    /\ UNCHANGED <<executorVars, futureVars, job, todo, starts, registered>>

Drained(a) ==
    /\ pc[a] = "drain" /\ Of(pending, job[a]) = {}
    /\ draining' = draining \ {job[a]}
    /\ Goto(a, "idle")
    /\ UNCHANGED <<executorVars, settled, begun, done, pending, job, todo,
                   starts, calling, registered, runs>>

Next ==
    \/ Close
    \/ \E t \in Threads :
          \/ \E f \in Futures : Settle(t, f)
          \/ Invoke(t) \/ Invoked(t) \/ Submit(t) \/ SubmitInline(t)
          \/ \E c \in Callbacks :
                RunInternal(t, c) \/ Register(t, c) \/ RegisterInternalLate(t, c)
                \/ RegisterLate(t, c)
    \/ \E w \in Workers : Take(w)
    \/ \E a \in Agents : Drained(a) \/ Return(a) \/ \E c \in Callbacks : Pop(a, c)

Spec == Init /\ [][Next]_vars

-----------------------------------------------------------------------------
(***************************************************************************)
(* Properties, and the invariants they follow from.                        *)
(***************************************************************************)
Labels == {"off", "idle", "exited", "invoke", "internal", "submit", "drain", "call"}

TypeOK ==
    /\ closed \in BOOLEAN /\ running \in BOOLEAN
    /\ queue \in Seq(Futures \cup {Stop})
    /\ settled \in SUBSET Futures /\ begun \in SUBSET Futures
    /\ draining \in SUBSET Futures
    /\ done \in SUBSET Callbacks /\ pending \in SUBSET Callbacks
    /\ registered \in SUBSET Callbacks
    /\ pc \in [Agents -> Labels] /\ job \in [Agents -> Futures]
    /\ todo \in [Agents -> SUBSET Callbacks] /\ starts \in [Agents -> BOOLEAN]
    /\ calling \in [Agents -> Callbacks \cup {Nothing}]
    /\ runs \in [Callbacks -> Nat]

\* a has the job of draining its future, or will submit it.
Carries(a) == pc[a] \in {"submit", "drain", "call"} \/ (pc[a] = "internal" /\ starts[a])

\* The callbacks of one future never run on two threads at once.
Serial ==
    \A a, b \in Agents : pc[a] = "call" /\ pc[b] = "call" /\ job[a] = job[b] => a = b

\* However registration, settlement and draining interleave, a callback runs once
\* at most.
RunOnce == \A c \in Callbacks : runs[c] <= 1

\* A callback that is owed is not forgotten: a thread is on its way to run it, or
\* the job is in a queue that every worker still serves, also when the executor
\* is closed at the same time.
NothingForgotten ==
    \A c \in pending :
        \/ \E a \in Agents : Carries(a) /\ job[a] = FutureOf[c]
        \/ /\ \E i \in DOMAIN queue : queue[i] = FutureOf[c]
           /\ \A w \in Workers : pc[w] \notin {"off", "exited"}

\* One drain per future that is marked as draining: carried or queued.
CarriedOnce ==
    \A a, b \in Agents : Carries(a) /\ Carries(b) /\ job[a] = job[b] => a = b
QueuedOnce == \A i, j \in DOMAIN queue : queue[i] = queue[j] /\ queue[i] # Stop => i = j
CarriedNotQueued == \A a \in Agents, i \in DOMAIN queue : Carries(a) => queue[i] # job[a]
ActiveIsMarked ==
    /\ \A a \in Agents : Carries(a) => job[a] \in draining
    /\ \A i \in DOMAIN queue : queue[i] # Stop => queue[i] \in draining
MarkedIsActive ==
    \A f \in draining : \/ \E a \in Agents : Carries(a) /\ job[a] = f
                        \/ \E i \in DOMAIN queue : queue[i] = f
OwedIsMarked == \A c \in pending : FutureOf[c] \in draining

DrainInv ==
    CarriedOnce /\ QueuedOnce /\ CarriedNotQueued /\ ActiveIsMarked /\ MarkedIsActive
    /\ OwedIsMarked

\* Nothing is queued behind a sentinel, and a worker leaves no job behind.
QueueInv ==
    /\ \A i, j \in DOMAIN queue : i <= j /\ queue[i] = Stop => queue[j] = Stop
    /\ \A i \in DOMAIN queue : queue[i] = Stop => closed
    /\ queue # <<>> => running
    /\ running => \A w \in Workers : pc[w] # "off"
    /\ \A w \in Workers : pc[w] = "exited" => closed /\ \A i \in DOMAIN queue : queue[i] = Stop

\* Where a callback can be that has not run yet; it is in one place at a time.
OnceInv ==
    /\ \A c \in Callbacks : runs[c] <= 1
    /\ \A c \in Callbacks \ registered :
          /\ runs[c] = 0 /\ c \notin done /\ c \notin pending
          /\ \A a \in Agents : calling[a] # c /\ c \notin todo[a]
    /\ \A c \in done : FutureOf[c] \notin begun =>
          /\ runs[c] = 0 /\ c \notin pending
          /\ \A a \in Agents : calling[a] # c /\ c \notin todo[a]
    /\ \A c \in pending : runs[c] = 0 /\ c \notin Internal
    /\ \A a \in Agents : pc[a] = "call" <=> calling[a] # Nothing
    /\ \A a \in Agents : calling[a] # Nothing =>
          /\ runs[calling[a]] = 0 /\ calling[a] \notin pending \cup Internal
          /\ \A b \in Agents : calling[b] = calling[a] => b = a
    /\ \A a \in Agents : \A c \in todo[a] :
          /\ c \in Internal /\ runs[c] = 0
          /\ \A b \in Agents : c \in todo[b] => b = a
=============================================================================
