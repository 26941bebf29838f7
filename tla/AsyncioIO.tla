----------------------------- MODULE AsyncioIO -----------------------------
(***************************************************************************)
(* The asyncio I/O extension (src/movie/io/asyncio.py): workers, each a    *)
(* thread that runs an event loop; commands that other threads submit to   *)
(* the loops, up to a capacity; and stop(), which lets the commands settle *)
(* before it ends the loops.                                               *)
(*                                                                         *)
(* soon[w] holds what call_soon_threadsafe put on the loop of w, in order. *)
(* A loop whose run_forever raises (KeyboardInterrupt, SystemExit out of a *)
(* callback) is not modelled.                                              *)
(***************************************************************************)
EXTENDS Naturals, Sequences

CONSTANTS
    Workers,
    CommandCapacity,  \* command_capacity
    SpawnMayFail      \* whether a thread may fail to start

ASSUME IOAssumption == CommandCapacity \in Nat \ {0} /\ SpawnMayFail \in BOOLEAN

VARIABLES
    io,      \* the extension: state, pending commands, progress of stop()
    worker,  \* [Workers -> progress of the worker's thread]
    soon     \* [Workers -> callbacks waiting on its loop]

ioVars == <<io, worker, soon>>

IOInit ==
    /\ io = [state |-> "NEW", pending |-> 0, stop |-> "idle"]
    /\ worker = [w \in Workers |-> "new"]
    /\ soon = [w \in Workers |-> <<>>]

HasLoop(w) == worker[w] \in {"running", "shutdown"}

\* call_soon_threadsafe: raises RuntimeError once the loop is closed.
CallSoon(w, callback) == soon' = [soon EXCEPT ![w] = Append(@, callback)]

Start ==
    /\ io.state = "NEW"
    /\ io' = [io EXCEPT !.state = "STARTING"]
    /\ UNCHANGED <<worker, soon>>

\* start() gives a worker its thread, or passes it over once stop() came.
Spawn(w) ==
    /\ io.state \notin {"NEW", "STOPPED"} /\ worker[w] = "new"
    /\ worker' = [worker EXCEPT ![w] = IF io.state = "STARTING" THEN "spawned" ELSE "stopped"]
    /\ UNCHANGED <<io, soon>>

SpawnFails(w) ==
    /\ SpawnMayFail /\ io.state = "STARTING" /\ worker[w] = "new"
    /\ io' = [io EXCEPT !.state = "STOPPING"]
    /\ worker' = [v \in Workers |-> IF worker[v] = "new" THEN "stopped" ELSE worker[v]]
    /\ UNCHANGED soon

\* The worker's thread creates its loop and runs it if start() still waits.
WorkerReady(w) ==
    /\ worker[w] = "spawned"
    /\ worker' = [worker EXCEPT ![w] = IF io.state = "STARTING" THEN "running" ELSE "shutdown"]
    /\ UNCHANGED <<io, soon>>

Started ==
    /\ io.state = "STARTING" /\ \A w \in Workers : worker[w] \notin {"new", "spawned"}
    /\ io' = [io EXCEPT !.state = "RUNNING"]
    /\ UNCHANGED <<worker, soon>>

BeginStop ==
    /\ io.stop = "idle"
    /\ io' = IF io.state = "NEW"
             THEN [io EXCEPT !.state = "STOPPED", !.stop = "done"]
             ELSE [io EXCEPT !.state = "STOPPING", !.stop = "settling"]
    /\ worker' = IF io.state = "NEW" THEN [w \in Workers |-> "stopped"] ELSE worker
    /\ UNCHANGED soon

\* A start() that did not come to run calls stop() itself.
StartFails == io.state = "STOPPING" /\ BeginStop

\* The commands settled: stop the loops there are, and join their threads.
StopSettled ==
    /\ io.stop = "settling" /\ io.pending = 0
    /\ io' = [io EXCEPT !.stop = "joining"]
    /\ soon' = [w \in Workers |-> IF HasLoop(w) THEN Append(soon[w], "stop") ELSE soon[w]]
    /\ UNCHANGED worker

StopJoined ==
    /\ io.stop = "joining" /\ \A w \in Workers : worker[w] = "stopped"
    /\ io' = [io EXCEPT !.state = "STOPPED", !.stop = "done"]
    /\ UNCHANGED <<worker, soon>>

\* run_forever ends; what is left of the thread cancels the loop's tasks.
LoopStops(w) ==
    /\ worker[w] = "running" /\ soon[w] # <<>> /\ Head(soon[w]) = "stop"
    /\ worker' = [worker EXCEPT ![w] = "shutdown"]
    /\ soon' = [soon EXCEPT ![w] = Tail(@)]
    /\ UNCHANGED io

\* The cancelled tasks ended: the loop is closed with what it still held.
WorkerExits(w) ==
    /\ worker[w] = "shutdown"
    /\ worker' = [worker EXCEPT ![w] = "stopped"]
    /\ soon' = [soon EXCEPT ![w] = <<>>]
    /\ io' = IF \A v \in Workers \ {w} : worker[v] = "stopped"
             THEN [io EXCEPT !.state = "STOPPED"] ELSE io

\* _admit_command and _release_command.
Admits == io.state = "RUNNING" /\ io.pending < CommandCapacity

AdmitCommand == [io EXCEPT !.pending = @ + 1]

ReleaseCommand == [io EXCEPT !.pending = @ - 1]

Lifecycle ==
    \/ Start \/ Started \/ StartFails \/ StopSettled \/ StopJoined
    \/ \E w \in Workers : Spawn(w) \/ SpawnFails(w) \/ WorkerReady(w)

============================================================================
