----------------------------- MODULE Projection -----------------------------
(***************************************************************************)
(* Projections over the change feed (src/movie/projection/extension.py).   *)
(* A runner registers its offset, then reads a batch, hands it to the      *)
(* user's handler and moves its offset: after the handler (at-least-once)  *)
(* or in the handler's own transaction (sqlite-exactly-once).  Compaction, *)
(* retirement, the writes of durable actors, shutdown and crashes go on    *)
(* around it.                                                              *)
(***************************************************************************)
EXTENDS DurableStore, Functions

CONSTANTS
    Runners,         \* ProjectionIds
    Wanted,          \* [Runners -> SUBSET Pids]: entity type and slice range
    Modes,           \* [Runners -> processing modes it is started with]
    InitialOffsets,  \* initial_offset arguments; Null is none
    RunnerCapacity,  \* movie.projection.runner-capacity
    BatchSlots,      \* pending-byte-capacity in batches
    BatchSize,       \* rows per batch
    ScanLimit,       \* movie.projection.scan-limit
    CompactionLimit, \* compaction-batch-size
    MaxWrites, MaxStarts, MaxFailures, MaxCompactions, MaxCrashes  \* bounds

ASSUME ProjectionAssumption ==
    /\ {BatchSlots, BatchSize, ScanLimit, CompactionLimit, RunnerCapacity} \subseteq Nat \ {0}
    /\ \A r \in Runners : Modes[r] \subseteq {"at-least-once", "exactly-once"}
    /\ InitialOffsets \subseteq Nat \cup {Null} /\ Null \notin Runners

VARIABLES
    extension,  \* ProjectionExtension._state
    runner,     \* [Runners -> the runner's coroutine and its handle]
    retiring,   \* _retiring
    slots,      \* runners that hold a place of _batch_slots
    delivered,  \* [Runners -> offsets the handler was given and finished]
    base,       \* [Runners -> the offset its registration began at]
    fed,        \* the persistence id of every change committed, by offset
    counts      \* writes, starts, failures, compactions and crashes so far

vars == <<storeVars, extension, runner, retiring, slots, delivered, base, fed, counts>>
projectionVars == <<extension, runner, retiring, slots, delivered, base, fed, counts>>

---------------------------------------------------------------------------
NoBatch == [rows |-> {}, offset |-> 0]

NoRunner == [pc |-> "none", mode |-> "none", initial |-> Null, stop |-> FALSE,
             offset |-> 0, batch |-> NoBatch]

Init ==
    /\ StoreInit
    /\ extension = "RUNNING"
    /\ runner = [r \in Runners |-> NoRunner]
    /\ retiring = {} /\ slots = {}
    /\ delivered = [r \in Runners |-> {}]
    /\ base = [r \in Runners |-> 0] /\ fed = <<>>
    /\ counts = [writes |-> 0, starts |-> 0, failures |-> 0, compactions |-> 0,
                 crashes |-> 0]

Handles == {r \in Runners : runner[r].pc # "none"}

Goto(r, pc) == runner' = [runner EXCEPT ![r].pc = pc]

Count(what) == counts' = [counts EXCEPT ![what] = @ + 1]

\* What a runner that ends, by return or by exception, gives back:
\* _release_batch and _handle_stopped.
Finish(r) ==
    /\ runner' = [runner EXCEPT ![r] = NoRunner]
    /\ slots' = slots \ {r}

\* An error a runner survives: recorded, delayed, tried again.
Again(r) ==
    /\ runner' = [runner EXCEPT ![r].pc = "top", ![r].batch = NoBatch]
    /\ slots' = slots \ {r}

Ready == lock = Null /\ connection = "open"

\* The start and end of one of the runner's operations on the store.
Enter(r) == internal' = internal \cup {r}
Leave(r) == internal' = internal \ {r}

StoreFrame == UNCHANGED <<store, startup, connection, pending>>
RunnerFrame == UNCHANGED <<extension, retiring, delivered, base, fed>>

---------------------------------------------------------------------------
(* Starting, registering.                                                  *)

StartRunner(r, mode, initial) ==
    /\ extension = "RUNNING" /\ connection = "open"
    /\ r \notin Handles \cup retiring
    /\ Cardinality(Handles) < RunnerCapacity
    /\ counts.starts < MaxStarts /\ Count("starts")
    /\ runner' = [runner EXCEPT
                    ![r] = [NoRunner EXCEPT !.pc = "register", !.mode = mode,
                                            !.initial = initial]]
    /\ UNCHANGED <<storeVars, extension, retiring, slots, delivered, base, fed>>

\* The head of each loop: a stop that was requested ends the runner.
StopAtHead(r) ==
    /\ runner[r].pc \in {"register", "top"} /\ runner[r].stop
    /\ Finish(r)
    /\ UNCHANGED <<storeVars, counts>> /\ RunnerFrame

\* _projection_operation admits the runner, or raises and the loop that asked
\* is entered again; nothing is awaited between its head and the admission.
Admit(r, pc, head) ==
    IF AcceptsInternal
    THEN Enter(r) /\ Goto(r, pc)
    ELSE Goto(r, head) /\ UNCHANGED internal

AdmitRegister(r) ==
    /\ runner[r].pc = "register" /\ ~runner[r].stop
    /\ Admit(r, "registering", "register")
    /\ UNCHANGED <<db, lock, slots, counts>> /\ StoreFrame /\ RunnerFrame

\* The effects are counted from a registration on.
Forget(d, r) == [d EXCEPT !.effects = [q \in DOMAIN @ \ {r} |-> @[q]]]

RegisterRuns(r) ==
    /\ runner[r].pc = "registering" /\ Ready
    /\ Leave(r)
    /\ LET new == r \notin Registered(db)
           d == Register(db, r, runner[r].mode, runner[r].initial)
       IN  /\ db' = IF new THEN Forget(d.db, r) ELSE d.db
           /\ IF d.tag = "ok"
              THEN /\ runner' = [runner EXCEPT ![r].pc = "top", ![r].offset = d.value]
                   /\ base' = [base EXCEPT ![r] = IF new THEN d.value ELSE @]
                   /\ delivered' = [delivered EXCEPT ![r] = IF new THEN {} ELSE @]
                   /\ UNCHANGED slots
              ELSE Finish(r) /\ UNCHANGED <<base, delivered>>
    /\ UNCHANGED <<lock, extension, retiring, fed, counts>> /\ StoreFrame

---------------------------------------------------------------------------
(* The loop: reserve, read, handle, save.                                  *)

\* _reserve_batch and the admission of the read.
ReserveBatch(r) ==
    /\ runner[r].pc = "top" /\ ~runner[r].stop
    /\ Cardinality(slots) < BatchSlots
    /\ slots' = IF AcceptsInternal THEN slots \cup {r} ELSE slots
    /\ Admit(r, "reading", "top")
    /\ UNCHANGED <<db, lock, counts>> /\ StoreFrame /\ RunnerFrame

\* Where a runner goes with a batch: to its handler, to the offset, or back
\* to polling.
AfterRead(r, batch) ==
    CASE batch.rows # {} /\ runner[r].mode = "at-least-once" -> "handle"
      [] batch.rows = {} /\ batch.offset # runner[r].offset
             /\ runner[r].mode = "at-least-once" -> "saving"
      [] batch.offset # runner[r].offset /\ runner[r].mode = "exactly-once" -> "applying"
      [] OTHER -> "top"

\* The read ends; a runner that goes on to its offset is in its next
\* operation before it awaits again.
ReadRuns(r) ==
    /\ runner[r].pc = "reading" /\ Ready
    /\ IF IsCompacted(db, runner[r].offset)
       THEN Finish(r) /\ Leave(r)
       ELSE \E batch \in Batches(db, Wanted[r], runner[r].offset, BatchSize, ScanLimit) :
               LET pc == AfterRead(r, batch)
               IN  /\ runner' = [runner EXCEPT ![r].pc = pc,
                                     ![r].batch = IF pc = "top" THEN NoBatch ELSE batch]
                   /\ slots' = IF pc = "top" THEN slots \ {r} ELSE slots
                   /\ internal' = IF pc \in {"handle", "top"} THEN internal \ {r} ELSE internal
    /\ UNCHANGED <<db, lock, counts>> /\ StoreFrame /\ RunnerFrame

\* A timeout, a capacity or an error of the store before the commit of one
\* operation.
OperationFails(r) ==
    /\ runner[r].pc \in {"registering", "reading", "saving", "applying"}
    /\ \/ connection # "open" /\ UNCHANGED counts
       \/ counts.failures < MaxFailures /\ Count("failures")
    /\ lock # r
    /\ Leave(r)
    /\ runner' = [runner EXCEPT ![r].pc = IF @ = "registering" THEN "register" ELSE "top",
                                ![r].batch = NoBatch]
    /\ slots' = slots \ {r}
    /\ UNCHANGED <<db, lock>> /\ StoreFrame /\ RunnerFrame

\* The at-least-once handler finished, and the offset is to be saved.
HandlerSucceeds(r) ==
    /\ runner[r].pc = "handle"
    /\ delivered' = [delivered EXCEPT ![r] = @ \cup Offsets(runner[r].batch.rows)]
    /\ IF AcceptsInternal
       THEN Enter(r) /\ Goto(r, "saving") /\ UNCHANGED slots
       ELSE Again(r) /\ UNCHANGED internal
    /\ UNCHANGED <<db, lock, extension, retiring, base, fed, counts>> /\ StoreFrame

\* It raised, timed out or was cancelled by a stop, having done any part of
\* its work; a handler that returns no awaitable ends the runner.
HandlerFails(r) ==
    /\ runner[r].pc = "handle"
    /\ runner[r].stop \/ counts.failures < MaxFailures
    /\ IF runner[r].stop THEN UNCHANGED counts ELSE Count("failures")
    /\ \/ Finish(r)
       \/ ~runner[r].stop /\ Again(r)
    /\ UNCHANGED storeVars /\ RunnerFrame

Advanced(r) ==
    /\ runner' = [runner EXCEPT ![r].pc = "top", ![r].batch = NoBatch,
                                ![r].offset = runner[r].batch.offset]
    /\ slots' = slots \ {r}

SaveRuns(r) ==
    /\ runner[r].pc = "saving" /\ Ready
    /\ Leave(r)
    /\ LET d == SaveOffset(db, r, runner[r].offset, runner[r].batch.offset)
       IN  /\ db' = d.db
           /\ IF d.tag = "saved" THEN Advanced(r) ELSE Finish(r)
    /\ UNCHANGED <<lock, counts>> /\ StoreFrame /\ RunnerFrame

\* The exactly-once handler runs inside the transaction, which holds the
\* lock until the handler ends.
ApplyBegins(r) ==
    /\ runner[r].pc = "applying" /\ Ready
    /\ IF r \in Registered(db) /\ OffsetOf(db, r) = runner[r].offset
       THEN lock' = r /\ UNCHANGED <<internal, runner, slots>>
       ELSE Leave(r) /\ Finish(r) /\ UNCHANGED lock
    /\ UNCHANGED <<db, counts>> /\ StoreFrame /\ RunnerFrame

\* A set of offsets as the sequence a query returns: the i-th is the one
\* with i - 1 below it.
InOrder(S) ==
    [i \in 1..Cardinality(S) |-> CHOOSE n \in S : Cardinality({m \in S : m < n}) = i - 1]

EffectsOf(d, r) == IF r \in DOMAIN d.effects THEN d.effects[r] ELSE <<>>

\* What the handler writes for its batch, in the order of the changes.
Effects(d, r) ==
    [d EXCEPT !.effects = [q \in DOMAIN @ \cup {r} |->
        IF q = r THEN EffectsOf(d, r) \o InOrder(Offsets(runner[r].batch.rows)) ELSE @[q]]]

ApplyCommits(r) ==
    /\ runner[r].pc = "applying" /\ lock = r
    /\ LET d == SaveOffset(Effects(db, r), r, runner[r].offset, runner[r].batch.offset)
       IN  db' = d.db
    /\ lock' = Null /\ Leave(r) /\ Advanced(r)
    /\ UNCHANGED counts /\ StoreFrame /\ RunnerFrame

ApplyKeepsWork(r) ==
    /\ runner[r].pc = "applying" /\ lock = r
    /\ runner[r].stop \/ counts.failures < MaxFailures
    /\ IF runner[r].stop THEN UNCHANGED counts ELSE Count("failures")
    /\ lock' = Null /\ Leave(r) /\ Again(r)
    /\ db' = Effects(db, r)
    /\ StoreFrame /\ RunnerFrame

\* The handler failed, was cancelled or touched a forbidden table: rollback.
ApplyRollsBack(r) ==
    /\ runner[r].pc = "applying" /\ lock = r
    /\ runner[r].stop \/ counts.failures < MaxFailures
    /\ IF runner[r].stop THEN UNCHANGED counts ELSE Count("failures")
    /\ lock' = Null /\ Leave(r)
    /\ \/ Finish(r)
       \/ ~runner[r].stop /\ Again(r)
    /\ UNCHANGED db /\ StoreFrame /\ RunnerFrame

RunnerStep(r) ==
    \/ StopAtHead(r) \/ AdmitRegister(r) \/ RegisterRuns(r)
    \/ ReserveBatch(r) \/ ReadRuns(r) \/ HandlerSucceeds(r) \/ SaveRuns(r)
    \/ ApplyBegins(r) \/ ApplyCommits(r)

RunnerFailure(r) == OperationFails(r) \/ HandlerFails(r) \/ ApplyRollsBack(r)

---------------------------------------------------------------------------
(* Everyone else.                                                          *)

\* A durable actor commits a change (DurableState has its protocol).
Write(pid) ==
    /\ counts.writes < MaxWrites /\ Count("writes")
    /\ store = "RUNNING" /\ Ready
    /\ db' = Mutate(db, [kind |-> "write", pid |-> pid, operation |-> db.sequence + 1,
                         content |-> Null, expected |-> RevisionOf(db, pid)]).db
    /\ fed' = Append(fed, pid)
    /\ UNCHANGED <<store, startup, connection, lock, pending, internal,
                   extension, runner, retiring, slots, delivered, base>>

SubmitCompaction ==
    /\ extension = "RUNNING" /\ counts.compactions < MaxCompactions
    /\ Count("compactions")
    /\ LET call == [kind |-> "compact", limit |-> CompactionLimit]
       IN  Accepts(call) /\ pending' = pending \cup {Submitted(Null, call)}
    /\ UNCHANGED <<db, store, startup, connection, lock, internal,
                   extension, runner, retiring, slots, delivered, base, fed>>

SubmitRetire(r) ==
    /\ extension = "RUNNING" /\ counts.compactions < MaxCompactions
    /\ Count("compactions")
    /\ r \notin Handles \cup retiring
    /\ LET call == [kind |-> "retire", projection |-> r]
       IN  Accepts(call) /\ pending' = pending \cup {Submitted(r, call)}
    /\ retiring' = retiring \cup {r}
    /\ UNCHANGED <<db, store, startup, connection, lock, internal,
                   extension, runner, slots, delivered, base, fed>>

StoreRuns(o) == Execute(o) /\ UNCHANGED projectionVars

StoreTimesOut(o) ==
    /\ TimeOut(o)
    /\ UNCHANGED projectionVars

StoreCompletes(o) ==
    /\ Completed(o)
    /\ retiring' = retiring \ {o.from}
    /\ UNCHANGED <<extension, runner, slots, delivered, base, fed, counts>>

\* Shutdown: the projections are prepared before the store, and the store
\* is stopped after the projections have ended.
PrepareProjections ==
    /\ extension = "RUNNING"
    /\ extension' = "STOPPING"
    /\ runner' = [r \in Runners |-> [runner[r] EXCEPT !.stop = r \in Handles]]
    /\ UNCHANGED <<storeVars, retiring, slots, delivered, base, fed, counts>>

StopProjections ==
    /\ extension = "STOPPING" /\ Handles = {}
    /\ extension' = "STOPPED"
    /\ UNCHANGED <<storeVars, runner, retiring, slots, delivered, base, fed, counts>>

StoreOpens == (Start \/ OpenSucceeds) /\ UNCHANGED projectionVars

StoreStops ==
    /\ \/ extension # "RUNNING" /\ PrepareStop
       \/ extension = "STOPPED" /\ (StopDrained \/ StopClosed)
    /\ UNCHANGED projectionVars

\* Effects of at-least-once handlers survive a crash, as does the file.
Crash ==
    /\ counts.crashes < MaxCrashes /\ Count("crashes")
    /\ connection = "open"
    /\ StoreCrash
    /\ extension' = "RUNNING"
    /\ runner' = [r \in Runners |-> NoRunner]
    /\ retiring' = {} /\ slots' = {}
    /\ UNCHANGED <<delivered, base, fed>>

Next ==
    \/ \E r \in Runners : \E mode \in Modes[r], i \in InitialOffsets : StartRunner(r, mode, i)
    \/ \E r \in Runners : RunnerStep(r) \/ RunnerFailure(r) \/ SubmitRetire(r)
    \/ \E pid \in Pids : Write(pid)
    \/ SubmitCompaction
    \/ \E o \in pending : StoreRuns(o) \/ StoreTimesOut(o) \/ StoreCompletes(o)
    \/ PrepareProjections \/ StopProjections \/ StoreOpens \/ StoreStops
    \/ Crash

Spec == Init /\ [][Next]_vars

---------------------------------------------------------------------------
\* The changes a projection owes its handler up to an offset.
Owed(r, offset) == {n \in DOMAIN fed : fed[n] \in Wanted[r] /\ base[r] < n /\ n <= offset}

\* NothingSkipped: an at-least-once projection whose stored offset has passed
\* a change it wants has had its handler finish that change, whatever the
\* batches, the failures, the compactions and the crashes in between.
NothingSkipped ==
    \A r \in Registered(db) : db.offsets[r].source = "at-least-once" =>
       Owed(r, OffsetOf(db, r)) \subseteq delivered[r]

\* The sequence s is the set S, each member once and in ascending order.
Lists(s, S) == Range(s) = S /\ \A i, j \in DOMAIN s : i < j => s[i] < s[j]

\* ExactlyOnce: the effects an exactly-once handler has in the database are
\* those of every change it wants up to the stored offset, once and in order.
ExactlyOnce ==
    \A r \in Registered(db) : db.offsets[r].source = "exactly-once" =>
       Lists(EffectsOf(db, r), Owed(r, OffsetOf(db, r)))

\* HistoryIsThere: while a projection is registered, compaction leaves every
\* change after its offset; a runner in its loop is registered and in step
\* with the stored offset, so it never falls behind compacted history.
HistoryIsThere ==
    /\ \A r \in Registered(db) :
          /\ ~IsCompacted(db, OffsetOf(db, r))
          /\ \A n \in DOMAIN fed : n > OffsetOf(db, r) => n \in Offsets(db.changes)
    /\ \A r \in Handles : runner[r].pc \notin {"register", "registering"} =>
          r \in Registered(db) /\ runner[r].offset = OffsetOf(db, r)

\* ReopenAccepts: whatever the store leaves in the file - writes, offsets,
\* compactions, a crash between any two of them - passes the validation of
\* the next start.
ReopenAccepts == FeedIsValid(db)

============================================================================
