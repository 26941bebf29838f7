---------------------------- MODULE DurableStore ----------------------------
(***************************************************************************)
(* The SQLite store of durable state (src/movie/persistence/sqlite.py):    *)
(* its tables and the transaction of every operation as operators on one   *)
(* record `db`, the admission of operations and the start and stop of the  *)
(* store.  One asyncio lock serialises the transactions on the store's one *)
(* connection, so a transaction is one step; a transaction that calls back *)
(* into user code holds the lock in between.                               *)
(***************************************************************************)
EXTENDS Naturals, Sequences, FiniteSets, FiniteSetsExt

CONSTANTS
    Pids,               \* persistence ids
    Deleted,            \* the content of a tombstone
    Null,
    OperationCapacity,  \* movie.persistence.operation-capacity
    ByteCapacity        \* pending-byte-capacity, in states of the largest size

ASSUME StoreAssumption ==
    /\ OperationCapacity \in Nat \ {0}
    /\ ByteCapacity \in Nat \ {0}

VARIABLES
    db,          \* the database file
    store,       \* SQLiteDurableStateStore._state
    startup,     \* _startup / _startup_settled
    connection,  \* _connection: "none", "open", "closing" or "closed"
    lock,        \* _operation_lock: Null, or who holds it across steps
    pending,     \* _pending: the operations that were submitted
    internal     \* _internal_operations: who is in one

storeVars == <<db, store, startup, connection, lock, pending, internal>>

---------------------------------------------------------------------------
(* The tables.  movie_durable_state and movie_durable_operation by id,     *)
(* movie_durable_change as a set of rows, movie_projection_offset as a     *)
(* function of the registered projections; `sequence` is SQLite's counter  *)
(* of AUTOINCREMENT values, `effects` the tables that exactly-once         *)
(* handlers write in the same file.                                        *)

EmptyTables ==
    [state |-> [p \in Pids |-> Null],
     operations |-> [p \in Pids |-> {}],
     changes |-> {},
     sequence |-> 0, high |-> 0, compacted |-> 0,
     offsets |-> <<>>, effects |-> <<>>]

Offsets(rows) == {row.offset : row \in rows}

Highest(rows) == IF rows = {} THEN 0 ELSE Max(Offsets(rows))

RevisionOf(d, pid) == IF d.state[pid] = Null THEN 0 ELSE d.state[pid].revision

\* The digest of what is written: a delete and every state differ.
Fingerprint(content) ==
    IF content = Deleted THEN <<"delete">> ELSE <<"upsert", content>>

Outcome(d, tag, value) == [db |-> d, tag |-> tag, value |-> value]

LoadRecord(d, pid) == Outcome(d, "ok", d.state[pid])

NothingRecorded(d, w) == {}

Recorded(d, w) == {o \in d.operations[w.pid] : o.operation = w.operation}

\* The rows one accepted write leaves: state, operation, change, watermark.
Written(d, w) ==
    LET revision == RevisionOf(d, w.pid) + 1
        offset == d.sequence + 1
        row == [offset |-> offset, pid |-> w.pid, revision |-> revision,
                operation |-> w.operation, content |-> w.content]
    IN  [d EXCEPT
            !.state[w.pid] = [revision |-> revision, operation |-> w.operation,
                              content |-> w.content],
            !.operations[w.pid] = @ \cup {[operation |-> w.operation,
                                    fingerprint |-> Fingerprint(w.content),
                                    revision |-> revision]},
            !.changes = @ \cup {row},
            !.sequence = offset,
            !.high = Highest(d.changes \cup {row})]

Mutate(d, w) ==
    LET known == Recorded(d, w)
    IN  CASE known # {} ->
               LET o == CHOOSE o \in known : TRUE
               IN  IF o.fingerprint = Fingerprint(w.content)
                   THEN Outcome(d, "duplicate", [revision |-> o.revision])
                   ELSE Outcome(d, "conflict", Null)
          [] known = {} /\ RevisionOf(d, w.pid) # w.expected ->
               Outcome(d, "concurrent", [revision |-> RevisionOf(d, w.pid)])
          [] OTHER ->
               Outcome(Written(d, w), "written",
                       [revision |-> w.expected + 1])

---------------------------------------------------------------------------
(* The change feed and the offsets of the projections.                     *)

\* How far one query looks, and the rows it finds there.
ScanThrough(d, after, scanLimit) == Min({d.high, after + scanLimit})

Scan(d, wanted, after, scanLimit) ==
    {row \in d.changes : /\ row.pid \in wanted
                         /\ row.offset > after
                         /\ row.offset <= ScanThrough(d, after, scanLimit)}

FirstRows(rows, n) ==
    {row \in rows : Cardinality({r \in rows : r.offset < row.offset}) < n}

EndOfWindow(d, rows, n, after, limit, scanLimit) ==
    Max({after, ScanThrough(d, after, scanLimit)})

\* The offset a batch advances to.  Only a query that ran out of rows before
\* its limit has seen everything up to the end of its window.
BatchOffset(d, rows, n, after, limit, scanLimit) ==
    IF n = Cardinality(rows) /\ n < limit
    THEN Max({after, ScanThrough(d, after, scanLimit)})
    ELSE Highest(FirstRows(rows, n))

\* The batches one query may return: the byte limit cuts it after any row
\* but never before the first.
Batches(d, wanted, after, limit, scanLimit) ==
    LET rows == Scan(d, wanted, after, scanLimit)
        sizes == IF rows = {} THEN {0}
                 ELSE 1..Min({limit, Cardinality(rows)})
    IN  {[rows |-> FirstRows(rows, n),
          offset |-> BatchOffset(d, rows, n, after, limit, scanLimit)] :
             n \in sizes}

IsCompacted(d, after) == after < d.compacted

Registered(d) == DOMAIN d.offsets

OffsetOf(d, p) == IF p \in Registered(d) THEN d.offsets[p].offset ELSE 0

WithOffset(d, p, source, offset) ==
    [d EXCEPT !.offsets = [q \in DOMAIN @ \cup {p} |->
        IF q = p THEN [source |-> source, offset |-> offset] ELSE @[q]]]

\* _projection_register: initial is Null or the offset the caller starts from.
Register(d, p, source, initial) ==
    CASE p \in Registered(d) ->
           Outcome(d, IF d.offsets[p].source = source
                      THEN "ok" ELSE "source-conflict", OffsetOf(d, p))
      [] p \notin Registered(d) /\ initial = Null /\ d.compacted > 0 ->
           Outcome(d, "baseline-required", 0)
      [] p \notin Registered(d) /\ initial = Null /\ d.compacted = 0 ->
           Outcome(WithOffset(d, p, source, 0), "ok", 0)
      [] p \notin Registered(d) /\ initial # Null
             /\ ~(d.compacted <= initial /\ initial <= d.high) ->
           Outcome(d, "invalid-baseline", 0)
      [] OTHER ->
           Outcome(WithOffset(d, p, source, initial), "ok", initial)

\* The compare-and-set of _projection_save_offset and _projection_commit.
SaveOffset(d, p, expected, offset) ==
    IF p \in Registered(d) /\ OffsetOf(d, p) = expected
    THEN Outcome([d EXCEPT !.offsets[p].offset = offset], "saved", offset)
    ELSE Outcome(d, "mismatch", OffsetOf(d, p))

LargestOffset(d) ==
    IF Registered(d) = {} THEN 0
    ELSE Max({d.offsets[p].offset : p \in Registered(d)})

MinimumOffset(d) ==
    IF Registered(d) = {} THEN 0
    ELSE Min({d.offsets[p].offset : p \in Registered(d)})

CompactToMinimum(d, limit) ==
    LET rows == FirstRows({row \in d.changes : row.offset <= MinimumOffset(d)}, limit)
    IN  Outcome([d EXCEPT !.changes = {row \in @ : row.offset > Highest(rows)},
                          !.compacted = d.high],
                "ok", [count |-> Cardinality(rows)])

CompactChanges(d, limit) ==
    LET rows == FirstRows({row \in d.changes : row.offset <= MinimumOffset(d)},
                          limit)
    IN  IF rows = {}
        THEN Outcome(d, "ok", [count |-> 0])
        ELSE Outcome([d EXCEPT
                 !.changes = {row \in @ : row.offset > Highest(rows)},
                 !.compacted = Highest(rows)], "ok",
                 [count |-> Cardinality(rows)])

Retire(d, p) ==
    Outcome([d EXCEPT !.offsets = [q \in DOMAIN @ \ {p} |-> @[q]]],
            "ok", [count |-> IF p \in Registered(d) THEN 1 ELSE 0])

\* What _validate_schema demands of the feed before a store opens a file.
FeedIsValid(d) ==
    /\ d.sequence = d.high
    /\ Highest(d.changes) = IF d.compacted = d.high THEN 0 ELSE d.high

---------------------------------------------------------------------------
(* Admission.  An operation is refused when the store is not running or is *)
(* at one of its capacities; a projection's own operations are admitted    *)
(* while the store stops, too.                                             *)

InUse == Cardinality(pending) + Cardinality(internal)

Bytes(call) == IF call.kind = "write" /\ call.content # Deleted THEN 1 ELSE 0

PendingBytes == Cardinality({o \in pending : Bytes(o.call) = 1})

Accepts(call) ==
    /\ store = "RUNNING"
    /\ InUse < OperationCapacity
    /\ PendingBytes + Bytes(call) <= ByteCapacity

Submitted(from, call) ==
    [from |-> from, call |-> call, stage |-> "waiting", tag |-> "none", value |-> Null]

AcceptsInternal ==
    /\ store \in {"RUNNING", "STOPPING"}
    /\ InUse < OperationCapacity

---------------------------------------------------------------------------
(* One operation on the I/O worker: it waits for the lock and runs its     *)
(* transaction, or passes its deadline (waiting, or blocked by another     *)
(* process) and is rolled back.                                            *)

Transaction(d, call) ==
    CASE call.kind = "load" -> LoadRecord(d, call.pid)
      [] call.kind = "write" -> Mutate(d, call)
      [] call.kind = "compact" -> CompactChanges(d, call.limit)
      [] call.kind = "retire" -> Retire(d, call.projection)

Settled(o, tag, value) == [o EXCEPT !.stage = "settled", !.tag = tag, !.value = value]

Replace(o, p) == (pending \ {o}) \cup {p}

Execute(o) ==
    /\ o.stage = "waiting" /\ lock = Null /\ connection = "open"
    /\ LET r == Transaction(db, o.call)
       IN  /\ db' = r.db
           /\ pending' = Replace(o, Settled(o, r.tag, r.value))
    /\ UNCHANGED <<store, startup, connection, lock, internal>>

TimeOut(o) ==
    /\ o.stage = "waiting"
    /\ pending' = Replace(o, Settled(o, "timeout", Null))
    /\ UNCHANGED <<db, store, startup, connection, lock, internal>>

\* The done callback of _submit; what it does with the answer is its caller's.
Completed(o) ==
    /\ o.stage = "settled"
    /\ pending' = pending \ {o}
    /\ UNCHANGED <<db, store, startup, connection, lock, internal>>

---------------------------------------------------------------------------
(* Start and stop.  A start that passes its deadline raises in its caller  *)
(* while the open it submitted goes on; whoever stops the store waits for  *)
(* that open, for the pending and for the internal operations.             *)

StoreInit ==
    /\ db = EmptyTables
    /\ store = "NEW" /\ startup = "none" /\ connection = "none"
    /\ lock = Null /\ pending = {} /\ internal = {}

Start ==
    /\ store = "NEW"
    /\ store' = "STARTING" /\ startup' = "opening"
    /\ UNCHANGED <<db, connection, lock, pending, internal>>

OpenSucceeds ==
    /\ startup = "opening" /\ FeedIsValid(db)
    /\ startup' = "settled" /\ connection' = "open"
    /\ store' = IF store = "STARTING" THEN "RUNNING" ELSE store
    /\ UNCHANGED <<db, lock, pending, internal>>

OpenFails ==
    /\ startup = "opening"
    /\ startup' = "settled"
    /\ store' = IF store = "STARTING" THEN "STOPPED" ELSE store
    /\ UNCHANGED <<db, connection, lock, pending, internal>>

PrepareStop ==
    /\ store \in {"STARTING", "RUNNING"}
    /\ store' = "STOPPING"
    /\ UNCHANGED <<db, startup, connection, lock, pending, internal>>

StopNew ==
    /\ store = "NEW"
    /\ store' = "STOPPED"
    /\ UNCHANGED <<db, startup, connection, lock, pending, internal>>

Drained == startup = "settled" /\ pending = {} /\ internal = {}

\* _stop_before past its waits: the connection is closed, once.
StopDrained ==
    /\ store = "STOPPING" /\ Drained /\ connection \in {"none", "open"}
    /\ IF connection = "open"
       THEN connection' = "closing" /\ UNCHANGED store
       ELSE store' = "STOPPED" /\ UNCHANGED connection
    /\ UNCHANGED <<db, startup, lock, pending, internal>>

StopClosed ==
    /\ store = "STOPPING" /\ connection = "closing"
    /\ store' = "STOPPED" /\ connection' = "closed"
    /\ UNCHANGED <<db, startup, lock, pending, internal>>

\* The process dies and is started again: only the file is left.
StoreCrash ==
    /\ store' = "NEW" /\ startup' = "none" /\ connection' = "none"
    /\ lock' = Null /\ pending' = {} /\ internal' = {}
    /\ UNCHANGED db

Lifecycle ==
    Start \/ OpenSucceeds \/ OpenFails \/ PrepareStop \/ StopNew \/ StopDrained \/ StopClosed

============================================================================
