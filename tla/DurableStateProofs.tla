------------------------- MODULE DurableStateProofs -------------------------
(***************************************************************************)
(* DurableState.tla for any actors, persistence ids, commands and          *)
(* capacities, and any number of restarts, commands and crashes: what      *)
(* callbacks are told is durable, what an actor holds is committed, and an *)
(* operation is applied once.                                              *)
(***************************************************************************)
EXTENDS DurableState, TLAPS

Operations == {c.operation : c \in Commands}
Contents == {c.content : c \in Commands}
States == {Candidate(x) : x \in Contents} \cup {Empty}
Phases == {"RECOVERING", "RUNNING", "PERSISTING", "STOPPING"}

Record == [revision : Nat, operation : Operations, content : Contents]

Row == [offset : Nat, pid : Pids, revision : Nat, operation : Operations, content : Contents]

Performed == [operation : Operations, fingerprint : {Fingerprint(x) : x \in Contents},
              revision : Nat]

Tables == [state : [Pids -> Record \cup {Null}], operations : [Pids -> SUBSET Performed],
           changes : SUBSET Row, sequence : Nat, high : Nat, compacted : {0},
           offsets : {<<>>}, effects : {<<>>}]

Behavior == [phase : Phases, generation : Nat, revision : Nat, state : States,
             effect : [operation : Operations \cup {Null}, content : States \cup {Null},
                       stop : {c.stop : c \in Commands} \cup {FALSE}]]

Call == [kind : {"load"}, pid : Pids] \cup
        [kind : {"write"}, pid : Pids, operation : Operations, content : Contents, expected : Nat]

Answer == Record \cup [revision : Nat] \cup {Null}

Tags == {"none", "ok", "timeout", "written", "duplicate", "conflict", "concurrent"}

Operation == [from : [actor : Actors, generation : Nat, duplicate : BOOLEAN], call : Call,
              stage : {"waiting", "settled"}, tag : Tags, value : Answer]

\* The types of the tables, the actors, and the operations and answers on
\* their way between them.
TypeOK ==
    /\ db \in Tables /\ history \in Seq(Row)
    /\ actor \in [Actors -> Behavior]
    /\ pending \subseteq Operation /\ control \subseteq Operation
    /\ \A o \in pending \cup control : o.call.pid = PidOf[o.from.actor]

\* The tables and the history agree: a record is the last change of its id,
\* an operation is known when a change is its, under the digest of the content.
TablesInv ==
    /\ \A row \in db.changes : row.offset <= db.sequence
    /\ \A p \in Pids :
          IF db.state[p] = Null THEN Changes(p) = {}
          ELSE /\ CommittedState(p, db.state[p].revision, Candidate(db.state[p].content))
               /\ \A i \in Changes(p) : history[i].revision <= db.state[p].revision
    /\ \A p \in Pids, i \in DOMAIN history : history[i].pid = p =>
          \E o \in db.operations[p] : o.operation = history[i].operation
    /\ \A p \in Pids, x \in Contents : \A o \in db.operations[p] :
          o.fingerprint = Fingerprint(x) => CommittedEffect(p, o.operation, Candidate(x))

InFlight == pending \cup control

\* What an answer says is committed.
AnswerOk(o) ==
    /\ o.from.duplicate => o.call.kind = "load" /\ db.state[o.call.pid] # Null
    /\ o.stage = "settled" /\ o.call.kind = "load" /\ o.tag = "ok" =>
          \/ o.value = Null /\ ~o.from.duplicate
          \/ /\ o.value \in Record
             /\ CommittedState(o.call.pid, o.value.revision, Candidate(o.value.content))
    /\ o.stage = "settled" /\ o.call.kind = "write" /\ o.tag \in {"written", "duplicate"} =>
          CommittedEffect(o.call.pid, o.call.operation, Candidate(o.call.content))
    /\ o.stage = "settled" /\ o.call.kind = "write" /\ o.tag = "written" =>
          /\ o.value \in [revision : Nat]
          /\ CommittedState(o.call.pid, o.value.revision, Candidate(o.call.content))

Current(o) == o.from.generation = actor[o.from.actor].generation

\* An operation of the behaviour instance that is there now is the one its
\* phase waits for; any other is of an earlier instance.
FlightOk(o) ==
    LET b == actor[o.from.actor]
    IN  /\ o.from.generation <= b.generation
        /\ Current(o) => b.phase # "RUNNING"
        /\ Current(o) /\ b.phase = "RECOVERING" => o.call.kind = "load"
        /\ Current(o) /\ b.phase = "RECOVERING" /\ o.from.duplicate =>
              CommittedEffect(PidOf[o.from.actor], b.effect.operation, b.effect.content)
        /\ Current(o) /\ b.phase = "PERSISTING" =>
              /\ o.call.kind = "write" /\ o.call.operation = b.effect.operation
              /\ Candidate(o.call.content) = b.effect.content

Same(o, p) == o.from.actor = p.from.actor /\ o.from.generation = p.from.generation

\* A behaviour instance has one operation on its way at most.
FlightInv ==
    /\ pending \cap control = {}
    /\ \A o \in control : o.stage = "settled"
    /\ \A o, p \in InFlight : Same(o, p) => o = p
    /\ \A o \in InFlight : AnswerOk(o) /\ FlightOk(o)

\* The inductive invariant.
IInv == TypeOK /\ AppliedOnce /\ TablesInv /\ FlightInv
        /\ RunningIsCommitted /\ AcknowledgedIsDurable

-----------------------------------------------------------------------------
(* What the operations of DurableStore.tla compute, for any tables.        *)

\* AUTOINCREMENT: the offset after all others is the highest.
LEMMA HighestNew ==
    ASSUME NEW rows, NEW row, NEW n \in Nat, \A r \in rows : r.offset \in Nat /\ r.offset <= n,
           row.offset = n + 1
    PROVE  Highest(rows \cup {row}) = n + 1
<1> DEFINE all == Offsets(rows \cup {row})
<1>1. n + 1 \in all /\ \A y \in all : y \in Nat /\ n + 1 >= y
  <2>1. n + 1 \in all
    BY Zenon DEF Offsets
  <2>2. ASSUME NEW y \in all PROVE y \in Nat /\ n + 1 >= y
    <3>1. PICK r \in rows \cup {row} : y = r.offset
      BY Zenon DEF Offsets
    <3>2. QED BY <3>1
  <2>3. QED BY <2>1, <2>2, Zenon
<1> HIDE DEF all
<1>2. \A x \in all : (\A y \in all : x >= y) => x = n + 1
  BY <1>1
<1>3. Max(all) = n + 1
  BY <1>1, <1>2, Zenon DEF Max
<1>4. rows \cup {row} # {}
  BY Zenon
<1>5. QED BY <1>3, <1>4, Zenon DEF Highest, all

\* A digest identifies what is written.
LEMMA FingerprintInjective ==
    ASSUME NEW x, NEW y, Fingerprint(x) = Fingerprint(y) PROVE x = y
BY Zenon DEF Fingerprint

\* _mutate writes a new revision, when the operation is unknown and the
\* revision is the expected one, or leaves the tables as they are.
LEMMA MutateCases ==
    ASSUME NEW d, NEW w
    PROVE  LET r == Mutate(d, w)
           IN  \/ /\ r.tag = "duplicate" /\ r.db = d
                  /\ \E o \in d.operations[w.pid] :
                        /\ o.operation = w.operation /\ o.fingerprint = Fingerprint(w.content)
                        /\ r.value = [revision |-> o.revision]
               \/ r.tag = "conflict" /\ r.db = d /\ r.value = Null
               \/ /\ r.tag = "concurrent" /\ r.db = d
                  /\ r.value = [revision |-> RevisionOf(d, w.pid)]
               \/ /\ r.tag = "written" /\ r.db = Written(d, w)
                  /\ r.value = [revision |-> w.expected + 1]
                  /\ RevisionOf(d, w.pid) = w.expected
                  /\ \A o \in d.operations[w.pid] : o.operation # w.operation
<1> DEFINE known == Recorded(d, w)
<1>1. CASE known # {}
  <2> DEFINE o == CHOOSE o \in known : TRUE
  <2>1. o \in known
    BY <1>1, Zenon
  <2>2. o \in d.operations[w.pid] /\ o.operation = w.operation
    BY <2>1, Zenon DEF Recorded
  <2>3. Mutate(d, w) = IF o.fingerprint = Fingerprint(w.content)
                       THEN Outcome(d, "duplicate", [revision |-> o.revision])
                       ELSE Outcome(d, "conflict", Null)
    BY <1>1, Zenon DEF Mutate
  <2> HIDE DEF o
  <2>4. QED BY <2>2, <2>3 DEF Outcome
<1>2. CASE known = {} /\ RevisionOf(d, w.pid) # w.expected
  <2>1. Mutate(d, w) = Outcome(d, "concurrent", [revision |-> RevisionOf(d, w.pid)])
    BY <1>2, Zenon DEF Mutate
  <2>2. QED BY <2>1 DEF Outcome
<1>3. CASE known = {} /\ RevisionOf(d, w.pid) = w.expected
  <2>1. Mutate(d, w) = Outcome(Written(d, w), "written", [revision |-> w.expected + 1])
    BY <1>3, Zenon DEF Mutate
  <2>2. \A o \in d.operations[w.pid] : o.operation # w.operation
    BY <1>3, Zenon DEF Recorded
  <2>3. QED BY <1>3, <2>1, <2>2 DEF Outcome
<1>4. QED BY <1>1, <1>2, <1>3, Zenon

-----------------------------------------------------------------------------
\* What was committed stays committed.
LEMMA Grows ==
    ASSUME history \in Seq(Row), NEW row, history' = history \/ history' = Append(history, row)
    PROVE  /\ \A i \in DOMAIN history : i \in DOMAIN history' /\ history'[i] = history[i]
           /\ \A p, op, x : CommittedEffect(p, op, x) => CommittedEffect(p, op, x)'
           /\ \A p, n, x : CommittedState(p, n, x) => CommittedState(p, n, x)'
<1>1. \A i \in DOMAIN history : i \in DOMAIN history' /\ history'[i] = history[i]
  OBVIOUS
<1>2. QED BY <1>1, Zenon DEF CommittedEffect, CommittedState, Changes

\* The tables, and what was committed, do not change with the actors.
LEMMA TablesFrame ==
    ASSUME UNCHANGED <<db, history>>
    PROVE  /\ AppliedOnce => AppliedOnce'
           /\ TablesInv => TablesInv'
           /\ \A p, op, x : CommittedEffect(p, op, x)' <=> CommittedEffect(p, op, x)
           /\ \A p, n, x : CommittedState(p, n, x)' <=> CommittedState(p, n, x)
           /\ \A o : AnswerOk(o) => AnswerOk(o)'
<1>1. /\ \A p : Changes(p)' = Changes(p)
      /\ \A p, op, x : CommittedEffect(p, op, x)' <=> CommittedEffect(p, op, x)
      /\ \A p, n, x : CommittedState(p, n, x)' <=> CommittedState(p, n, x)
  BY Zenon DEF CommittedEffect, CommittedState, Changes
<1>2. AppliedOnce => AppliedOnce'
  BY <1>1, ZenonT(60) DEF AppliedOnce
<1>3. TablesInv => TablesInv'
  BY <1>1, ZenonT(60) DEF TablesInv
<1>4. \A o : AnswerOk(o) => AnswerOk(o)'
  BY <1>1, ZenonT(60) DEF AnswerOk
<1>5. QED BY <1>1, <1>2, <1>3, <1>4, Zenon

\* An operation whose actor does not change stays the one it waits for.
LEMMA FlightFrame ==
    ASSUME NEW o, FlightOk(o), actor'[o.from.actor] = actor[o.from.actor],
           \A p, op, x : CommittedEffect(p, op, x) => CommittedEffect(p, op, x)'
    PROVE  FlightOk(o)'
BY Zenon DEF FlightOk, Current

\* One whose actor has stopped, or is a later instance, is waited for by none.
LEMMA FlightQuiet ==
    ASSUME NEW o, o.from.generation <= actor'[o.from.actor].generation,
           \/ actor'[o.from.actor].phase = "STOPPING"
           \/ o.from.generation # actor'[o.from.actor].generation
    PROVE  FlightOk(o)'
BY Zenon DEF FlightOk, Current

-----------------------------------------------------------------------------
(* Steps of the actors that submit nothing, and of the process.            *)

\* A behaviour whose phase becomes STOPPING keeps everything else true.
LEMMA StopsInv ==
    ASSUME IInv, NEW a \in Actors, actor' = [actor EXCEPT ![a].phase = "STOPPING"],
           pending' = pending, control' \subseteq control, UNCHANGED <<db, history, acked>>
    PROVE  IInv'
<1>1. actor \in [Actors -> Behavior]
  BY Zenon DEF IInv, TypeOK
<1>2. /\ actor' \in [Actors -> Behavior]
      /\ actor'[a].phase = "STOPPING" /\ actor'[a].generation = actor[a].generation
      /\ \A b \in Actors : b # a => actor'[b] = actor[b]
  BY <1>1, ZenonT(60) DEF Behavior, Phases
<1>3. TypeOK'
  BY <1>2, Zenon DEF IInv, TypeOK
<1>4. AppliedOnce' /\ TablesInv' /\ AcknowledgedIsDurable'
  BY TablesFrame, Zenon DEF IInv, AcknowledgedIsDurable
<1>5. RunningIsCommitted'
  BY <1>2, TablesFrame, Zenon DEF IInv, RunningIsCommitted
<1>6. FlightInv'
  <2>1. InFlight' \subseteq InFlight
    BY Zenon DEF InFlight
  <2>2. ASSUME NEW o \in InFlight' PROVE AnswerOk(o)' /\ FlightOk(o)'
    <3>1. o \in InFlight /\ o.from.actor \in Actors
      BY <2>1, Zenon DEF IInv, TypeOK, InFlight, Operation
    <3>2. AnswerOk(o)' /\ FlightOk(o)
      BY <3>1, TablesFrame, Zenon DEF IInv, FlightInv
    <3>3. CASE o.from.actor = a
      <4>1. o.from.generation <= actor[a].generation
        BY <3>2, <3>3, Zenon DEF FlightOk
      <4>2. QED BY <1>2, <3>2, <3>3, <4>1, FlightQuiet, Zenon
    <3>4. CASE o.from.actor # a
      <4>1. actor'[o.from.actor] = actor[o.from.actor]
        BY <1>2, <3>1, <3>4, Zenon
      <4>2. QED BY <3>2, <4>1, FlightFrame, TablesFrame, Zenon
    <3>5. QED BY <3>3, <3>4, Zenon
  <2>3. QED BY <2>1, <2>2, Zenon DEF IInv, FlightInv, Same
<1>7. QED BY <1>3, <1>4, <1>5, <1>6, Zenon DEF IInv

\* Fail.
LEMMA FailInv == ASSUME IInv, NEW a \in Actors, Fail(a) PROVE IInv'
BY StopsInv, Zenon DEF Fail, storeVars

\* Every other step of the store's life, and a step that changes nothing.
LEMMA FrameInv ==
    ASSUME IInv, UNCHANGED <<db, history, acked, actor, pending, control>>
    PROVE  IInv'
<1>1. TypeOK'
  BY Zenon DEF IInv, TypeOK
<1>2. AppliedOnce' /\ TablesInv' /\ AcknowledgedIsDurable' /\ RunningIsCommitted'
  BY TablesFrame, Zenon DEF IInv, AcknowledgedIsDurable, RunningIsCommitted
<1>3. FlightInv'
  <2>1. \A o \in InFlight : AnswerOk(o)' /\ FlightOk(o)'
    BY TablesFrame, FlightFrame, Zenon DEF IInv, FlightInv
  <2>2. InFlight' = InFlight
    BY Zenon DEF InFlight
  <2>3. QED BY <2>1, <2>2, Zenon DEF IInv, FlightInv, Same
<1>4. QED BY <1>1, <1>2, <1>3, Zenon DEF IInv

\* The process dies: nothing is on its way, and no behaviour runs.
LEMMA CrashInv == ASSUME IInv, Crash PROVE IInv'
<1>1. /\ pending' = {} /\ control' = {} /\ UNCHANGED <<db, history, acked>>
      /\ actor' = [a \in Actors |-> [NotSpawned EXCEPT !.generation = actor[a].generation]]
  BY Zenon DEF Crash, StoreCrash
<1>2. actor' \in [Actors -> Behavior] /\ \A a \in Actors : actor'[a].phase = "STOPPING"
  <2>1. ASSUME NEW a \in Actors
        PROVE  /\ [NotSpawned EXCEPT !.generation = actor[a].generation] \in Behavior
               /\ [NotSpawned EXCEPT !.generation = actor[a].generation].phase = "STOPPING"
    BY Zenon DEF IInv, TypeOK, NotSpawned, NoEffect, Behavior, Phases, States
  <2>2. QED BY <1>1, <2>1, Zenon
<1>3. TypeOK'
  BY <1>1, <1>2, Zenon DEF IInv, TypeOK
<1>4. AppliedOnce' /\ TablesInv' /\ AcknowledgedIsDurable'
  BY <1>1, TablesFrame, Zenon DEF IInv, AcknowledgedIsDurable
<1>5. RunningIsCommitted' /\ FlightInv'
  BY <1>1, <1>2, Zenon DEF RunningIsCommitted, FlightInv, InFlight
<1>6. QED BY <1>3, <1>4, <1>5, Zenon DEF IInv

-----------------------------------------------------------------------------
(* Steps that submit an operation.                                         *)

\* A behaviour instance that has nothing on its way may submit what its new
\* phase waits for.
LEMMA SubmitsInv ==
    ASSUME IInv, NEW a \in Actors, NEW b \in Behavior, NEW n \in Operation,
           actor' = [actor EXCEPT ![a] = b], pending' = pending \cup {n},
           control' \subseteq control, UNCHANGED <<db, history, acked>>,
           n.from.actor = a, n.from.generation = b.generation, n.stage = "waiting",
           n.call.pid = PidOf[a], actor[a].generation <= b.generation,
           \A o \in pending \cup control' : ~Same(o, n),
           AnswerOk(n), FlightOk(n)',
           b.phase \in {"RUNNING", "PERSISTING"} =>
              /\ actor[a].phase = "RUNNING"
              /\ b.revision = actor[a].revision /\ b.state = actor[a].state
    PROVE  IInv'
<1>1. actor \in [Actors -> Behavior]
  BY Zenon DEF IInv, TypeOK
<1>2. /\ actor' \in [Actors -> Behavior] /\ actor'[a] = b
      /\ \A c \in Actors : c # a => actor'[c] = actor[c]
  BY <1>1, Zenon
<1>3. TypeOK'
  BY <1>2, Zenon DEF IInv, TypeOK
<1>4. AppliedOnce' /\ TablesInv' /\ AcknowledgedIsDurable'
  BY TablesFrame, Zenon DEF IInv, AcknowledgedIsDurable
<1>5. RunningIsCommitted'
  <2>1. ASSUME NEW c \in Actors, actor'[c].phase \in {"RUNNING", "PERSISTING"}
        PROVE  /\ actor[c].phase \in {"RUNNING", "PERSISTING"}
               /\ actor'[c].revision = actor[c].revision /\ actor'[c].state = actor[c].state
    BY <1>2, <2>1, Zenon
  <2>2. QED BY <2>1, TablesFrame, ZenonT(60) DEF IInv, RunningIsCommitted
<1>6. FlightInv'
  <2>1. InFlight' = pending \cup control' \cup {n} /\ pending \cup control' \subseteq InFlight
    BY Zenon DEF InFlight
  <2>2. ASSUME NEW o \in pending \cup control' PROVE AnswerOk(o)' /\ FlightOk(o)'
    <3>1. o \in InFlight /\ o.from.actor \in Actors /\ o.from.generation \in Nat
      BY <2>1, Zenon DEF IInv, TypeOK, InFlight, Operation
    <3>2. AnswerOk(o)' /\ FlightOk(o)
      BY <3>1, TablesFrame, Zenon DEF IInv, FlightInv
    <3>3. CASE o.from.actor = a
      <4>1. o.from.generation <= actor[a].generation /\ o.from.generation # b.generation
        BY <3>2, <3>3, Zenon DEF FlightOk, Same
      <4>2. actor[a].generation \in Nat /\ b.generation \in Nat
        BY <1>1, Zenon DEF Behavior
      <4>3. o.from.generation <= b.generation
        BY <3>1, <4>1, <4>2, SMTT(45)
      <4>4. QED BY <1>2, <3>2, <3>3, <4>1, <4>3, FlightQuiet, Zenon
    <3>4. CASE o.from.actor # a
      <4>1. actor'[o.from.actor] = actor[o.from.actor]
        BY <1>2, <3>1, <3>4, Zenon
      <4>2. QED BY <3>2, <4>1, FlightFrame, TablesFrame, Zenon
    <3>5. QED BY <3>3, <3>4, Zenon
  <2>3. AnswerOk(n)'
    BY TablesFrame, Zenon
  <2>4. n \notin control'
    BY Zenon DEF IInv, FlightInv
  <2>5. pending' \cap control' = {} /\ \A o \in control' : o.stage = "settled"
    BY <2>4, Zenon DEF IInv, FlightInv
  <2>6. \A o, p \in InFlight' : Same(o, p) => o = p
    <3>1. \A o, p \in pending \cup control' : Same(o, p) => o = p
      BY <2>1, Zenon DEF IInv, FlightInv
    <3>2. \A o \in pending \cup control' : ~Same(n, o)
      BY Zenon DEF Same
    <3>3. QED BY <2>1, <3>1, <3>2, Zenon
  <2>7. \A o \in InFlight' : AnswerOk(o)' /\ FlightOk(o)'
    BY <2>1, <2>2, <2>3, Zenon
  <2>8. Same(n, n)
    BY Zenon DEF Same
  <2>9. QED BY <2>5, <2>6, <2>7, Zenon DEF FlightInv, Same
<1>7. QED BY <1>3, <1>4, <1>5, <1>6, Zenon DEF IInv

\* An operation as it is submitted is well typed.
LEMMA SubmittedType ==
    ASSUME NEW a \in Actors, NEW g \in Nat, NEW d \in BOOLEAN, NEW call \in Call, NEW n,
           n = Submitted([actor |-> a, generation |-> g, duplicate |-> d], call)
    PROVE  /\ n \in Operation /\ n.stage = "waiting" /\ n.call = call
           /\ n.from.actor = a /\ n.from.generation = g /\ n.from.duplicate = d
<1>1. Null \in Answer /\ "none" \in Tags
  BY Zenon DEF Answer, Tags
<1>2. PICK from \in [actor : Actors, generation : Nat, duplicate : BOOLEAN] :
         from = [actor |-> a, generation |-> g, duplicate |-> d]
  BY Zenon
<1>3. n = Submitted(from, call)
  BY <1>2, Zenon
<1>4. n.stage = "waiting" /\ n.call = call /\ n.from = from
  BY <1>3 DEF Submitted
<1>6. n \in Operation
  <2>1. n = [from |-> from, call |-> call, stage |-> "waiting", tag |-> "none", value |-> Null]
    BY <1>3, Zenon DEF Submitted
  <2>2. QED BY <1>1, <2>1 DEF Operation
<1>5. QED BY <1>2, <1>4, <1>6

\* A load of one's own record, and the write of a command, are calls.
LEMMA CallTypes ==
    ASSUME NEW a \in Actors
    PROVE  /\ LoadCall(a) \in Call /\ LoadCall(a).kind = "load" /\ LoadCall(a).pid = PidOf[a]
           /\ TypeOK => \A c \in Commands :
                 LET w == WriteCall(a, c)
                 IN  /\ w \in Call /\ w.kind = "write" /\ w.pid = PidOf[a]
                     /\ w.operation = c.operation /\ w.content = c.content
<1>1. PidOf[a] \in Pids
  BY BehaviorAssumption, Zenon
<1>2. LoadCall(a) \in Call /\ LoadCall(a).kind = "load" /\ LoadCall(a).pid = PidOf[a]
  BY <1>1, Zenon DEF LoadCall, Call
<1>3. ASSUME TypeOK, NEW c \in Commands
      PROVE  LET w == WriteCall(a, c)
             IN  /\ w \in Call /\ w.kind = "write" /\ w.pid = PidOf[a]
                 /\ w.operation = c.operation /\ w.content = c.content
  <2>1. actor[a].revision \in Nat /\ c.operation \in Operations /\ c.content \in Contents
    BY <1>3, Zenon DEF TypeOK, Behavior, Operations, Contents
  <2>2. QED BY <1>1, <2>1, Zenon DEF WriteCall, Call
<1>4. QED BY <1>2, <1>3, Zenon

\* Materialize: a new instance recovers, or fails at once.
LEMMA MaterializeInv == ASSUME IInv, NEW a \in Actors, Materialize(a) PROVE IInv'
<1> DEFINE new == NewBehavior(a)
<1>1. actor[a] \in Behavior /\ actor[a].generation \in Nat /\ actor[a].phase = "STOPPING"
  BY Zenon DEF IInv, TypeOK, Behavior, Materialize
<1>4. PICK g \in Nat : g = actor[a].generation + 1
  BY <1>1
<1>2. new \in Behavior /\ new.generation = g
  <2>1. new = [NotSpawned EXCEPT !.generation = g]
    BY <1>4, Zenon DEF NewBehavior
  <2>2. NotSpawned \in Behavior
    BY Zenon DEF NotSpawned, NoEffect, Behavior, Phases, States
  <2> HIDE DEF new
  <2>3. QED BY <2>1, <2>2, Zenon DEF Behavior
<1>3. UNCHANGED <<db, history, acked, control>>
  BY Zenon DEF Materialize
<1>5. CASE Accepts(LoadCall(a))
  <2>1. PICK b : b = [new EXCEPT !.phase = "RECOVERING"]
    BY Zenon
  <2>0. PICK d \in BOOLEAN : d = FALSE
    BY Zenon
  <2>2. PICK n : n = Submitted([actor |-> a, generation |-> g, duplicate |-> d], LoadCall(a))
    BY Zenon
  <2>3. actor' = [actor EXCEPT ![a] = b] /\ pending' = pending \cup {n}
    BY <1>2, <1>4, <1>5, <2>0, <2>1, <2>2, Zenon DEF Materialize, BeginRecovery
  <2>4. b \in Behavior /\ b.phase = "RECOVERING" /\ b.generation = g
    BY <1>2, <1>4, <2>1, Zenon DEF Behavior, Phases
  <2>5. /\ n \in Operation /\ n.stage = "waiting" /\ n.call = LoadCall(a)
        /\ n.from.actor = a /\ n.from.generation = g /\ ~n.from.duplicate
        /\ n.call.kind = "load" /\ n.call.pid = PidOf[a]
    BY <2>0, <2>2, SubmittedType, CallTypes, SMTT(45)
  <2>6. \A o \in InFlight : ~Same(o, n)
    <3>1. \A o \in InFlight : o.from.generation \in Nat /\ o.from.generation <= actor[o.from.actor].generation
      BY Zenon DEF IInv, FlightInv, FlightOk, TypeOK, InFlight, Operation
    <3>2. QED BY <1>1, <1>4, <2>5, <3>1, SMTT(45) DEF Same
  <2>7. AnswerOk(n)
    BY <2>5, Zenon DEF AnswerOk
  <2>8. actor'[a] = b
    BY <2>3, Zenon DEF IInv, TypeOK
  <2>9. FlightOk(n)'
    BY <2>4, <2>5, <2>8, SMTT(45) DEF FlightOk, Current
  <2>10. /\ actor[a].generation <= b.generation /\ n.from.generation = b.generation
         /\ \A o \in pending \cup control' : ~Same(o, n)
         /\ b.phase \notin {"RUNNING", "PERSISTING"}
    BY <1>1, <1>3, <1>4, <2>4, <2>5, <2>6, SMTT(45) DEF InFlight
  <2>11. QED BY <1>3, <2>3, <2>4, <2>5, <2>7, <2>9, <2>10, SubmitsInv, Zenon
<1>6. CASE ~Accepts(LoadCall(a))
  <2>1. PICK b : b = [new EXCEPT !.phase = "STOPPING"]
    BY Zenon
  <2>2. actor' = [actor EXCEPT ![a] = b] /\ pending' = pending
    BY <1>6, <2>1, Zenon DEF Materialize, BeginRecovery
  <2>3. b \in Behavior /\ b.phase = "STOPPING" /\ b.generation = actor[a].generation + 1
    BY <1>2, <1>4, <2>1, Zenon DEF Behavior, Phases
  <2>4. /\ actor' \in [Actors -> Behavior] /\ actor'[a] = b
        /\ \A c \in Actors : c # a => actor'[c] = actor[c]
    BY <2>2, <2>3, Zenon DEF IInv, TypeOK
  <2>5. TypeOK'
    BY <1>3, <2>2, <2>4, Zenon DEF IInv, TypeOK
  <2>6. AppliedOnce' /\ TablesInv' /\ AcknowledgedIsDurable'
    BY <1>3, TablesFrame, Zenon DEF IInv, AcknowledgedIsDurable
  <2>7. RunningIsCommitted'
    BY <1>3, <2>3, <2>4, TablesFrame, Zenon DEF IInv, RunningIsCommitted
  <2>8. InFlight' = InFlight
    BY <1>3, <2>2, Zenon DEF InFlight
  <2>9. ASSUME NEW o \in InFlight PROVE AnswerOk(o)' /\ FlightOk(o)'
    <3>1. o.from.actor \in Actors /\ o.from.generation \in Nat
      BY Zenon DEF IInv, TypeOK, InFlight, Operation
    <3>2. AnswerOk(o)' /\ FlightOk(o)
      BY <1>3, TablesFrame, Zenon DEF IInv, FlightInv
    <3>3. CASE o.from.actor = a
      <4>1. o.from.generation <= actor[a].generation
        BY <3>2, <3>3, Zenon DEF FlightOk
      <4>2. o.from.generation <= b.generation
        BY <1>1, <2>3, <3>1, <4>1
      <4>3. QED BY <2>3, <2>4, <3>2, <3>3, <4>2, FlightQuiet, Zenon
    <3>4. CASE o.from.actor # a
      <4>1. actor'[o.from.actor] = actor[o.from.actor]
        BY <2>4, <3>1, <3>4, Zenon
      <4>2. QED BY <1>3, <3>2, <4>1, FlightFrame, TablesFrame, Zenon
    <3>5. QED BY <3>3, <3>4, Zenon
  <2>10. FlightInv'
    BY <1>3, <2>2, <2>8, <2>9, Zenon DEF IInv, FlightInv, Same
  <2>11. QED BY <2>5, <2>6, <2>7, <2>10, Zenon DEF IInv
<1>7. QED BY <1>5, <1>6, Zenon

\* ProcessCommand: the write of the command is submitted and the behaviour
\* waits for it, or fails at once.
LEMMA ProcessInv ==
    ASSUME IInv, NEW a \in Actors, NEW c \in Commands, ProcessCommand(a, c) PROVE IInv'
<1>1. actor[a] \in Behavior /\ actor[a].phase = "RUNNING" /\ TypeOK
  BY Zenon DEF IInv, TypeOK, ProcessCommand
<1>2. UNCHANGED <<db, history, acked, control>>
  BY Zenon DEF ProcessCommand
<1>3. CASE Accepts(WriteCall(a, c))
  <2>0. PICK d \in BOOLEAN : d = FALSE
    BY Zenon
  <2>1. PICK e : e = [operation |-> c.operation, content |-> Candidate(c.content), stop |-> c.stop]
    BY Zenon
  <2>2. PICK b : b = [actor[a] EXCEPT !.phase = "PERSISTING", !.effect = e]
    BY Zenon
  <2>3. PICK g \in Nat : g = actor[a].generation
    BY <1>1, Zenon DEF Behavior
  <2>4. PICK n : n = Submitted([actor |-> a, generation |-> g, duplicate |-> d], WriteCall(a, c))
    BY Zenon
  <2>5. actor' = [actor EXCEPT ![a] = b]
    <3>1. actor' = [actor EXCEPT ![a].phase = "PERSISTING", ![a].effect = e]
      BY <1>3, <2>1, Zenon DEF ProcessCommand
    <3>2. QED BY <1>1, <2>2, <3>1, Zenon DEF TypeOK
  <2>6. pending' = pending \cup {n}
    BY <1>3, <2>0, <2>3, <2>4, Zenon DEF ProcessCommand
  <2>7. /\ b \in Behavior /\ b.phase = "PERSISTING" /\ b.generation = g /\ b.effect = e
        /\ b.revision = actor[a].revision /\ b.state = actor[a].state
    <3>1. e \in [operation : Operations \cup {Null}, content : States \cup {Null},
                 stop : {x.stop : x \in Commands} \cup {FALSE}]
      BY <2>1, Zenon DEF Operations, States, Contents
    <3>2. QED BY <1>1, <2>2, <2>3, <3>1, Zenon DEF Behavior, Phases
  <2>8. /\ n \in Operation /\ n.stage = "waiting" /\ n.call.kind = "write" /\ n.call.pid = PidOf[a]
        /\ n.call.operation = c.operation /\ n.call.content = c.content
        /\ n.from.actor = a /\ n.from.generation = g /\ ~n.from.duplicate
    <3>1. PICK w \in Call : /\ w = WriteCall(a, c) /\ w.kind = "write" /\ w.pid = PidOf[a]
                           /\ w.operation = c.operation /\ w.content = c.content
      BY <1>1, CallTypes, Zenon
    <3>2. QED BY <2>0, <2>4, <3>1, SubmittedType, SMTT(45)
  <2>9. \A o \in InFlight : ~Same(o, n)
    BY <1>1, <2>3, <2>8, ZenonT(60) DEF IInv, FlightInv, FlightOk, Current, Same
  <2>10. AnswerOk(n)
    BY <2>8, Zenon DEF AnswerOk
  <2>11. actor'[a] = b
    BY <1>1, <2>5, Zenon DEF TypeOK
  <2>12. FlightOk(n)'
    BY <2>1, <2>7, <2>8, <2>11, SMTT(45) DEF FlightOk, Current
  <2>13. /\ actor[a].generation <= b.generation /\ n.from.generation = b.generation
         /\ \A o \in pending \cup control' : ~Same(o, n)
    BY <1>2, <2>3, <2>7, <2>8, <2>9, SMTT(45) DEF InFlight
  <2>14. QED BY <1>1, <1>2, <2>5, <2>6, <2>7, <2>8, <2>10, <2>12, <2>13, SubmitsInv, Zenon
<1>4. CASE ~Accepts(WriteCall(a, c))
  <2>1. actor' = [actor EXCEPT ![a].phase = "STOPPING"] /\ pending' = pending
    BY <1>4, Zenon DEF ProcessCommand
  <2>2. QED BY <1>2, <2>1, StopsInv, Zenon
<1>5. QED BY <1>3, <1>4, Zenon

-----------------------------------------------------------------------------
(* Steps of the store on an operation.                                     *)

\* An operation that settles keeps its place among those on their way.
LEMMA SettlesFlight ==
    ASSUME IInv, NEW o \in pending, o.stage = "waiting", NEW s \in Operation,
           s.from = o.from, s.call = o.call, pending' = Replace(o, s), UNCHANGED <<actor, control>>,
           \A p, op, x : CommittedEffect(p, op, x) => CommittedEffect(p, op, x)',
           \A q \in InFlight : AnswerOk(q)', AnswerOk(s)'
    PROVE  FlightInv' /\ \A q \in InFlight' : q \in Operation /\ q.call.pid = PidOf[q.from.actor]
<1>1. o \in InFlight /\ FlightOk(o) /\ \A q \in InFlight : Same(q, o) => q = o
  BY Zenon DEF IInv, FlightInv, InFlight
<1>2. InFlight' = (InFlight \ {o}) \cup {s}
  <2>1. o \notin control
    BY Zenon DEF IInv, FlightInv
  <2>2. QED BY <2>1, Zenon DEF InFlight, Replace
<1>3. \A q \in InFlight : Same(q, s) => q = o
  BY <1>1, Zenon DEF Same
<1>4. \A q \in InFlight' : q \in Operation /\ q.call.pid = PidOf[q.from.actor]
  BY <1>1, <1>2, Zenon DEF IInv, TypeOK, InFlight
<1>5. \A q \in InFlight' : AnswerOk(q)' /\ FlightOk(q)'
  <2>1. ASSUME NEW q \in InFlight PROVE FlightOk(q)'
    <3>1. FlightOk(q) /\ actor'[q.from.actor] = actor[q.from.actor]
      BY Zenon DEF IInv, FlightInv
    <3>2. QED BY <3>1, FlightFrame, Zenon
  <2>2. FlightOk(s)
    BY <1>1, Zenon DEF FlightOk, Current
  <2>3. FlightOk(s)'
    BY <2>2, FlightFrame, Zenon
  <2>4. QED BY <1>2, <2>1, <2>3, Zenon
<1>6. pending' \cap control' = {} /\ \A q \in control' : q.stage = "settled"
  <2>1. s \notin control
    BY <1>3, Zenon DEF IInv, FlightInv, InFlight, Same
  <2>2. QED BY <2>1, Zenon DEF IInv, FlightInv, Replace
<1>7. \A p, q \in InFlight' : Same(p, q) => p = q
  <2>1. \A p, q \in InFlight : Same(p, q) => p = q
    BY Zenon DEF IInv, FlightInv
  <2>2. \A q \in InFlight : Same(s, q) => q = o
    BY <1>3, Zenon DEF Same
  <2>3. QED BY <1>2, <1>3, <2>1, <2>2, Zenon
<1>8. QED BY <1>4, <1>5, <1>6, <1>7, Zenon DEF FlightInv, Same

\* How an operation looks when it has settled.
LEMMA SettledFields ==
    ASSUME NEW o \in Operation, NEW t \in Tags, NEW v \in Answer, NEW s, s = Settled(o, t, v)
    PROVE  /\ s \in Operation /\ s.from = o.from /\ s.call = o.call
           /\ s.stage = "settled" /\ s.tag = t /\ s.value = v
BY Zenon DEF Settled, Operation

\* The deadline passes.
LEMMA TimesOutInv == ASSUME IInv, NEW o \in pending, StoreTimesOut(o) PROVE IInv'
<1>1. /\ o.stage = "waiting" /\ pending' = Replace(o, Settled(o, "timeout", Null))
      /\ UNCHANGED <<db, history, acked, actor, control>>
  BY Zenon DEF StoreTimesOut, TimeOut
<1>2. o \in Operation /\ "timeout" \in Tags /\ Null \in Answer /\ o \in InFlight
  BY Zenon DEF IInv, TypeOK, Tags, Answer, InFlight
<1>3. PICK s \in Operation : /\ s = Settled(o, "timeout", Null) /\ s.from = o.from /\ s.call = o.call
                             /\ s.tag = "timeout"
  BY <1>2, SettledFields
<1>4. AnswerOk(o)
  BY <1>2, Zenon DEF IInv, FlightInv
<1>5. AnswerOk(s)
  BY <1>3, <1>4, Zenon DEF AnswerOk
<1>6. AnswerOk(s)' /\ \A q \in InFlight : AnswerOk(q)'
  BY <1>1, <1>5, TablesFrame, Zenon DEF IInv, FlightInv
<1>7. FlightInv' /\ \A q \in InFlight' : q \in Operation /\ q.call.pid = PidOf[q.from.actor]
  BY <1>1, <1>3, <1>6, TablesFrame, SettlesFlight, Zenon
<1>8. TypeOK'
  BY <1>1, <1>7, Zenon DEF IInv, TypeOK, InFlight
<1>9. AppliedOnce' /\ TablesInv' /\ AcknowledgedIsDurable' /\ RunningIsCommitted'
  BY <1>1, TablesFrame, Zenon DEF IInv, AcknowledgedIsDurable, RunningIsCommitted
<1>10. QED BY <1>7, <1>8, <1>9, Zenon DEF IInv

\* The answer goes to the mailbox.
LEMMA CompletesInv == ASSUME IInv, NEW o \in pending, StoreCompletes(o) PROVE IInv'
<1>1. /\ o.stage = "settled" /\ pending' = pending \ {o} /\ control' = control \cup {o}
      /\ UNCHANGED <<db, history, acked, actor>>
  BY Zenon DEF StoreCompletes, Completed
<1>2. InFlight' = InFlight
  BY <1>1, Zenon DEF InFlight
<1>3. TypeOK'
  BY <1>1, Zenon DEF IInv, TypeOK
<1>4. AppliedOnce' /\ TablesInv' /\ AcknowledgedIsDurable' /\ RunningIsCommitted'
  BY <1>1, TablesFrame, Zenon DEF IInv, AcknowledgedIsDurable, RunningIsCommitted
<1>5. FlightInv'
  <2>1. \A q \in InFlight : AnswerOk(q)' /\ FlightOk(q)'
    BY <1>1, TablesFrame, FlightFrame, Zenon DEF IInv, FlightInv
  <2>2. QED BY <1>1, <1>2, <2>1, Zenon DEF IInv, FlightInv, Same
<1>6. QED BY <1>3, <1>4, <1>5, Zenon DEF IInv

-----------------------------------------------------------------------------
(* Steps of a behaviour on an answer.                                      *)

\* The phase of the behaviour an answer applies to is the one that waited.
LEMMA AppliedPhase ==
    ASSUME IInv, NEW m \in control, AppliesTo(m, m.from.actor)
    PROVE  /\ AnswerOk(m) /\ m.call.pid = PidOf[m.from.actor] /\ m.from.actor \in Actors
           /\ m.call.kind = "load" /\ m.from.duplicate =>
                 CommittedEffect(PidOf[m.from.actor], actor[m.from.actor].effect.operation,
                                 actor[m.from.actor].effect.content)
           /\ m.call.kind # "load" =>
                 /\ m.call.kind = "write" /\ actor[m.from.actor].phase = "PERSISTING"
                 /\ m.call.operation = actor[m.from.actor].effect.operation
                 /\ Candidate(m.call.content) = actor[m.from.actor].effect.content
           /\ m.stage = "settled"
<1>1. m \in InFlight /\ m \in Operation /\ m.call.pid = PidOf[m.from.actor]
  BY Zenon DEF IInv, TypeOK, InFlight
<1>2. AnswerOk(m) /\ FlightOk(m) /\ m.stage = "settled"
  BY <1>1, Zenon DEF IInv, FlightInv
<1>3. Current(m) /\ actor[m.from.actor].phase \in {"RECOVERING", "RUNNING", "PERSISTING"}
  BY Zenon DEF AppliesTo, Current
<1>4. m.call.kind \in {"load", "write"} /\ m.from.actor \in Actors
  BY <1>1, Zenon DEF Operation, Call
<1>5. QED BY <1>1, <1>2, <1>3, <1>4, Zenon DEF FlightOk

\* A behaviour that takes on a committed state, when nothing of its own is on
\* its way any more.
LEMMA RunsInv ==
    ASSUME IInv, NEW m \in control, NEW b \in Behavior, Current(m), control' = control \ {m},
           UNCHANGED <<db, history, pending>>, m.from.actor \in Actors,
           actor' = [actor EXCEPT ![m.from.actor] = b],
           b.generation = actor[m.from.actor].generation, b.phase \in {"RUNNING", "STOPPING"},
           \/ b.revision = 0 /\ b.state = Empty
           \/ CommittedState(PidOf[m.from.actor], b.revision, b.state),
           AcknowledgedIsDurable'
    PROVE  IInv'
<1> DEFINE a == m.from.actor
<1>1. actor \in [Actors -> Behavior] /\ m \in InFlight /\ m \notin pending
  BY Zenon DEF IInv, TypeOK, FlightInv, InFlight
<1>2. /\ actor' \in [Actors -> Behavior] /\ actor'[a] = b
      /\ \A c \in Actors : c # a => actor'[c] = actor[c]
  BY <1>1, Zenon
<1>3. TypeOK'
  BY <1>2, Zenon DEF IInv, TypeOK
<1>4. AppliedOnce' /\ TablesInv'
  BY TablesFrame, Zenon DEF IInv
<1>5. RunningIsCommitted'
  <2>1. ASSUME NEW c \in Actors, actor'[c].phase \in {"RUNNING", "PERSISTING"}
        PROVE  \/ actor'[c].revision = 0 /\ actor'[c].state = Empty
               \/ CommittedState(PidOf[c], actor'[c].revision, actor'[c].state)
    BY <1>2, <2>1, Zenon DEF IInv, RunningIsCommitted
  <2>2. QED BY <2>1, TablesFrame, Zenon DEF RunningIsCommitted
<1>6. FlightInv'
  <2>1. InFlight' = InFlight \ {m}
    BY <1>1, Zenon DEF InFlight
  <2>2. ASSUME NEW o \in InFlight, o # m PROVE AnswerOk(o)' /\ FlightOk(o)'
    <3>1. o.from.actor \in Actors
      BY Zenon DEF IInv, TypeOK, InFlight, Operation
    <3>2. AnswerOk(o)' /\ FlightOk(o) /\ ~Same(o, m)
      BY <1>1, <2>2, TablesFrame, Zenon DEF IInv, FlightInv
    <3>3. CASE o.from.actor = a
      <4>1. o.from.generation <= b.generation /\ o.from.generation # b.generation
        BY <3>2, <3>3, Zenon DEF FlightOk, Same, Current
      <4>2. QED BY <1>2, <3>2, <3>3, <4>1, FlightQuiet, Zenon
    <3>4. CASE o.from.actor # a
      <4>1. actor'[o.from.actor] = actor[o.from.actor]
        BY <1>2, <3>1, <3>4, Zenon
      <4>2. QED BY <3>2, <4>1, FlightFrame, TablesFrame, Zenon
    <3>5. QED BY <3>3, <3>4, Zenon
  <2>3. QED BY <2>1, <2>2, Zenon DEF IInv, FlightInv, Same
<1>7. QED BY <1>3, <1>4, <1>5, <1>6, Zenon DEF IInv

\* _finish_pending_effect: the callbacks are told what is committed.
LEMMA FinishInv ==
    ASSUME IInv, NEW m \in control, AppliesTo(m, m.from.actor), control' = control \ {m},
           UNCHANGED <<db, history, pending>>, NEW n \in Nat, NEW x \in States,
           FinishEffect(m.from.actor, n, x), CommittedState(PidOf[m.from.actor], n, x),
           CommittedEffect(PidOf[m.from.actor], actor[m.from.actor].effect.operation,
                           actor[m.from.actor].effect.content)
    PROVE  IInv'
<1>1. PICK a \in Actors : a = m.from.actor
  BY AppliedPhase, Zenon
<1>2. actor \in [Actors -> Behavior] /\ Current(m)
  BY Zenon DEF IInv, TypeOK, AppliesTo, Current
<1>3. PICK pc \in {"RUNNING", "STOPPING"} :
         actor' = [actor EXCEPT ![a].phase = pc, ![a].revision = n, ![a].state = x,
                                ![a].effect = NoEffect]
  BY <1>1, Zenon DEF FinishEffect
<1>4. PICK b : b = [actor[a] EXCEPT !.phase = pc, !.revision = n, !.state = x, !.effect = NoEffect]
  BY Zenon
<1>5. actor' = [actor EXCEPT ![a] = b]
  BY <1>2, <1>3, <1>4, Zenon
<1>6. /\ b \in Behavior /\ b.phase = pc /\ b.generation = actor[a].generation
      /\ b.revision = n /\ b.state = x
  <2>1. NoEffect \in [operation : Operations \cup {Null}, content : States \cup {Null},
                      stop : {c.stop : c \in Commands} \cup {FALSE}]
    BY Zenon DEF NoEffect
  <2>2. QED BY <1>2, <1>4, <2>1, ZenonT(60) DEF Behavior, Phases
<1>7. AcknowledgedIsDurable'
  <2>1. acked' = acked \cup {[pid |-> PidOf[a], effect |-> actor[a].effect, revision |-> n, state |-> x]}
    BY <1>1, Zenon DEF FinishEffect
  <2>2. ASSUME NEW k \in acked'
        PROVE  /\ CommittedEffect(k.pid, k.effect.operation, k.effect.content)
               /\ CommittedState(k.pid, k.revision, k.state)
    <3>1. CASE k \in acked
      BY <3>1, Zenon DEF IInv, AcknowledgedIsDurable
    <3>2. CASE k = [pid |-> PidOf[a], effect |-> actor[a].effect, revision |-> n, state |-> x]
      BY <1>1, <3>2, Zenon
    <3>3. QED BY <2>1, <3>1, <3>2, Zenon
  <2>3. QED BY <2>2, TablesFrame, Zenon DEF AcknowledgedIsDurable
<1>8. QED BY <1>1, <1>2, <1>3, <1>5, <1>6, <1>7, RunsInv, Zenon

\* A state that is committed is one of the commands'.
LEMMA RecoveredType ==
    ASSUME NEW v \in Record
    PROVE  /\ v # Null /\ Recovered(v).revision = v.revision /\ v.revision \in Nat
           /\ Recovered(v).state = Candidate(v.content) /\ Candidate(v.content) \in States
<1>1. v # Null
  BY NullAssumption, Zenon DEF Record, Operations, Contents
<1>2. QED BY <1>1, Zenon DEF Recovered, Record, States

\* An answer to a load.
LEMMA RecoveryInv ==
    ASSUME IInv, NEW m \in control, AppliesTo(m, m.from.actor), m.call.kind = "load",
           CompleteRecovery(m.from.actor, m), control' = control \ {m},
           UNCHANGED <<db, history, pending>>
    PROVE  IInv'
<1>1. PICK a \in Actors : a = m.from.actor
  BY AppliedPhase, Zenon
<1>2. CASE m.tag # "ok"
  <2>1. actor' = [actor EXCEPT ![a].phase = "STOPPING"] /\ acked' = acked
    BY <1>1, <1>2, Zenon DEF CompleteRecovery
  <2>2. QED BY <2>1, StopsInv, Zenon
<1>3. CASE m.tag = "ok" /\ m.from.duplicate
  <2>1. /\ m.value \in Record
        /\ CommittedState(PidOf[a], m.value.revision, Candidate(m.value.content))
        /\ CommittedEffect(PidOf[a], actor[a].effect.operation, actor[a].effect.content)
    BY <1>1, <1>3, AppliedPhase, Zenon DEF AnswerOk
  <2>2. FinishEffect(m.from.actor, m.value.revision, Candidate(m.value.content))
    BY <1>3, <2>1, RecoveredType, Zenon DEF CompleteRecovery
  <2>3. m.value.revision \in Nat /\ Candidate(m.value.content) \in States
    BY <2>1, RecoveredType, Zenon
  <2>4. QED BY <1>1, <2>1, <2>2, <2>3, FinishInv, Zenon
<1>4. CASE m.tag = "ok" /\ ~m.from.duplicate
  <2>1. PICK n \in Nat, x \in States :
           /\ n = Recovered(m.value).revision /\ x = Recovered(m.value).state
           /\ (n = 0 /\ x = Empty) \/ CommittedState(PidOf[a], n, x)
    <3>1. CASE m.value = Null
      BY <3>1, Zenon DEF Recovered, States
    <3>2. CASE m.value # Null
      <4>1. /\ m.value \in Record
            /\ CommittedState(PidOf[a], m.value.revision, Candidate(m.value.content))
        BY <1>1, <1>4, <3>2, AppliedPhase, Zenon DEF AnswerOk
      <4>2. QED BY <4>1, RecoveredType, Zenon
    <3>3. QED BY <3>1, <3>2, Zenon
  <2>2. PICK b : b = [actor[a] EXCEPT !.phase = "RUNNING", !.revision = n, !.state = x]
    BY Zenon
  <2>3. actor \in [Actors -> Behavior] /\ Current(m)
    BY Zenon DEF IInv, TypeOK, AppliesTo, Current
  <2>4. /\ actor' = [actor EXCEPT ![a].phase = "RUNNING", ![a].revision = n, ![a].state = x]
        /\ acked' = acked
    BY <1>1, <1>4, <2>1, Zenon DEF CompleteRecovery
  <2>5. actor' = [actor EXCEPT ![a] = b]
    BY <2>2, <2>3, <2>4, Zenon
  <2>6. /\ b \in Behavior /\ b.phase = "RUNNING" /\ b.generation = actor[a].generation
        /\ b.revision = n /\ b.state = x
    BY <2>2, <2>3, Zenon DEF Behavior, Phases
  <2>7. AcknowledgedIsDurable'
    BY <2>4, TablesFrame, Zenon DEF IInv, AcknowledgedIsDurable
  <2>8. QED BY <1>1, <2>1, <2>3, <2>5, <2>6, <2>7, RunsInv, Zenon
<1>5. QED BY <1>2, <1>3, <1>4, Zenon

\* An answer to a write: it is finished, read back as a duplicate, or fails.
LEMMA WriteInv ==
    ASSUME IInv, NEW m \in control, AppliesTo(m, m.from.actor), m.call.kind # "load",
           CompleteWrite(m.from.actor, m), control' = control \ {m},
           UNCHANGED <<db, history>>
    PROVE  IInv'
<1>1. PICK a \in Actors : a = m.from.actor
  BY AppliedPhase, Zenon
<1>2. /\ m.call.kind = "write" /\ actor[a].phase = "PERSISTING" /\ m.stage = "settled"
      /\ m.call.operation = actor[a].effect.operation /\ m.call.pid = PidOf[a]
      /\ Candidate(m.call.content) = actor[a].effect.content /\ AnswerOk(m)
  BY <1>1, AppliedPhase, Zenon
<1>3. actor \in [Actors -> Behavior] /\ Current(m) /\ m \in InFlight /\ m \notin pending
  BY Zenon DEF IInv, TypeOK, AppliesTo, Current, FlightInv, InFlight
<1>4. CASE m.tag = "duplicate"
  <2>1. CommittedEffect(PidOf[a], actor[a].effect.operation, actor[a].effect.content)
    BY <1>2, <1>4, Zenon DEF AnswerOk
  <2>2. BeginRecovery(a, actor[a], TRUE) /\ acked' = acked
    BY <1>1, <1>4, Zenon DEF CompleteWrite
  <2>3. CASE ~Accepts(LoadCall(a))
    <3>1. pending' = pending /\ actor' = [actor EXCEPT ![a] = [actor[a] EXCEPT !.phase = "STOPPING"]]
      BY <2>2, <2>3, Zenon DEF BeginRecovery
    <3>2. actor' = [actor EXCEPT ![a].phase = "STOPPING"]
      BY <1>3, <3>1, Zenon
    <3>3. QED BY <2>2, <3>1, <3>2, StopsInv, Zenon
  <2>4. CASE Accepts(LoadCall(a))
    <3>0. PICK d \in BOOLEAN : d = TRUE
      BY Zenon
    <3>1. PICK g \in Nat : g = actor[a].generation
      BY <1>3, Zenon DEF Behavior
    <3>2. PICK b : b = [actor[a] EXCEPT !.phase = "RECOVERING"]
      BY Zenon
    <3>3. PICK n : n = Submitted([actor |-> a, generation |-> g, duplicate |-> d], LoadCall(a))
      BY Zenon
    <3>4. actor' = [actor EXCEPT ![a] = b] /\ pending' = pending \cup {n}
      BY <2>2, <2>4, <3>0, <3>1, <3>2, <3>3, Zenon DEF BeginRecovery
    <3>5. /\ b \in Behavior /\ b.phase = "RECOVERING" /\ b.generation = g
          /\ b.effect = actor[a].effect
      BY <1>3, <3>1, <3>2, Zenon DEF Behavior, Phases
    <3>6. /\ n \in Operation /\ n.stage = "waiting" /\ n.call.kind = "load" /\ n.call.pid = PidOf[a]
          /\ n.from.actor = a /\ n.from.generation = g /\ n.from.duplicate
      <4>1. LoadCall(a) \in Call /\ LoadCall(a).kind = "load" /\ LoadCall(a).pid = PidOf[a]
        BY CallTypes, Zenon
      <4>2. /\ n \in Operation /\ n.stage = "waiting" /\ n.call = LoadCall(a)
            /\ n.from.actor = a /\ n.from.generation = g /\ n.from.duplicate = d
        BY <3>3, <4>1, SubmittedType, SMTT(45)
      <4>3. n.from.duplicate
        BY <3>0, <4>2, Zenon
      <4>4. QED BY <4>1, <4>2, <4>3, Zenon
    <3>7. \A o \in pending \cup control' : ~Same(o, n)
      <4>1. \A o \in InFlight : Same(o, m) => o = m
        BY <1>3, Zenon DEF IInv, FlightInv
      <4>2. \A o : Same(o, n) => Same(o, m)
        BY <1>1, <1>3, <3>1, <3>6, Zenon DEF Same, Current
      <4>3. QED BY <1>3, <4>1, <4>2, Zenon DEF InFlight
    <3>8. AnswerOk(n)
      <4>1. db.state[PidOf[a]] # Null
        <5>1. Changes(PidOf[a]) # {} /\ PidOf[a] \in Pids
          BY <2>1, BehaviorAssumption, Zenon DEF CommittedEffect
        <5>2. QED BY <5>1, Zenon DEF IInv, TablesInv
      <4>2. QED BY <3>6, <4>1, Zenon DEF AnswerOk
    <3>9. FlightOk(n)'
      <4>1. actor'[a] = b
        BY <1>3, <3>4, Zenon
      <4>2. CommittedEffect(PidOf[a], b.effect.operation, b.effect.content)'
        BY <2>1, <3>5, TablesFrame, Zenon
      <4>3. QED BY <3>5, <3>6, <4>1, <4>2, SMTT(45) DEF FlightOk, Current
    <3>10. actor[a].generation <= b.generation /\ b.phase \notin {"RUNNING", "PERSISTING"}
      BY <3>1, <3>5
    <3>11. QED BY <2>2, <3>4, <3>5, <3>6, <3>7, <3>8, <3>9, <3>10, SubmitsInv, Zenon
  <2>5. QED BY <2>3, <2>4, Zenon
<1>5. CASE m.tag = "written" /\ m.value.revision = actor[a].revision + 1
  <2>1. /\ FinishEffect(m.from.actor, m.value.revision, Candidate(m.call.content))
        /\ pending' = pending
    BY <1>1, <1>2, <1>5, Zenon DEF CompleteWrite
  <2>2. /\ CommittedEffect(PidOf[a], actor[a].effect.operation, actor[a].effect.content)
        /\ CommittedState(PidOf[a], m.value.revision, Candidate(m.call.content))
        /\ m.value.revision \in Nat
    BY <1>2, <1>5, Zenon DEF AnswerOk
  <2>3. Candidate(m.call.content) \in States
    <3>1. m.call.content \in Contents
      BY <1>2, Zenon DEF IInv, TypeOK, Operation, Call
    <3>2. QED BY <3>1, Zenon DEF States
  <2>4. QED BY <1>1, <2>1, <2>2, <2>3, FinishInv, Zenon
<1>6. CASE m.tag # "duplicate" /\ ~(m.tag = "written" /\ m.value.revision = actor[a].revision + 1)
  <2>1. actor' = [actor EXCEPT ![a].phase = "STOPPING"] /\ UNCHANGED <<pending, acked>>
    BY <1>1, <1>6, Zenon DEF CompleteWrite
  <2>2. QED BY <2>1, StopsInv, Zenon
<1>7. QED BY <1>4, <1>5, <1>6, Zenon

\* The mailbox hands over one control message, or drops it.
LEMMA DeliverInv == ASSUME IInv, NEW m \in control, Deliver(m) PROVE IInv'
<1>1. control' = control \ {m} /\ UNCHANGED <<db, history>>
  BY Zenon DEF Deliver
<1>2. CASE ~AppliesTo(m, m.from.actor)
  <2>1. UNCHANGED <<actor, pending, acked>>
    BY <1>2, Zenon DEF Deliver
  <2>2. TypeOK'
    BY <1>1, <2>1, Zenon DEF IInv, TypeOK
  <2>3. AppliedOnce' /\ TablesInv' /\ AcknowledgedIsDurable' /\ RunningIsCommitted'
    BY <1>1, <2>1, TablesFrame, Zenon DEF IInv, AcknowledgedIsDurable, RunningIsCommitted
  <2>4. \A o \in InFlight : AnswerOk(o)' /\ FlightOk(o)'
    BY <1>1, <2>1, TablesFrame, FlightFrame, Zenon DEF IInv, FlightInv
  <2>5. InFlight' \subseteq InFlight
    BY <1>1, <2>1, Zenon DEF InFlight
  <2>6. FlightInv'
    BY <1>1, <2>1, <2>4, <2>5, Zenon DEF IInv, FlightInv, Same
  <2>7. QED BY <2>2, <2>3, <2>6, Zenon DEF IInv
<1>3. CASE AppliesTo(m, m.from.actor) /\ m.call.kind = "load"
  <2>1. CompleteRecovery(m.from.actor, m) /\ pending' = pending
    BY <1>3, Zenon DEF Deliver
  <2>2. QED BY <1>1, <1>3, <2>1, RecoveryInv, Zenon
<1>4. CASE AppliesTo(m, m.from.actor) /\ m.call.kind # "load"
  <2>1. CompleteWrite(m.from.actor, m)
    BY <1>4, Zenon DEF Deliver
  <2>2. QED BY <1>1, <1>4, <2>1, WriteInv, Zenon
<1>5. QED BY <1>2, <1>3, <1>4, Zenon

-----------------------------------------------------------------------------
(* The transactions.                                                       *)

\* Revisions count from one.
LEMMA RevisionsPositive ==
    ASSUME history \in Seq(Row), AppliedOnce, NEW i \in DOMAIN history
    PROVE  history[i].revision \in Nat /\ history[i].revision >= 1
<1>1. ASSUME NEW j \in DOMAIN history PROVE history[j].revision \in Nat
  <2>1. history[j] \in Row
    OBVIOUS
  <2>2. QED BY <2>1, Zenon DEF Row
<1>2. history[i].revision = 1 \/ \E j \in Changes(history[i].pid) : history[j].revision + 1 = history[i].revision
  BY Zenon DEF AppliedOnce
<1>3. QED BY <1>1, <1>2 DEF Changes

\* An accepted write, of an operation that is not known and at the revision
\* that is next, keeps the tables and the history in agreement.
LEMMA CommitInv ==
    ASSUME IInv, NEW w, w.pid \in Pids, w.operation \in Operations, w.content \in Contents,
           \A o \in db.operations[w.pid] : o.operation # w.operation,
           NEW r \in Nat, r = RevisionOf(db, w.pid) + 1, NEW n \in Nat, n = db.sequence + 1,
           db' = Written(db, w), NEW row,
           row = [offset |-> n, pid |-> w.pid, revision |-> r,
                  operation |-> w.operation, content |-> w.content],
           history' = Append(history, row)
    PROVE  /\ db' \in Tables /\ history' \in Seq(Row) /\ AppliedOnce' /\ TablesInv'
           /\ CommittedState(w.pid, r, Candidate(w.content))'
           /\ CommittedEffect(w.pid, w.operation, Candidate(w.content))'
           /\ \A p \in Pids : db.state[p] # Null => db'.state[p] # Null
<1>0. PICK p \in Pids : p = w.pid
  BY Zenon
<1>1. /\ db \in Tables /\ history \in Seq(Row) /\ TablesInv /\ AppliedOnce
      /\ db.state \in [Pids -> Record \cup {Null}] /\ db.operations \in [Pids -> SUBSET Performed]
      /\ db.changes \subseteq Row /\ db.sequence \in Nat
  BY Zenon DEF IInv, TypeOK, Tables
<1>2. PICK e : e = [revision |-> r, operation |-> w.operation, content |-> w.content]
  BY Zenon
<1>3. PICK f : f = [operation |-> w.operation, fingerprint |-> Fingerprint(w.content),
                    revision |-> r]
  BY Zenon
<1>4. /\ db' \in Tables /\ row \in Row
      /\ db'.changes = db.changes \cup {row} /\ db'.sequence = n
      /\ db'.state = [db.state EXCEPT ![p] = e]
      /\ db'.operations = [db.operations EXCEPT ![p] = @ \cup {f}]
  <2>1. row \in Row /\ row.offset = n
    BY <1>0, Zenon DEF Row
  <2>2. Highest(db.changes \cup {row}) = n
    <3>1. \A x \in db.changes : x.offset \in Nat /\ x.offset <= db.sequence
      BY <1>1, Zenon DEF Row, TablesInv
    <3>2. QED BY <1>1, <2>1, <3>1, HighestNew, ZenonT(60)
  <2>3. e \in Record /\ f \in Performed
    BY <1>2, <1>3, Zenon DEF Record, Performed
  <2>4. PICK state \in [Pids -> Record \cup {Null}] : state = [db.state EXCEPT ![p] = e]
    BY <1>1, <2>3, Zenon
  <2>5. PICK operations \in [Pids -> SUBSET Performed] :
           operations = [db.operations EXCEPT ![p] = @ \cup {f}]
    BY <1>1, <2>3, Zenon
  <2>6. PICK changes \in SUBSET Row : changes = db.changes \cup {row}
    BY <1>1, <2>1, Zenon
  <2>7. db' = [db EXCEPT !.state = state, !.operations = operations, !.changes = changes,
                         !.sequence = n, !.high = n]
    <3>1. db' = [db EXCEPT !.state[w.pid] = e, !.operations[w.pid] = @ \cup {f},
                           !.changes = @ \cup {row}, !.sequence = n, !.high = n]
      BY <1>2, <1>3, <2>2, Zenon DEF Written
    <3>2. QED BY <1>0, <1>1, <2>4, <2>5, <2>6, <3>1, Zenon DEF Tables
  <2>8. /\ db' \in Tables /\ db'.state = state /\ db'.operations = operations
        /\ db'.changes = changes /\ db'.sequence = n
    BY <1>1, <2>7, Zenon DEF Tables
  <2>9. QED BY <2>1, <2>4, <2>5, <2>6, <2>8, Zenon
<1>5. PICK k \in Nat : k = Len(history) /\ DOMAIN history = 1 .. k
  BY <1>1, SMTT(45)
<1>6. /\ history' \in Seq(Row) /\ DOMAIN history' = 1 .. k + 1 /\ history'[k + 1] = row
      /\ \A i \in 1 .. k : history'[i] = history[i]
  BY <1>1, <1>4, <1>5, SMTT(45)
<1>7. /\ row.pid = p /\ row.offset = n /\ row.revision = r /\ row.operation = w.operation
      /\ row.content = w.content
  BY <1>0, Zenon
<1>8. /\ Changes(p)' = Changes(p) \cup {k + 1}
      /\ \A q : q # p => Changes(q)' = Changes(q)
      /\ \A q : Changes(q) \subseteq 1 .. k
  <2>1. ASSUME NEW q PROVE Changes(q)' = {i \in 1 .. k + 1 : history'[i].pid = q}
    BY <1>6, Zenon DEF Changes
  <2>2. ASSUME NEW q PROVE Changes(q) = {i \in 1 .. k : history[i].pid = q}
    BY <1>5, Zenon DEF Changes
  <2>3. ASSUME NEW q PROVE Changes(q)' = Changes(q) \cup (IF q = p THEN {k + 1} ELSE {})
    <3>1. \A i : i \in 1 .. k + 1 <=> i \in 1 .. k \/ i = k + 1
      BY <1>5, SMTT(45)
    <3>2. QED BY <1>6, <1>7, <2>1, <2>2, <3>1, SMTT(45)
  <2>4. QED BY <2>2, <2>3, Zenon
<1>9. CommittedState(p, r, Candidate(w.content))' /\ CommittedEffect(p, w.operation, Candidate(w.content))'
  <2>1. k + 1 \in Changes(p)'
    BY <1>8, Zenon
  <2>2. history'[k + 1] = row
    BY <1>6, Zenon
  <2>3. QED BY <1>7, <2>1, <2>2, Zenon DEF CommittedState, CommittedEffect
<1>10. /\ \A a, op, x : CommittedEffect(a, op, x) => CommittedEffect(a, op, x)'
       /\ \A a, v, x : CommittedState(a, v, x) => CommittedState(a, v, x)'
  BY <1>1, Grows, Zenon
<1>11. \A i \in Changes(p) : /\ history[i].revision \in Nat /\ history[i].revision < r
                             /\ history[i].operation # w.operation
  <2>1. ASSUME NEW i \in Changes(p)
        PROVE  history[i].revision \in Nat /\ history[i].revision < r
    <3>1. i \in DOMAIN history /\ history[i].revision \in Nat
      BY <1>1, RevisionsPositive, Zenon DEF Changes
    <3>2. db.state[p] # Null /\ history[i].revision <= db.state[p].revision
      BY <1>1, <2>1, Zenon DEF TablesInv
    <3>3. db.state[p].revision \in Nat /\ r = db.state[p].revision + 1
      BY <1>0, <1>1, <3>2, Zenon DEF Record, RevisionOf
    <3>4. QED BY <3>1, <3>2, <3>3, SMTT(45)
  <2>2. ASSUME NEW i \in Changes(p) PROVE history[i].operation # w.operation
    <3>1. i \in DOMAIN history /\ history[i].pid = p
      BY Zenon DEF Changes
    <3>2. PICK o \in db.operations[p] : o.operation = history[i].operation
      BY <1>1, <3>1, Zenon DEF TablesInv
    <3>3. QED BY <1>0, <3>2, Zenon
  <2>3. QED BY <2>1, <2>2, Zenon
<1>12. IF r = 1 THEN Changes(p) = {} ELSE \E j \in Changes(p) : history[j].revision + 1 = r
  <2>1. CASE db.state[p] = Null
    BY <1>0, <1>1, <2>1, SMTT(45) DEF TablesInv, RevisionOf
  <2>2. CASE db.state[p] # Null
    <3>1. db.state[p].revision \in Nat /\ r = db.state[p].revision + 1
      BY <1>0, <1>1, <2>2, Zenon DEF Record, RevisionOf
    <3>2. CommittedState(p, db.state[p].revision, Candidate(db.state[p].content))
      BY <1>1, <2>2, Zenon DEF TablesInv
    <3>3. PICK j \in Changes(p) : history[j].revision = db.state[p].revision
      BY <3>2, Zenon DEF CommittedState
    <3>4. history[j].revision >= 1
      BY <1>1, RevisionsPositive, Zenon DEF Changes
    <3>5. QED BY <3>1, <3>3, <3>4, SMTT(45)
  <2>3. QED BY <2>1, <2>2, Zenon
<1>13. AppliedOnce'
  <2> DEFINE Before(i) == {j \in Changes(history[i].pid) : j < i}
  <2>1. ASSUME NEW i \in DOMAIN history'
        PROVE  (/\ IF history[i].revision = 1 THEN Before(i) = {}
                   ELSE \E j \in Before(i) : history[j].revision + 1 = history[i].revision
                /\ \A j \in Before(i) : /\ history[j].revision < history[i].revision
                                        /\ history[j].operation # history[i].operation)'
    <3>1. CASE i \in 1 .. k
      <4>1. PICK x : x = history[i] /\ history'[i] = x
        BY <1>6, <3>1, Zenon
      <4>2. PICK B : B = {j \in Changes(x.pid) : j < i}
        BY Zenon
      <4>3. /\ IF x.revision = 1 THEN B = {} ELSE \E j \in B : history[j].revision + 1 = x.revision
            /\ \A j \in B : history[j].revision < x.revision /\ history[j].operation # x.operation
        BY <1>1, <1>5, <3>1, <4>1, <4>2, SMTT(45) DEF AppliedOnce
      <4>4. \A j \in B : history'[j] = history[j]
        BY <1>6, <1>8, <4>2, Zenon
      <4>5. Before(i)' = {j \in Changes(x.pid)' : j < i}
        BY <4>1, Zenon
      <4>6. Before(i)' = B
        <5>1. ~(k + 1 < i)
          BY <1>5, <3>1, SMTT(45)
        <5>2. QED BY <1>8, <4>2, <4>5, <5>1, Zenon
      <4> HIDE DEF Before
      <4>7. QED BY <4>1, <4>3, <4>4, <4>6, ZenonT(60)
    <3>2. CASE i = k + 1
      <4>1. \A j \in Changes(p) : history'[j] = history[j]
        BY <1>6, <1>8, Zenon
      <4>2. history'[i] = row
        BY <1>6, <3>2, Zenon
      <4>3. Before(i)' = {j \in Changes(p)' : j < k + 1}
        BY <1>7, <3>2, <4>2, Zenon
      <4>4. Before(i)' = Changes(p)
        BY <1>5, <1>8, <4>3, SMTT(45)
      <4> HIDE DEF Before
      <4>5. IF row.revision = 1 THEN Changes(p) = {}
            ELSE \E j \in Changes(p) : history'[j].revision + 1 = row.revision
        BY <1>7, <1>12, <4>1, ZenonT(60)
      <4>6. \A j \in Changes(p) : /\ history'[j].revision < row.revision
                                  /\ history'[j].operation # row.operation
        BY <1>7, <1>11, <4>1, ZenonT(60)
      <4>7. QED BY <4>2, <4>4, <4>5, <4>6, ZenonT(60)
    <3>3. i \in 1 .. k \/ i = k + 1
      BY <1>5, <1>6, SMTT(45)
    <3>4. QED BY <3>1, <3>2, <3>3, Zenon
  <2>2. QED BY <2>1, Zenon DEF AppliedOnce
<1>14. \A q \in Pids : db.state[q] # Null => db'.state[q] # Null
  <2>1. e # Null
    BY <1>2, NullAssumption, SMTT(45) DEF Operations, Contents
  <2>2. QED BY <1>1, <1>4, <2>1, Zenon
<1>15. TablesInv'
  <2>1. \A x \in db'.changes : x.offset <= db'.sequence
    <3>1. \A x \in db.changes : x.offset \in Nat /\ x.offset <= db.sequence
      BY <1>1, Zenon DEF TablesInv, Row
    <3>2. QED BY <1>1, <1>4, <1>7, <3>1, SMTT(45)
  <2>2. ASSUME NEW q \in Pids
        PROVE  (IF db.state[q] = Null THEN Changes(q) = {}
                ELSE /\ CommittedState(q, db.state[q].revision, Candidate(db.state[q].content))
                     /\ \A i \in Changes(q) : history[i].revision <= db.state[q].revision)'
    <3>1. CASE q = p
      <4>1. db'.state[q] = e /\ e # Null /\ e.revision = r /\ e.content = w.content
        BY <1>1, <1>2, <1>4, <3>1, NullAssumption, SMTT(45) DEF Operations, Contents
      <4>2. CommittedState(q, r, Candidate(w.content))'
        BY <1>9, <3>1, Zenon
      <4>3. \A i \in Changes(q)' : history'[i].revision <= r
        BY <1>6, <1>7, <1>8, <1>11, <3>1, SMTT(45)
      <4>4. CommittedState(q, db.state[q].revision, Candidate(db.state[q].content))'
        BY <4>1, <4>2, Zenon
      <4>5. QED BY <4>1, <4>3, <4>4, Zenon
    <3>2. CASE q # p
      <4>1. db'.state[q] = db.state[q] /\ Changes(q)' = Changes(q) /\ Changes(q) \subseteq 1 .. k
        BY <1>1, <1>4, <1>8, <3>2, Zenon
      <4>2. IF db.state[q] = Null THEN Changes(q) = {}
            ELSE /\ CommittedState(q, db.state[q].revision, Candidate(db.state[q].content))
                 /\ \A i \in Changes(q) : history[i].revision <= db.state[q].revision
        BY <1>1, Zenon DEF TablesInv
      <4>3. PICK x : x = db.state[q] /\ db'.state[q] = x
        BY <4>1, Zenon
      <4>4. x # Null => CommittedState(q, x.revision, Candidate(x.content))'
        BY <1>10, <4>2, <4>3, Zenon
      <4>5. QED BY <1>6, <4>1, <4>2, <4>3, <4>4, Zenon
    <3>3. QED BY <3>1, <3>2, Zenon
  <2>3. ASSUME NEW q \in Pids, NEW i \in DOMAIN history', history'[i].pid = q
        PROVE  \E o \in db'.operations[q] : o.operation = history'[i].operation
    <3>1. CASE i = k + 1
      BY <1>1, <1>3, <1>4, <1>6, <1>7, <2>3, <3>1, SMTT(45)
    <3>2. CASE i \in 1 .. k
      <4>1. PICK o \in db.operations[q] : o.operation = history[i].operation
        BY <1>1, <1>5, <1>6, <2>3, <3>2, Zenon DEF TablesInv
      <4>2. o \in db'.operations[q]
        BY <1>1, <1>4, <4>1, ZenonT(60)
      <4>3. QED BY <1>6, <3>2, <4>1, <4>2, Zenon
    <3>3. QED BY <1>5, <1>6, <3>1, <3>2, SMTT(45)
  <2>4. ASSUME NEW q \in Pids, NEW x \in Contents, NEW o \in db'.operations[q],
               o.fingerprint = Fingerprint(x)
        PROVE  CommittedEffect(q, o.operation, Candidate(x))'
    <3>1. CASE o \in db.operations[q]
      <4>1. CommittedEffect(q, o.operation, Candidate(x))
        BY <1>1, <2>4, <3>1, Zenon DEF TablesInv
      <4>2. QED BY <1>10, <4>1, Zenon
    <3>2. CASE o \notin db.operations[q]
      <4>1. q = p /\ o = f
        BY <1>1, <1>4, <2>4, <3>2, SMTT(45)
      <4>2. x = w.content /\ o.operation = w.operation
        BY <1>3, <2>4, <4>1, FingerprintInjective, Zenon
      <4>3. QED BY <1>9, <4>1, <4>2, Zenon
    <3>3. QED BY <3>1, <3>2, Zenon
  <2>5. QED BY <2>1, <2>2, <2>3, <2>4, Zenon DEF TablesInv
<1>16. QED BY <1>0, <1>4, <1>6, <1>9, <1>13, <1>14, <1>15, Zenon

\* What was committed stays, and a record that is there is not removed.
Kept ==
    /\ \A p, op, x : CommittedEffect(p, op, x) => CommittedEffect(p, op, x)'
    /\ \A p, n, x : CommittedState(p, n, x) => CommittedState(p, n, x)'
    /\ \A p \in Pids : db.state[p] # Null => db'.state[p] # Null

\* A transaction that leaves the tables as they are adds nothing to the history.
LEMMA NothingNew ==
    ASSUME IInv, NEW o, StoreExecutes(o), db' = db
    PROVE  /\ db' \in Tables /\ history' \in Seq(Row) /\ AppliedOnce' /\ TablesInv' /\ Kept
           /\ history' = history
<1>1. history' = history
  BY Zenon DEF StoreExecutes
<1>2. /\ \A p, op, x : CommittedEffect(p, op, x) => CommittedEffect(p, op, x)'
      /\ \A p, n, x : CommittedState(p, n, x) => CommittedState(p, n, x)'
  BY <1>1, TablesFrame, Zenon
<1>3. Kept
  BY <1>2, Zenon DEF Kept
<1>4. AppliedOnce' /\ TablesInv'
  BY <1>1, TablesFrame, Zenon DEF IInv
<1>5. db' \in Tables /\ history' \in Seq(Row)
  BY <1>1, Zenon DEF IInv, TypeOK
<1>6. QED BY <1>1, <1>3, <1>4, <1>5, Zenon

\* A load answers the record, which is the last that was committed.
LEMMA LoadAnswers ==
    ASSUME IInv, NEW o \in pending, StoreExecutes(o), o.call.kind = "load"
    PROVE  /\ db' = db
           /\ \E v \in Answer : /\ pending' = Replace(o, Settled(o, "ok", v))
                                /\ v = db.state[o.call.pid]
<1>1. Transaction(db, o.call) = Outcome(db, "ok", db.state[o.call.pid])
  BY Zenon DEF Transaction, LoadRecord
<1>2. o.call.pid \in Pids
  BY Zenon DEF IInv, TypeOK, Operation, Call
<1>3. db.state[o.call.pid] \in Answer
  <2>1. db.state \in [Pids -> Record \cup {Null}]
    BY Zenon DEF IInv, TypeOK, Tables
  <2>2. QED BY <1>2, <2>1, Zenon DEF Answer
<1>4. db' = db /\ pending' = Replace(o, Settled(o, "ok", db.state[o.call.pid]))
  BY <1>1, SMTT(45) DEF StoreExecutes, Execute, Outcome
<1>5. QED BY <1>3, <1>4, Zenon

\* A write answers that it was applied, now or before, only when the history
\* has its change.
LEMMA WriteAnswers ==
    ASSUME IInv, NEW o \in pending, StoreExecutes(o), o.call.kind = "write"
    PROVE  /\ db' \in Tables /\ history' \in Seq(Row) /\ AppliedOnce' /\ TablesInv' /\ Kept
           /\ \E t \in Tags, v \in Answer :
                 /\ pending' = Replace(o, Settled(o, t, v))
                 /\ t \in {"written", "duplicate"} =>
                       CommittedEffect(o.call.pid, o.call.operation, Candidate(o.call.content))'
                 /\ t = "written" =>
                       /\ v \in [revision : Nat]
                       /\ CommittedState(o.call.pid, v.revision, Candidate(o.call.content))'
<1>1. PICK w : w = o.call
  BY Zenon
<1>2. /\ w.pid \in Pids /\ w.operation \in Operations /\ w.content \in Contents
      /\ w.expected \in Nat
  BY <1>1, Zenon DEF IInv, TypeOK, Operation, Call
<1>3. PICK r : r = Mutate(db, w)
  BY Zenon
<1>4. Transaction(db, w) = r
  BY <1>1, <1>3, Zenon DEF Transaction
<1>5. db' = r.db /\ pending' = Replace(o, Settled(o, r.tag, r.value))
  BY <1>1, <1>4, Zenon DEF StoreExecutes, Execute
<1>6. /\ db \in Tables /\ db.state \in [Pids -> Record \cup {Null}]
      /\ db.operations \in [Pids -> SUBSET Performed] /\ db.sequence \in Nat
      /\ db.changes \subseteq Row /\ TablesInv /\ history \in Seq(Row)
  BY Zenon DEF IInv, TypeOK, Tables
<1>7. RevisionOf(db, w.pid) \in Nat
  BY <1>2, <1>6, Zenon DEF RevisionOf, Record
<1>8. CASE r.tag = "duplicate" /\ r.db = db
  <2>1. PICK x \in db.operations[w.pid] :
           /\ x.operation = w.operation /\ x.fingerprint = Fingerprint(w.content)
           /\ r.value = [revision |-> x.revision]
    BY <1>3, <1>8, MutateCases, Zenon
  <2>2. CommittedEffect(w.pid, w.operation, Candidate(w.content))
    BY <1>2, <1>6, <2>1, Zenon DEF TablesInv
  <2>3. r.value \in Answer
    BY <1>2, <1>6, <2>1, SMTT(45) DEF Performed, Answer
  <2>4. /\ db' \in Tables /\ history' \in Seq(Row) /\ AppliedOnce' /\ TablesInv' /\ Kept
    BY <1>5, <1>8, NothingNew, Zenon
  <2>5. CommittedEffect(w.pid, w.operation, Candidate(w.content))'
    BY <2>2, <2>4, Zenon DEF Kept
  <2>6. "duplicate" \in Tags /\ "duplicate" # "written"
    BY Zenon DEF Tags
  <2>7. QED BY <1>1, <1>5, <1>8, <2>3, <2>4, <2>5, <2>6, Zenon
<1>9. CASE r.tag \in {"conflict", "concurrent"} /\ r.db = db
  <2>1. r.value \in Answer
    <3>1. r.value = Null \/ r.value = [revision |-> RevisionOf(db, w.pid)]
      BY <1>3, <1>9, MutateCases, Zenon
    <3>2. QED BY <1>7, <3>1, SMTT(45) DEF Answer
  <2>2. /\ db' \in Tables /\ history' \in Seq(Row) /\ AppliedOnce' /\ TablesInv' /\ Kept
    BY <1>5, <1>9, NothingNew, Zenon
  <2>3. r.tag \in Tags /\ r.tag \notin {"written", "duplicate"}
    BY <1>9, Zenon DEF Tags
  <2>4. QED BY <1>5, <2>1, <2>2, <2>3, Zenon
<1>10. CASE r.tag = "written"
  <2>1. /\ db' = Written(db, w) /\ r.value = [revision |-> w.expected + 1]
        /\ RevisionOf(db, w.pid) = w.expected
        /\ \A x \in db.operations[w.pid] : x.operation # w.operation
    BY <1>3, <1>5, <1>10, MutateCases, ZenonT(60)
  <2>2. PICK k \in Nat : k = w.expected + 1
    BY <1>2
  <2>3. PICK n \in Nat : n = db.sequence + 1
    BY <1>6
  <2>4. PICK row : row = [offset |-> n, pid |-> w.pid, revision |-> k,
                          operation |-> w.operation, content |-> w.content]
    BY Zenon
  <2>5. db'.changes = db.changes \cup {row}
    BY <1>6, <2>1, <2>2, <2>3, <2>4, Zenon DEF Written, Tables
  <2>6. row \notin db.changes
    <3>1. row.offset = db.sequence + 1
      BY <2>3, <2>4, Zenon
    <3>2. QED BY <1>6, <3>1, SMTT(45) DEF TablesInv
  <2>7. history' = Append(history, row)
    <3>1. db'.changes \ db.changes = {row}
      BY <2>5, <2>6, Zenon
    <3>2. QED BY <3>1, Zenon DEF StoreExecutes
  <2>8. k = RevisionOf(db, w.pid) + 1
    BY <2>1, <2>2, Zenon
  <2>9. /\ db' \in Tables /\ history' \in Seq(Row) /\ AppliedOnce' /\ TablesInv'
        /\ CommittedState(w.pid, k, Candidate(w.content))'
        /\ CommittedEffect(w.pid, w.operation, Candidate(w.content))'
        /\ \A p \in Pids : db.state[p] # Null => db'.state[p] # Null
    BY <1>2, <2>1, <2>3, <2>4, <2>7, <2>8, CommitInv, Zenon
  <2>10. Kept
    <3>1. /\ \A p, op, x : CommittedEffect(p, op, x) => CommittedEffect(p, op, x)'
          /\ \A p, v, x : CommittedState(p, v, x) => CommittedState(p, v, x)'
      BY <1>6, <2>7, Grows, Zenon
    <3>2. QED BY <2>9, <3>1, Zenon DEF Kept
  <2>11. PICK v \in Answer : v = r.value /\ v \in [revision : Nat] /\ v.revision = k
    BY <2>1, <2>2, SMTT(45) DEF Answer
  <2>12. "written" \in Tags
    BY Zenon DEF Tags
  <2>13. QED BY <1>1, <1>5, <1>10, <2>9, <2>10, <2>11, <2>12, Zenon
<1>11. QED BY <1>3, <1>8, <1>9, <1>10, MutateCases, ZenonT(60)

\* The I/O worker runs an operation.
LEMMA ExecutesInv == ASSUME IInv, NEW o \in pending, StoreExecutes(o) PROVE IInv'
<1>1. o.stage = "waiting" /\ UNCHANGED <<actor, control, acked>>
  BY Zenon DEF StoreExecutes, Execute
<1>2. o \in Operation /\ o \in InFlight /\ AnswerOk(o) /\ o.call.pid \in Pids
  BY Zenon DEF IInv, TypeOK, FlightInv, InFlight, Operation, Call
<1>3. /\ db' \in Tables /\ history' \in Seq(Row) /\ AppliedOnce' /\ TablesInv' /\ Kept
      /\ \E s \in Operation : /\ pending' = Replace(o, s) /\ s.from = o.from /\ s.call = o.call
                              /\ AnswerOk(s)'
  <2>1. CASE o.call.kind = "load"
    <3>1. PICK v \in Answer : /\ pending' = Replace(o, Settled(o, "ok", v))
                              /\ v = db.state[o.call.pid] /\ db' = db
      BY <2>1, LoadAnswers, Zenon
    <3>2. PICK s : s = Settled(o, "ok", v)
      BY Zenon
    <3>3. /\ s \in Operation /\ s.from = o.from /\ s.call = o.call
          /\ s.stage = "settled" /\ s.tag = "ok" /\ s.value = v
      <4>1. "ok" \in Tags
        BY Zenon DEF Tags
      <4>2. QED BY <1>2, <3>2, <4>1, SettledFields
    <3>4. db' \in Tables /\ history' \in Seq(Row) /\ AppliedOnce' /\ TablesInv' /\ Kept
          /\ history' = history
      BY <3>1, NothingNew, Zenon
    <3>5. AnswerOk(s)
      <4>1. v = Null \/ v \in Record
        BY <1>2, <3>1, Zenon DEF IInv, TypeOK, Tables
      <4>2. v # Null => CommittedState(o.call.pid, v.revision, Candidate(v.content))
        BY <1>2, <3>1, Zenon DEF IInv, TablesInv
      <4>3. o.from.duplicate => v # Null
        BY <1>2, <3>1, Zenon DEF AnswerOk
      <4>4. QED BY <2>1, <1>2, <3>3, <4>1, <4>2, <4>3, Zenon DEF AnswerOk
    <3>6. AnswerOk(s)'
      BY <3>1, <3>4, <3>5, TablesFrame, Zenon
    <3>7. QED BY <3>1, <3>2, <3>3, <3>4, <3>6, Zenon
  <2>2. CASE o.call.kind = "write"
    <3>1. PICK t \in Tags, v \in Answer :
                 /\ pending' = Replace(o, Settled(o, t, v))
                 /\ t \in {"written", "duplicate"} =>
                       CommittedEffect(o.call.pid, o.call.operation, Candidate(o.call.content))'
                 /\ t = "written" =>
                       /\ v \in [revision : Nat]
                       /\ CommittedState(o.call.pid, v.revision, Candidate(o.call.content))'
      BY <2>2, WriteAnswers, Zenon
    <3>2. PICK s : s = Settled(o, t, v)
      BY Zenon
    <3>3. /\ s \in Operation /\ s.from = o.from /\ s.call = o.call
          /\ s.stage = "settled" /\ s.tag = t /\ s.value = v
      BY <1>2, <3>2, SettledFields, SMTT(45)
    <3>4. db' \in Tables /\ history' \in Seq(Row) /\ AppliedOnce' /\ TablesInv' /\ Kept
      BY <2>2, WriteAnswers, Zenon
    <3>5. ~o.from.duplicate
      BY <1>2, <2>2, Zenon DEF AnswerOk
    <3>6. AnswerOk(s)'
      BY <2>2, <3>1, <3>3, <3>5, Zenon DEF AnswerOk
    <3>7. QED BY <3>1, <3>2, <3>3, <3>4, <3>6, Zenon
  <2>3. QED BY <1>2, <2>1, <2>2, Zenon DEF Operation, Call
<1>4. PICK s \in Operation : /\ pending' = Replace(o, s) /\ s.from = o.from /\ s.call = o.call
                             /\ AnswerOk(s)'
  BY <1>3, Zenon
<1>5. ASSUME NEW q \in InFlight PROVE AnswerOk(q)'
  <2>1. AnswerOk(q) /\ q.call.pid \in Pids
    BY Zenon DEF IInv, TypeOK, FlightInv, InFlight, Operation, Call
  <2>2. QED BY <1>3, <2>1, Zenon DEF AnswerOk, Kept
<1>6. \A p, op, x : CommittedEffect(p, op, x) => CommittedEffect(p, op, x)'
  BY <1>3, Zenon DEF Kept
<1>7. FlightInv' /\ \A q \in InFlight' : q \in Operation /\ q.call.pid = PidOf[q.from.actor]
  BY <1>1, <1>4, <1>5, <1>6, SettlesFlight, Zenon
<1>8. TypeOK'
  BY <1>1, <1>3, <1>7, Zenon DEF IInv, TypeOK, InFlight
<1>9. RunningIsCommitted' /\ AcknowledgedIsDurable'
  BY <1>1, <1>3, Zenon DEF IInv, RunningIsCommitted, AcknowledgedIsDurable, Kept
<1>10. QED BY <1>3, <1>7, <1>8, <1>9, Zenon DEF IInv

-----------------------------------------------------------------------------
(* The invariant and the theorems.                                         *)

\* A new file, and no actor spawned.
LEMMA InitInv == Init => IInv
<1> SUFFICES ASSUME Init PROVE IInv
  BY Zenon
<1>1. /\ db = EmptyTables /\ history = <<>> /\ acked = {} /\ pending = {} /\ control = {}
      /\ actor = [a \in Actors |-> NotSpawned]
  BY Zenon DEF Init, StoreInit
<1>2. /\ db.state = [p \in Pids |-> Null] /\ db.operations = [p \in Pids |-> {}]
      /\ db.changes = {} /\ db.sequence = 0
  BY <1>1, Zenon DEF EmptyTables
<1>3. db \in Tables
  BY <1>1, Zenon DEF EmptyTables, Tables
<1>4. NotSpawned \in Behavior /\ NotSpawned.phase = "STOPPING"
  BY Zenon DEF NotSpawned, NoEffect, Behavior, Phases, States
<1>5. TypeOK
  BY <1>1, <1>3, <1>4, SMTT(45) DEF TypeOK
<1>6. \A p : Changes(p) = {}
  BY <1>1 DEF Changes
<1>7. AppliedOnce
  BY <1>1, SMTT(45) DEF AppliedOnce
<1>8. TablesInv
  BY <1>1, <1>2, <1>6, SMTT(45) DEF TablesInv
<1>9. FlightInv
  BY <1>1, Zenon DEF FlightInv, InFlight
<1>10. RunningIsCommitted
  BY <1>1, <1>4, Zenon DEF RunningIsCommitted
<1>11. AcknowledgedIsDurable
  BY <1>1, Zenon DEF AcknowledgedIsDurable
<1>12. QED BY <1>5, <1>7, <1>8, <1>9, <1>10, <1>11, Zenon DEF IInv

\* Every step keeps the invariant.
LEMMA NextInv == IInv /\ [Next]_vars => IInv'
<1> SUFFICES ASSUME IInv, [Next]_vars PROVE IInv'
  BY Zenon
<1>1. ASSUME NEW a \in Actors, Materialize(a) \/ Fail(a) PROVE IInv'
  BY <1>1, MaterializeInv, FailInv, Zenon
<1>2. ASSUME NEW a \in Actors, NEW c \in Commands, ProcessCommand(a, c) PROVE IInv'
  BY <1>2, ProcessInv, Zenon
<1>3. ASSUME NEW o \in pending, StoreExecutes(o) \/ StoreTimesOut(o) \/ StoreCompletes(o)
      PROVE  IInv'
  BY <1>3, ExecutesInv, TimesOutInv, CompletesInv, Zenon
<1>4. ASSUME NEW m \in control, Deliver(m) PROVE IInv'
  BY <1>4, DeliverInv, Zenon
<1>5. CASE StoreLifecycle
  <2>1. UNCHANGED <<db, pending>>
    BY <1>5, Zenon DEF StoreLifecycle, Lifecycle, Start, OpenSucceeds, OpenFails, PrepareStop,
                StopNew, StopDrained, StopClosed
  <2>2. QED BY <1>5, <2>1, FrameInv, Zenon DEF StoreLifecycle
<1>6. CASE Crash
  BY <1>6, CrashInv, Zenon
<1>7. CASE UNCHANGED vars
  BY <1>7, FrameInv, Zenon DEF vars, storeVars
<1>8. QED BY <1>1, <1>2, <1>3, <1>4, <1>5, <1>6, <1>7, Zenon DEF Next

\* IInv holds in every reachable state.
LEMMA InductiveInvariant == Spec => []IInv
<1>1. QED BY InitInv, NextInv, PTL DEF Spec

\* The types of the tables, the actors and what is on its way between them.
THEOREM StateTypeCorrect == Spec => []TypeOK
<1>1. IInv => TypeOK
  BY Zenon DEF IInv
<1>2. QED BY <1>1, InductiveInvariant, PTL

\* AcknowledgedIsDurable: whatever the interleaving of the actors, the I/O
\* worker's timeouts, crashes and restarts, a callback of an effect runs only
\* when the effect's operation is committed with the content that was asked
\* for, and is shown a state the store committed at that revision.
THEOREM CallbacksSeeDurableState == Spec => []AcknowledgedIsDurable
<1>1. IInv => AcknowledgedIsDurable
  BY Zenon DEF IInv
<1>2. QED BY <1>1, InductiveInvariant, PTL

\* RunningIsCommitted: an actor that takes commands holds a state the store
\* committed, at the revision it was committed with, or the empty one.
THEOREM MemoryIsCommitted == Spec => []RunningIsCommitted
<1>1. IInv => RunningIsCommitted
  BY Zenon DEF IInv
<1>2. QED BY <1>1, InductiveInvariant, PTL

\* AppliedOnce: however an operation is retried, it changes the state once,
\* and the revisions of a persistence id count its changes without a gap.
THEOREM OperationsAppliedOnce == Spec => []AppliedOnce
<1>1. IInv => AppliedOnce
  BY Zenon DEF IInv
<1>2. QED BY <1>1, InductiveInvariant, PTL
=============================================================================
