------------------------------ MODULE Cluster ------------------------------
(***************************************************************************)
(* Cluster membership (src/movie/cluster/runtime.py): one coordinator owns *)
(* the membership and its revision; every other system joins in two phases *)
(* (request, acceptance, confirmation), sends heartbeats, and holds a copy *)
(* it replaces by any snapshot of a later revision.  An identity is one    *)
(* incarnation of a system: a restarted system is another identity of the  *)
(* same name.                                                              *)
(*                                                                         *)
(* Control messages travel over associations that break and come back, are *)
(* sent by several threads after they released their lock, and wait in a   *)
(* bounded queue that refuses what it cannot hold: here they are a set per *)
(* receiver from which any is taken next and any may be lost.  Clocks are  *)
(* not modelled: what waits for a deadline may happen at any time.         *)
(***************************************************************************)
EXTENDS Naturals, Sequences, FiniteSets, FiniteSetsExt, SequencesExt, Functions

CONSTANTS
    Coordinator,           \* the identity of the seed system
    Joiners,               \* the identities that join
    NameOf,                \* [identities -> system names]
    Null,
    MemberLimit,           \* ClusterConfig.member_limit
    RetiredLimit,          \* retired_identity_limit
    ControlQueueCapacity,  \* [identities -> control_queue_capacity]
    MaxHeartbeats          \* [Joiners -> bound on its heartbeats]

Ids == Joiners \cup {Coordinator}

ASSUME ClusterAssumption ==
    /\ Coordinator \notin Joiners
    /\ {MemberLimit, RetiredLimit} \subseteq Nat \ {0}
    /\ ControlQueueCapacity \in [Ids -> Nat \ {0}]
    /\ MaxHeartbeats \in [Joiners -> Nat]

VARIABLES
    coord,   \* the coordinator's runtime
    joiner,  \* [Joiners -> the member's runtime]
    inbox    \* [Ids -> control messages on their way to it]

vars == <<coord, joiner, inbox>>

---------------------------------------------------------------------------
(* Members and snapshots.                                                  *)

Joining == [status |-> "joining", reachable |-> TRUE]

Ended == {"STOPPED", "CRASHED"}

Active(m) == {i \in DOMAIN m : m[i].status # "left"}

WithMember(m, i, member) == [k \in DOMAIN m \cup {i} |-> IF k = i THEN member ELSE m[k]]

WithStatus(m, i, status) == [m EXCEPT ![i].status = status]

\* A member's runtime before it does anything, and what is left of it after
\* a crash.
Process(j, state) ==
    [state |-> state, stage |-> "none", revision |-> 0,
     members |-> [i \in {j} |-> Joining], snapshot |-> Null, retired |-> {},
     contact |-> FALSE, token |-> 0, requested |-> FALSE, submission |-> Null,
     joined |-> FALSE, leaving |-> FALSE, left |-> FALSE, heartbeat |-> 0, acked |-> 0]

Init ==
    /\ coord = [state |-> "NEW", revision |-> 0,
                members |-> [i \in {Coordinator} |-> Joining],
                tokens |-> <<>>, sequence |-> <<>>, pending |-> {}, departing |-> Null,
                granted |-> [j \in Joiners |-> 0],
                leftOrder |-> <<>>, retired |-> {}]
    /\ joiner = [j \in Joiners |-> Process(j, "NEW")]
    /\ inbox = [i \in Ids |-> {}]

---------------------------------------------------------------------------
(* Sending.  _admit_remote_control takes a message while the receiver      *)
(* starts or runs, and the two answers that end a leave while it stops.    *)

StateOf(i) == IF i = Coordinator THEN coord.state ELSE joiner[i].state

Admits(i, m) ==
    \/ StateOf(i) \in {"STARTING", "RUNNING"}
    \/ StateOf(i) = "STOPPING" /\ m.type \in {"LeaveAck", "MembershipUpdate"}

\* msgs: a function from receivers to the message for each.
Post(box, msgs) ==
    [i \in Ids |-> IF /\ i \in DOMAIN msgs /\ Admits(i, msgs[i])
                      /\ Cardinality(box[i]) < ControlQueueCapacity[i]
                   THEN box[i] \cup {msgs[i]} ELSE box[i]]

Taken(i, m) == [inbox EXCEPT ![i] = @ \ {m}]

ToCoordinator(m) == [i \in {Coordinator} |-> m]

\* _wire_snapshot_locked, and the updates of _broadcast_membership.
Update(c, i) ==
    [type |-> "MembershipUpdate", token |-> c.tokens[i], revision |-> c.revision,
     members |-> c.members]

Broadcast(c, exclude) == [i \in DOMAIN c.tokens \ exclude |-> Update(c, i)]

---------------------------------------------------------------------------
(* Starting.                                                               *)

\* Coordinator: _form_cluster, start the worker, run.
Form ==
    /\ coord.state = "NEW"
    /\ coord' = [coord EXCEPT !.state = "RUNNING", !.revision = 1,
                              !.members = WithStatus(@, Coordinator, "up")]
    /\ UNCHANGED <<joiner, inbox>>

\* One process per name: an incarnation starts after the last one ended.
Start(j) ==
    /\ joiner[j].state = "NEW"
    /\ \A k \in Joiners \ {j} :
          NameOf[k] = NameOf[j] => joiner[k].state \in Ended \cup {"NEW"}
    /\ joiner' = [joiner EXCEPT ![j].state = "STARTING"]
    /\ UNCHANGED <<coord, inbox>>

\* _associate_coordinator_until, _resolve_coordinator_until, and the request.
Contact(j) ==
    /\ joiner[j].state = "STARTING" /\ ~joiner[j].contact
    /\ coord.state \notin Ended \cup {"NEW"}
    /\ joiner' = [joiner EXCEPT ![j].contact = TRUE, ![j].requested = TRUE,
                                ![j].submission = [type |-> "JoinRequest", from |-> j]]
    /\ UNCHANGED <<coord, inbox>>

\* _submit_pending_join_control; a tell that raises leaves the submission.
SubmitJoin(j) ==
    /\ joiner[j].state = "STARTING" /\ joiner[j].submission # Null
    /\ joiner' = [joiner EXCEPT ![j].submission = Null]
    /\ inbox' = Post(inbox, ToCoordinator(joiner[j].submission))
    /\ UNCHANGED coord

Joined(j) ==
    /\ joiner[j].state = "STARTING" /\ joiner[j].joined
    /\ joiner' = [joiner EXCEPT ![j].state = "RUNNING"]
    /\ UNCHANGED <<coord, inbox>>

\* The deadline of the join passed.
JoinFails(j) ==
    /\ joiner[j].state = "STARTING" /\ ~joiner[j].joined
    /\ joiner' = [joiner EXCEPT ![j].state = "FAILED"]
    /\ UNCHANGED <<coord, inbox>>

---------------------------------------------------------------------------
(* The coordinator's worker.                                               *)

\* Mutant: the departed member is not queued for reclaiming.
RevokeForgets(c, i) ==
    [c EXCEPT !.pending = @ \ {i},
              !.tokens = Restrict(@, DOMAIN @ \ {i}),
              !.sequence = Restrict(@, DOMAIN @ \ {i})]

Revoke(c, i) ==
    [c EXCEPT !.pending = @ \ {i},
              !.tokens = Restrict(@, DOMAIN @ \ {i}),
              !.sequence = Restrict(@, DOMAIN @ \ {i}),
              !.leftOrder = IF i \in DOMAIN c.members /\ c.members[i].status = "left"
                            THEN Append(@, i) ELSE @]

HasRoom(c) == Cardinality(DOMAIN c.members) < MemberLimit

\* Mutant: the identity that made room is not remembered.
ReserveForgets(c) ==
    IF HasRoom(c) \/ c.leftOrder = <<>> THEN c
    ELSE [c EXCEPT !.leftOrder = Tail(@),
                   !.members = Restrict(@, DOMAIN @ \ {Head(c.leftOrder)})]

\* _reserve_member_capacity_locked: the member that left first is retired to
\* make room.  There is never more than one member too many, so the loop
\* drops one, or gives up when no further identity can be remembered.
Reserve(c) ==
    IF HasRoom(c) \/ c.leftOrder = <<>> THEN c
    ELSE LET i == Head(c.leftOrder)
             popped == [c EXCEPT !.leftOrder = Tail(@)]
         IN  IF i \notin c.retired /\ Cardinality(c.retired) >= RetiredLimit
             THEN popped
             ELSE [popped EXCEPT !.retired = @ \cup {i},
                                 !.members = Restrict(@, DOMAIN @ \ {i})]

\* Mutant: the join is undone without a new revision.
ExpiredQuietly(c, i) == Revoke([c EXCEPT !.members = Restrict(@, DOMAIN @ \ {i})], i)

\* _expire_provisional_join.
Expired(c, i) ==
    [Revoke([c EXCEPT !.members = Restrict(@, DOMAIN @ \ {i})], i)
        EXCEPT !.revision = @ + 1]

\* Mutant: an active predecessor of the same name is not looked for.
AdmissibleAnyName(c, i) ==
    /\ c.state = "RUNNING" /\ i \notin c.retired
    /\ i \in DOMAIN c.members => c.members[i].status = "joining"

Admissible(c, i) ==
    /\ c.state = "RUNNING"
    /\ \A k \in Active(c.members) : NameOf[k] = NameOf[i] => k = i
    /\ i \notin c.retired
    /\ i \in DOMAIN c.members => c.members[i].status = "joining"

Accepted(c, i) ==
    LET new == i \notin DOMAIN c.members
        grant == i \notin DOMAIN c.tokens
    IN  [c EXCEPT
           !.granted[i] = IF grant THEN @ + 1 ELSE @,
           !.tokens = IF grant THEN WithMember(@, i, c.granted[i] + 1) ELSE @,
           !.sequence = IF i \in DOMAIN @ THEN @ ELSE WithMember(@, i, 0),
           !.revision = IF new THEN @ + 1 ELSE @,
           !.members = IF new THEN WithMember(@, i, Joining) ELSE @,
           !.pending = @ \cup {i}]

Acceptance(c, i) ==
    [type |-> "JoinAccepted", token |-> c.tokens[i], revision |-> c.revision,
     members |-> c.members]

\* The answer is sent, or its tell raises and the join is undone.
HandleJoinRequest(m) ==
    LET i == m.from
        room == IF Admissible(coord, i) /\ i \notin DOMAIN coord.members
                THEN Reserve(coord) ELSE coord
        c == Accepted(room, i)
    IN  IF Admissible(coord, i) /\ (i \in DOMAIN coord.members \/ HasRoom(room))
        THEN \/ /\ coord' = c
                /\ inbox' = Post(Taken(Coordinator, m), [k \in {i} |-> Acceptance(c, i)])
             \/ /\ coord' = Expired(c, i)
                /\ inbox' = Taken(Coordinator, m)
        ELSE /\ coord' = room
             /\ inbox' = Taken(Coordinator, m)

Confirmable(c, m) ==
    /\ c.state = "RUNNING"
    /\ m.from \in DOMAIN c.members /\ c.members[m.from].status = "joining"
    /\ m.from \in c.pending
    /\ m.from \in DOMAIN c.tokens /\ c.tokens[m.from] = m.token

HandleJoinConfirm(m) ==
    LET c == [coord EXCEPT !.pending = @ \ {m.from}, !.revision = @ + 1,
                           !.members = WithStatus(@, m.from, "up")]
    IN  IF Confirmable(coord, m)
        THEN coord' = c /\ inbox' = Post(Taken(Coordinator, m), Broadcast(c, {}))
        ELSE UNCHANGED coord /\ inbox' = Taken(Coordinator, m)

Beats(c, m) ==
    /\ m.from \in DOMAIN c.members /\ c.members[m.from].status = "up"
    /\ m.from \in DOMAIN c.tokens /\ c.tokens[m.from] = m.token
    /\ m.sequence > c.sequence[m.from]

HeartbeatAck(c, m) ==
    [type |-> "HeartbeatAck", token |-> m.token, sequence |-> m.sequence,
     revision |-> c.revision, members |-> c.members]

\* A heartbeat makes its member reachable, is answered, and a change is
\* announced to the others (unless the answer could not be sent).
HandleHeartbeat(m) ==
    LET i == m.from
        back == ~coord.members[i].reachable
        c == [coord EXCEPT !.sequence[i] = m.sequence,
                           !.members[i].reachable = TRUE,
                           !.revision = IF back THEN @ + 1 ELSE @]
        others == IF back THEN Broadcast(c, {i}) ELSE <<>>
    IN  IF Beats(coord, m)
        THEN /\ coord' = c
             /\ inbox' = Post(Post(Taken(Coordinator, m), others),
                              [k \in {i} |-> HeartbeatAck(c, m)])
        ELSE UNCHANGED coord /\ inbox' = Taken(Coordinator, m)

\* A member that leaves is announced as leaving, then as left; its token is
\* revoked before the acknowledgement goes out.  Between the two the lock is
\* free and the worker busy with this departure.
Departs(c, m) ==
    /\ m.from \in DOMAIN c.members
    /\ m.from \in DOMAIN c.tokens /\ c.tokens[m.from] = m.token

HandleLeave(m) ==
    LET i == m.from
        up == coord.members[i].status = "up"
        c == IF up THEN [coord EXCEPT !.departing = i, !.revision = @ + 1,
                                      !.members = WithStatus(@, i, "leaving")]
             ELSE [coord EXCEPT !.departing = i]
    IN  IF Departs(coord, m)
        THEN /\ coord' = c
             /\ inbox' = Post(Taken(Coordinator, m), IF up THEN Broadcast(c, {}) ELSE <<>>)
        ELSE UNCHANGED coord /\ inbox' = Taken(Coordinator, m)

FinishLeave ==
    /\ coord.departing # Null /\ coord.state \notin Ended
    /\ LET i == coord.departing
           c == Revoke([coord EXCEPT !.departing = Null, !.revision = @ + 1,
                                     !.members = WithStatus(@, i, "left")], i)
           ack == [type |-> "LeaveAck", revision |-> c.revision, members |-> c.members]
       IN  coord' = c /\ inbox' = Post(Post(inbox, [k \in {i} |-> ack]), Broadcast(c, {i}))
    /\ UNCHANGED joiner

CoordinatorHandles(m) ==
    /\ coord.state \notin Ended \cup {"NEW"} /\ coord.departing = Null
    /\ CASE m.type = "JoinRequest" -> HandleJoinRequest(m)
         [] m.type = "JoinConfirm" -> HandleJoinConfirm(m)
         [] m.type = "Heartbeat" -> HandleHeartbeat(m)
         [] m.type = "Leave" -> HandleLeave(m)
    /\ UNCHANGED joiner

\* Mutant: deadlines are only looked at before shutdown begins.
ExpireWhileRunning(i) ==
    /\ coord.state = "RUNNING" /\ coord.departing = Null
    /\ i \in coord.pending
    /\ coord' = Expired(coord, i)
    /\ UNCHANGED <<joiner, inbox>>

\* _expire_provisional_joins, run after every message.
ExpireJoin(i) ==
    /\ coord.state \notin Ended /\ coord.departing = Null
    /\ i \in coord.pending
    /\ coord' = Expired(coord, i)
    /\ UNCHANGED <<joiner, inbox>>

\* _tick: members without recent evidence are unreachable.
DetectUnreachable(lost) ==
    /\ coord.state = "RUNNING" /\ coord.departing = Null
    /\ lost # {}
    /\ \A i \in lost : coord.members[i].status = "up" /\ coord.members[i].reachable
    /\ LET c == [coord EXCEPT
                   !.revision = @ + Cardinality(lost),
                   !.members = [i \in DOMAIN @ |->
                       IF i \in lost THEN [@[i] EXCEPT !.reachable = FALSE] ELSE @[i]]]
       IN  coord' = c /\ inbox' = Post(inbox, Broadcast(c, {}))
    /\ UNCHANGED joiner

\* down(): an operator removes an unreachable member.
Down(i) ==
    /\ coord.state = "RUNNING"
    /\ i \in DOMAIN coord.members \ {Coordinator}
    /\ coord.members[i] = [status |-> "up", reachable |-> FALSE]
    /\ LET c == Revoke([coord EXCEPT !.revision = @ + 1,
                                     !.members = WithStatus(@, i, "left")], i)
       IN  coord' = c /\ inbox' = Post(inbox, Broadcast(c, {i}))
    /\ UNCHANGED joiner

---------------------------------------------------------------------------
(* A member's worker.                                                      *)

NewlyRetired(n, members) ==
    {i \in DOMAIN n.members : n.members[i].status = "left"} \ DOMAIN members

\* An incarnation that has left never becomes active again.
Revives(n, members) ==
    \E i \in Active(members) :
       \/ i \in n.retired
       \/ i \in DOMAIN n.members /\ n.members[i].status = "left"

SnapshotFits(n, j, revision, members) ==
    /\ revision >= n.revision
    /\ Cardinality(DOMAIN members) <= MemberLimit
    /\ IF revision = n.revision /\ n.snapshot # Null
       THEN members = n.snapshot
       ELSE /\ {j, Coordinator} \subseteq DOMAIN members
            /\ Cardinality(n.retired \cup NewlyRetired(n, members)) <= RetiredLimit
            /\ ~Revives(n, members)

\* _apply_wire_snapshot_locked for a snapshot that fits; a member that
\* leaves keeps its own status.
Apply(n, j, revision, members) ==
    IF revision = n.revision /\ n.snapshot # Null THEN n
    ELSE [n EXCEPT
            !.revision = revision, !.snapshot = members,
            !.retired = @ \cup NewlyRetired(n, members),
            !.members = IF n.members[j].status \in {"leaving", "left"}
                        THEN WithStatus(members, j, n.members[j].status) ELSE members]

CoordinatorSeen(n) == [n EXCEPT !.members[Coordinator].reachable = TRUE]

\* Mutant: any answer of the coordinator completes the join.
CompleteJoinAtOnce(n, j) ==
    IF n.requested THEN [n EXCEPT !.requested = FALSE, !.joined = TRUE] ELSE n

\* _complete_join_if_up_locked.
CompleteJoin(n, j) ==
    IF n.requested /\ n.members[j].status = "up"
    THEN [n EXCEPT !.requested = FALSE, !.joined = TRUE] ELSE n

Fits(j, m) == SnapshotFits(joiner[j], j, m.revision, m.members)

Applied(j, m) == Apply(joiner[j], j, m.revision, m.members)

HandleJoinAccepted(j, m) ==
    IF joiner[j].requested /\ Fits(j, m)
    THEN [Applied(j, m) EXCEPT
            !.token = m.token,
            !.submission = [type |-> "JoinConfirm", from |-> j, token |-> m.token]]
    ELSE joiner[j]

HandleHeartbeatAck(j, m) ==
    IF /\ m.token = joiner[j].token /\ m.sequence > joiner[j].acked
       /\ m.sequence <= joiner[j].heartbeat /\ Fits(j, m)
    THEN CompleteJoin(CoordinatorSeen([Applied(j, m) EXCEPT !.acked = m.sequence]), j)
    ELSE joiner[j]

HandleMembershipUpdate(j, m) ==
    IF m.token = joiner[j].token /\ Fits(j, m)
    THEN CompleteJoin(CoordinatorSeen(Applied(j, m)), j)
    ELSE joiner[j]

HandleLeaveAck(j, m) ==
    IF joiner[j].leaving
    THEN [IF Fits(j, m) THEN Applied(j, m) ELSE joiner[j]
            EXCEPT !.left = TRUE, !.leaving = FALSE]
    ELSE joiner[j]

MemberHandles(j, m) ==
    /\ joiner[j].state \notin Ended
    /\ inbox' = Taken(j, m)
    /\ joiner' = [joiner EXCEPT ![j] =
         CASE m.type = "JoinAccepted" -> HandleJoinAccepted(j, m)
           [] m.type = "HeartbeatAck" -> HandleHeartbeatAck(j, m)
           [] m.type = "MembershipUpdate" -> HandleMembershipUpdate(j, m)
           [] m.type = "LeaveAck" -> HandleLeaveAck(j, m)]
    /\ UNCHANGED coord

\* _tick of a member: a heartbeat, and doubts about the coordinator.
SendHeartbeat(j) ==
    /\ joiner[j].state \in {"STARTING", "RUNNING"}
    /\ joiner[j].members[j].status \in {"joining", "up"}
    /\ joiner[j].token # 0 /\ joiner[j].heartbeat < MaxHeartbeats[j]
    /\ LET n == joiner[j].heartbeat + 1
       IN  /\ joiner' = [joiner EXCEPT ![j].heartbeat = n]
           /\ inbox' = Post(inbox, ToCoordinator([type |-> "Heartbeat", from |-> j,
                                       token |-> joiner[j].token, sequence |-> n]))
    /\ UNCHANGED coord

DoubtCoordinator(j) ==
    /\ joiner[j].state \in {"STARTING", "RUNNING"}
    /\ joiner[j].members[j].status = "up"
    /\ joiner[j].members[Coordinator] = [status |-> "up", reachable |-> TRUE]
    /\ joiner' = [joiner EXCEPT ![j].members[Coordinator].reachable = FALSE]
    /\ UNCHANGED <<coord, inbox>>

---------------------------------------------------------------------------
(* Leaving and stopping: _stop_before_locked, one step per wait.           *)

\* stop() and leave(); a startup that finds itself interrupted raises, and
\* Leave goes on once it has.
BeginStop(j) ==
    /\ joiner[j].state \in {"STARTING", "RUNNING", "FAILED"}
    /\ joiner' = [joiner EXCEPT ![j].state = "STOPPING"]
    /\ UNCHANGED <<coord, inbox>>

CanLeave(j) ==
    \/ joiner[j].members[j].status = "up"
    \/ joiner[j].members[j].status = "joining" /\ joiner[j].token # 0 /\ joiner[j].contact

\* _member_leave up to its wait, for a member that can; others go straight
\* to the end.
Leave(j) ==
    /\ joiner[j].state = "STOPPING" /\ joiner[j].stage = "none"
    /\ IF CanLeave(j)
       THEN /\ joiner' = [joiner EXCEPT
                  ![j].stage = "leaving", ![j].leaving = TRUE, ![j].left = FALSE,
                  ![j].members = WithStatus(@, j, "leaving")]
            /\ inbox' = Post(inbox, ToCoordinator([type |-> "Leave", from |-> j,
                                                   token |-> joiner[j].token]))
       ELSE /\ joiner' = [joiner EXCEPT ![j].stage = "done"]
            /\ UNCHANGED inbox
    /\ UNCHANGED coord

\* The acknowledgement came, or half the time is over.
LeaveEnds(j) ==
    /\ joiner[j].stage = "leaving"
    /\ joiner' = [joiner EXCEPT ![j].stage = "done",
                                ![j].members = WithStatus(@, j, "left")]
    /\ UNCHANGED <<coord, inbox>>

\* The worker and the control actor are gone.  A runtime is not used again.
Stopped(j) ==
    /\ joiner[j].stage = "done"
    /\ joiner' = [joiner EXCEPT ![j] = Process(j, "STOPPED")]
    /\ inbox' = [inbox EXCEPT ![j] = {}]
    /\ UNCHANGED coord

\* The coordinator's stop: _coordinator_leave announces it as leaving, then as
\* left, while its worker still handles what was admitted before.
CoordinatorLeaves(from, status) ==
    /\ coord.state \in {"RUNNING", "STOPPING"}
    /\ coord.members[Coordinator].status = from
    /\ LET c == [coord EXCEPT !.state = "STOPPING", !.revision = @ + 1,
                              !.members = WithStatus(@, Coordinator, status)]
       IN  coord' = c /\ inbox' = Post(inbox, Broadcast(c, {}))
    /\ UNCHANGED joiner

CoordinatorStopped ==
    /\ coord.state = "STOPPING" /\ coord.departing = Null
    /\ coord.members[Coordinator].status = "left"
    /\ coord' = [coord EXCEPT !.state = "STOPPED"]
    /\ inbox' = [inbox EXCEPT ![Coordinator] = {}]
    /\ UNCHANGED joiner

---------------------------------------------------------------------------
Lose(i, m) ==
    /\ inbox' = Taken(i, m)
    /\ UNCHANGED <<coord, joiner>>

Crash(j) ==
    /\ joiner[j].state \notin Ended \cup {"NEW"}
    /\ joiner' = [joiner EXCEPT ![j] = Process(j, "CRASHED")]
    /\ inbox' = [inbox EXCEPT ![j] = {}]
    /\ UNCHANGED coord

CoordinatorStep ==
    \/ Form
    \/ \E m \in inbox[Coordinator] : CoordinatorHandles(m)
    \/ FinishLeave
    \/ \E i \in Joiners : ExpireJoin(i) \/ Down(i)
    \/ \E lost \in SUBSET (DOMAIN coord.members \ {Coordinator}) : DetectUnreachable(lost)
    \/ CoordinatorLeaves("up", "leaving") \/ CoordinatorLeaves("leaving", "left")
    \/ CoordinatorStopped

MemberStops(j) == Leave(j) \/ LeaveEnds(j) \/ Stopped(j)

MemberStep(j) ==
    \/ Start(j) \/ Contact(j) \/ SubmitJoin(j) \/ Joined(j) \/ JoinFails(j)
    \/ \E m \in inbox[j] : MemberHandles(j, m)
    \/ SendHeartbeat(j) \/ DoubtCoordinator(j)
    \/ BeginStop(j) \/ MemberStops(j)

Next ==
    \/ CoordinatorStep
    \/ \E j \in Joiners : MemberStep(j) \/ Crash(j)
    \/ \E i \in Ids : \E m \in inbox[i] : Lose(i, m)

Spec == Init /\ [][Next]_vars

\* Fairness: deadlines pass, and the worker looks at them after every message
\* it handles.
FairSpec ==
    /\ Spec
    /\ \A i \in Joiners : WF_vars(ExpireJoin(i))
    /\ WF_vars(FinishLeave)

---------------------------------------------------------------------------
(* Properties.                                                             *)

Views == [i \in Ids |-> IF i = Coordinator THEN coord.members ELSE joiner[i].members]

\* A revision names one membership: the coordinator, the copies the members
\* accepted and the snapshots still on their way agree wherever their
\* revisions do (_apply_wire_snapshot_locked relies on it to tell a repeated
\* snapshot from a wrong one).
Snapshots ==
    {[revision |-> coord.revision, members |-> coord.members]}
    \cup {[revision |-> joiner[j].revision, members |-> joiner[j].snapshot] :
             j \in {k \in Joiners : joiner[k].snapshot # Null}}
    \cup UNION {{[revision |-> m.revision, members |-> m.members] : m \in inbox[j]} :
                  j \in Joiners}

RevisionNamesMembership ==
    \A s, t \in Snapshots : s.revision = t.revision => s.members = t.members

\* In every view at most one incarnation of a system is active, whatever the
\* order in which a restarted system and its predecessor are heard of.
OneIncarnation ==
    \A i \in Ids : \A k, l \in Active(Views[i]) : NameOf[k] = NameOf[l] => k = l

\* A member believes itself up only after its confirmation was taken: the
\* coordinator holds it as more than joining, or remembers that it left.  An
\* expired or refused join never looks like a success to the joiner.
UpWasConfirmed ==
    \A j \in Joiners :
       joiner[j].joined =>
          \/ j \in coord.retired
          \/ j \in DOMAIN coord.members /\ coord.members[j].status # "joining"

\* The coordinator's tables agree: exactly the active members other than
\* itself hold a token, exactly the joining ones have a deadline, every left
\* one can be reclaimed or has been given up, and the limit is kept.
TablesAgree ==
    LET others(status) == {i \in DOMAIN coord.members \ {Coordinator} :
                             coord.members[i].status = status}
    IN  /\ DOMAIN coord.tokens = Active(coord.members) \ {Coordinator}
        /\ coord.pending = others("joining")
        /\ \/ Range(coord.leftOrder) = others("left")
           \/ Cardinality(coord.retired) = RetiredLimit
        /\ Cardinality(DOMAIN coord.members) <= MemberLimit

\* An identity that a node saw leave stays gone in that node's view: no late
\* snapshot, heartbeat or confirmation brings it back.
Gone(members, retired) ==
    retired \cup {i \in DOMAIN members : members[i].status = "left"}

LeftIsFinal ==
    [][/\ Gone(coord.members, coord.retired)
            \subseteq Gone(coord.members, coord.retired)'
       /\ \A j \in Joiners :
             \/ Gone(joiner[j].members, joiner[j].retired)
                   \subseteq Gone(joiner[j].members, joiner[j].retired)'
             \/ joiner'[j].state \in Ended]_vars

\* A provisional join ends: the place it holds under member_limit is taken
\* up by a confirmation or given back.
JoinSettles ==
    \A j \in Joiners :
       j \in coord.pending ~> (j \notin coord.pending \/ coord.state \in Ended)

============================================================================
