----------------------------- MODULE Remoting -----------------------------
(***************************************************************************)
(* Remoting between two actor systems: the runtime that owns a system's    *)
(* associations (src/movie/remoting/runtime.py) and the association, one   *)
(* thread per end of a connection, that shakes hands, carries messages and *)
(* requests, and cleans up (src/movie/remoting/association.py).            *)
(*                                                                         *)
(* A process is one incarnation of a system; a restarted system is another *)
(* process of the same name.  Each system knows one peer, by name.  A      *)
(* connection is an attempt to associate; it has an initiator side "i" and *)
(* a responder side "r".  The transport keeps the order of control frames  *)
(* and the order of the delivery lane, lets a lane overtake control, and   *)
(* writes the terminal GOAWAY after both (src/movie/remoting/transport.py).*)
(* What was not read when a connection closes is lost.                     *)
(***************************************************************************)
EXTENDS Naturals, Sequences, FiniteSets, SequencesExt

CONSTANTS
    Procs,           \* the incarnations
    NameOf,          \* [Procs -> system names]
    Uid,             \* [Procs -> Nat]: the order of their incarnation UIDs
    Generation,      \* [Procs -> Nat]: the order in which a name is reused
    Conns,           \* attempts to associate: numbers, ordered as their UIDs
    Initiator,       \* [Conns -> Procs]: who attempts it
    Messages,        \* numbers: what a thread of each process tells, in order
    From, To,        \* [Messages -> Procs]: sender and referenced incarnation
    Resolver,        \* the process of which one thread resolves a path, or Null
    Null,
    PendingLimit,    \* pending_association_limit
    OutboundLimit,   \* outbound_message_limit
    InboundLimit,    \* inbound_message_limit
    Faults,          \* the kinds of timeout, loss, failure and stop that happen
    MaxFaults        \* how many of them

Sides == {"i", "r"}

ASSUME RemotingAssumption ==
    /\ Conns \subseteq Nat /\ Messages \subseteq Nat /\ {Uid, Generation} \subseteq [Procs -> Nat]
    /\ {PendingLimit, OutboundLimit, InboundLimit} \subseteq Nat \ {0}

VARIABLES
    rt,      \* [Procs -> runtime]
    end,     \* [Conns -> [Sides -> association]]
    wire,    \* [Conns -> [Sides -> what is on its way to that side]]
    to,      \* [Conns -> the process whose listener accepted it, or Null]
    call,    \* [Conns -> progress of associate()]
    tell,    \* [Messages -> progress of RemoteActorRef.tell()]
    res,     \* progress of the resolve() call
    log,     \* per connection and sending side, what was admitted and delivered
    faults

vars == <<rt, end, wire, to, call, tell, res, log, faults>>

MayFail(kind) == kind \in Faults /\ faults < MaxFaults

NoEnd == [st |-> "none", pc |-> "none", peer |-> Null, order |-> 0, victim |-> Null,
          reason |-> Null, closed |-> FALSE, out |-> 0, in |-> 0, deferred |-> <<>>,
          pending |-> FALSE]

NoWire == [ctl |-> <<>>, lane |-> <<>>, term |-> Null]

Init ==
    /\ rt = [p \in Procs |-> [state |-> "NEW", active |-> Null, known |-> Null, gen |-> 0,
                              next |-> 1, setups |-> 0, closing |-> {}, told |-> FALSE]]
    /\ end = [c \in Conns |-> [s \in Sides |-> NoEnd]]
    /\ wire = [c \in Conns |-> [s \in Sides |-> NoWire]]
    /\ to = [c \in Conns |-> Null]
    /\ call = [c \in Conns |-> "idle"]
    /\ tell = [m \in Messages |-> [pc |-> "idle", conn |-> Null]]
    /\ res = [pc |-> "idle", conn |-> Null]
    /\ log = [c \in Conns |-> [s \in Sides |-> [sent |-> <<>>, got |-> <<>>]]]
    /\ faults = 0

---------------------------------------------------------------------------
Other(s) == IF s = "i" THEN "r" ELSE "i"

Owner(c, s) == IF s = "i" THEN Initiator[c] ELSE to[c]

Ends(p) == {e \in Conns \X Sides : Owner(e[1], e[2]) = p}

End(e) == end[e[1]][e[2]]

\* _associations: started and not yet closed.
Associations(p) == {e \in Ends(p) : End(e).st \notin {"none", "CLOSED"}}

Handshaking(p) == {e \in Associations(p) : End(e).st = "HANDSHAKING"}

Capacity == 1 + PendingLimit

InUse(p) == Cardinality(Associations(p)) + Cardinality(rt[p].closing) + rt[p].setups

SideOf(p, c) == IF Initiator[c] = p THEN "i" ELSE "r"

StateAt(p, c) == end[c][SideOf(p, c)].st

\* initiator_rank: the incarnation of the side that connected, then the
\* association itself.
Rank(c) == <<Uid[Initiator[c]], c>>

Below(c, d) ==
    \/ Rank(c)[1] < Rank(d)[1]
    \/ Rank(c)[1] = Rank(d)[1] /\ Rank(c)[2] < Rank(d)[2]

\* What is not read may still be queued by the sender, which then may be full.
Full(c, s) == Len(wire[c][Other(s)].ctl) + Len(wire[c][Other(s)].lane) >= OutboundLimit

\* A frame is admitted while the sending side is open and has not sent its
\* terminal record; the other side gets it if it is still open.
CanSend(c, s) == ~end[c][s].closed /\ wire[c][Other(s)].term = Null

Put(w, c, s, frames) ==
    IF end[c][Other(s)].closed THEN w
    ELSE [w EXCEPT ![c][Other(s)].ctl = @ \o frames]

PutTerminal(w, c, s, reason) ==
    IF end[c][s].closed \/ end[c][Other(s)].closed \/ w[c][Other(s)].term # Null THEN w
    ELSE [w EXCEPT ![c][Other(s)].term = reason]

\* _set_close_reason and the end of the thread's loop.  Of the reasons only a
\* duplicate and a lost connection are told apart from a failure (shutdown,
\* flow control or a violation of the protocol); "sequence" marks the one
\* that a lane out of order would give.
Closing(e, reason) ==
    [e EXCEPT !.pc = "cleanup",
              !.reason = IF @ = Null THEN reason ELSE @,
              !.st = IF @ = "CLOSED" THEN @ ELSE "CLOSING"]

\* request_close: the first request decides; the thread notices later.
Requested(e, reason) ==
    IF e.st \in {"CLOSING", "CLOSED"} THEN e
    ELSE [e EXCEPT !.st = "CLOSING", !.reason = reason]

RequestCloses(e) == e.st \notin {"CLOSING", "CLOSED"}

---------------------------------------------------------------------------
(* Setting up: start, associate, the listener's callback.                  *)

\* One process per name at a time.  Connections that arrive before start()
\* returns wait in _pending_incoming, like those the transport still holds.
Start(p) ==
    /\ rt[p].state = "NEW"
    /\ \A q \in Procs \ {p} : NameOf[q] = NameOf[p] =>
          IF Generation[q] > Generation[p] THEN rt[q].state = "NEW"
          ELSE rt[q].state \in {"NEW", "STOPPED", "CRASHED"}
    /\ rt' = [rt EXCEPT ![p].state = "RUNNING"]
    /\ UNCHANGED <<end, wire, to, call, tell, res, log, faults>>

Associate(c) ==
    LET p == Initiator[c]
        current == rt[p].active
    IN  /\ call[c] = "idle" /\ rt[p].state = "RUNNING"
        /\ IF current # Null /\ StateAt(p, current) = "ACTIVE"
           THEN call' = [call EXCEPT ![c] = "ok"] /\ UNCHANGED rt
           ELSE IF InUse(p) >= Capacity
           THEN call' = [call EXCEPT ![c] = "failed"] /\ UNCHANGED rt
           ELSE /\ call' = [call EXCEPT ![c] = "connecting"]
                /\ rt' = [rt EXCEPT ![p].setups = @ + 1]
        /\ UNCHANGED <<end, wire, to, tell, res, log, faults>>

\* _register_and_start for a runtime whose reservation, if any, is released.
Registers(p, setups) ==
    /\ rt[p].state = "RUNNING"
    /\ Cardinality(Associations(p)) + Cardinality(rt[p].closing) + setups < Capacity
    /\ Cardinality(Handshaking(p)) < PendingLimit

Registered(p, e) == [e EXCEPT !.st = "HANDSHAKING", !.pc = "hello", !.order = rt[p].next]

Refused == [NoEnd EXCEPT !.st = "CLOSED", !.pc = "done", !.closed = TRUE]

\* transport.connect returns: the initiator's association is registered and
\* sends its HELLO, or its connection is left to the closer.
Connected(c, q) ==
    LET p == Initiator[c]
        accepted == Registers(p, rt[p].setups - 1)
    IN  /\ call[c] = "connecting"
        /\ NameOf[q] # NameOf[p] /\ rt[q].state = "RUNNING"
        /\ to' = [to EXCEPT ![c] = q]
        /\ IF accepted
           THEN /\ rt' = [rt EXCEPT ![p].setups = @ - 1, ![p].next = @ + 1]
                /\ end' = [end EXCEPT ![c]["i"] = Registered(p, @)]
                /\ wire' = Put(wire, c, "i", <<[type |-> "Hello", from |-> p]>>)
                /\ call' = [call EXCEPT ![c] = "waiting"]
           ELSE /\ rt' = [rt EXCEPT ![p].setups = @ - 1, ![p].closing = @ \cup {c}]
                /\ end' = [end EXCEPT ![c]["i"] = Refused]
                /\ call' = [call EXCEPT ![c] = "failed"]
                /\ UNCHANGED wire
        /\ UNCHANGED <<tell, res, log, faults>>

\* Nobody listens, or the connection could not be made in time.
ConnectFails(c) ==
    LET listening == \E q \in Procs : NameOf[q] # NameOf[Initiator[c]] /\ rt[q].state = "RUNNING"
    IN  /\ call[c] = "connecting"
        /\ listening => MayFail("connect")
        /\ faults' = IF listening THEN faults + 1 ELSE faults
        /\ rt' = [rt EXCEPT ![Initiator[c]].setups = @ - 1]
        /\ call' = [call EXCEPT ![c] = "failed"]
        /\ UNCHANGED <<end, wire, to, tell, res, log>>

\* _on_connection: start an association, or close the connection at once.
\* A close that does not finish in time is left to the closer.
Incoming(c) ==
    LET q == to[c]
    IN  /\ q # Null /\ end[c]["r"].st = "none"
        /\ rt[q].state \notin {"CRASHED"}
        /\ IF Registers(q, rt[q].setups)
           THEN /\ rt' = [rt EXCEPT ![q].next = @ + 1]
                /\ end' = [end EXCEPT ![c]["r"] = Registered(q, @)]
                /\ UNCHANGED wire
           ELSE /\ \/ UNCHANGED rt
                   \/ /\ InUse(q) < Capacity /\ rt[q].state # "STOPPED"
                      /\ rt' = [rt EXCEPT ![q].closing = @ \cup {c}]
                /\ end' = [end EXCEPT ![c]["r"] = Refused]
                /\ wire' = [wire EXCEPT ![c]["r"] = NoWire]
        /\ UNCHANGED <<to, call, tell, res, log, faults>>

Kept(p) == rt[p].active # Null /\ StateAt(p, rt[p].active) = "ACTIVE"

\* wait_active: the caller of associate() sees its association active, or
\* closing; a duplicate waits for the association retained in its place.
WaitActive(c) ==
    LET e == end[c]["i"]
        outcome == IF e.st = "ACTIVE" THEN "settling"
                   ELSE IF e.reason # "duplicate" THEN "failed" ELSE "reciprocal"
    IN  /\ call[c] = "waiting" /\ e.st # "HANDSHAKING"
        /\ call' = [call EXCEPT ![c] =
                      IF rt[Initiator[c]].state = "FAILED" THEN "failed" ELSE outcome]
        /\ UNCHANGED <<rt, end, wire, to, tell, res, log, faults>>

\* _wait_for_retained_association.
WaitForRetained(c) ==
    LET p == Initiator[c]
        unsettled == \E h \in Handshaking(p) : h[2] = "i" \/ End(h).peer # Null
    IN  /\ \/ call[c] = "reciprocal" /\ (Kept(p) \/ rt[p].state = "FAILED")
           \/ call[c] = "settling" /\ (~unsettled \/ rt[p].state = "FAILED")
        /\ call' = [call EXCEPT ![c] = IF Kept(p) /\ rt[p].state # "FAILED"
                                       THEN "ok" ELSE "failed"]
        /\ UNCHANGED <<rt, end, wire, to, tell, res, log, faults>>

\* Its time is over.  An association still shaking hands is asked to close,
\* even if it became active just then.
AssociateTimesOut(c) ==
    LET e == end[c]["i"]
        hopeless == call[c] = "reciprocal" /\ Associations(Initiator[c]) = {}
    IN  /\ call[c] \in {"waiting", "settling", "reciprocal"}
        /\ hopeless \/ MayFail("associate")
        /\ faults' = IF hopeless THEN faults ELSE faults + 1
        /\ call' = [call EXCEPT ![c] = "failed"]
        /\ IF call[c] = "settling" THEN UNCHANGED <<end, wire>>
           ELSE /\ end' = [end EXCEPT ![c]["i"] = Requested(@, "failure")]
                /\ wire' = IF RequestCloses(e)
                           THEN PutTerminal(wire, c, "i", "failure") ELSE wire
        /\ UNCHANGED <<rt, to, tell, res, log>>

---------------------------------------------------------------------------
(* The handshake.                                                          *)

Running(c, s, pc) ==
    /\ end[c][s].pc = pc
    /\ rt[Owner(c, s)].state # "CRASHED"

\* A handshake that fails answers with a rejection.
Reject(w, c, s, reason) ==
    IF CanSend(c, s) THEN Put(w, c, s, <<[type |-> "Reject", reason |-> reason]>>) ELSE w

\* Mutant: any other handshake with the peer wins, whatever its rank.
RetainAlone(c, s, peer) ==
    LET p == Owner(c, s)
    IN  /\ rt[p].state = "RUNNING"
        /\ \/ rt[p].known # Null /\ rt[p].known # peer
           \/ ~\E e \in Handshaking(p) \ {<<c, s>>} :
                 (e[2] = "i" \/ End(e).peer # Null) /\ End(e).peer \in {Null, peer}

\* _retain_handshake_candidate: of several handshakes with one incarnation
\* the lowest rank goes on.
Retain(c, s, peer) ==
    LET p == Owner(c, s)
    IN  /\ rt[p].state = "RUNNING"
        /\ \/ rt[p].known # Null /\ rt[p].known # peer
           \/ ~\E e \in Handshaking(p) \ {<<c, s>>} :
                 /\ e[2] = "i" \/ End(e).peer # Null
                 /\ End(e).peer \in {Null, peer}
                 /\ Below(e[1], c)

\* The frame at the head of the control stream while the thread waits for
\* HELLO or HELLO_ACCEPT: a rejection ends the handshake without an answer,
\* any other unexpected frame (GOAWAY too) with one.
HandshakeFrame(c, s) ==
    IF wire[c][s].ctl # <<>> THEN Head(wire[c][s].ctl)
    ELSE [type |-> "GoAway", reason |-> wire[c][s].term]

HasFrame(c, s) ==
    \/ wire[c][s].ctl # <<>>
    \/ wire[c][s].term # Null /\ wire[c][s].lane = <<>>

Consumed(w, c, s) ==
    IF w[c][s].ctl # <<>> THEN [w EXCEPT ![c][s].ctl = Tail(@)]
    ELSE [w EXCEPT ![c][s].term = Null]

Unexpected(c, s, f, w) ==
    LET rejected == f.type = "Reject"
    IN  /\ end' = [end EXCEPT ![c][s] = Closing(@, IF rejected THEN f.reason ELSE "failure")]
        /\ wire' = IF rejected THEN w ELSE Reject(w, c, s, "failure")

\* _receive_hello, _validate_peer_hello, the retention, and the frames that
\* answer it (the responder's HELLO, the derived HELLO_ACCEPT).
ReceiveHello(c, s) ==
    LET f == HandshakeFrame(c, s)
        w == Consumed(wire, c, s)
        p == Owner(c, s)
        hello == IF s = "r" THEN <<[type |-> "Hello", from |-> p]>> ELSE <<>>
        greeted == [end[c][s] EXCEPT !.peer = f.from]
    IN  /\ Running(c, s, "hello") /\ HasFrame(c, s) /\ ~end[c][s].closed
        /\ IF f.type # "Hello" THEN Unexpected(c, s, f, w)
           ELSE IF ~Retain(c, s, f.from)
           THEN /\ end' = [end EXCEPT ![c][s] = Closing(greeted, "duplicate")]
                /\ wire' = Reject(w, c, s, "duplicate")
           ELSE IF CanSend(c, s)
           THEN /\ end' = [end EXCEPT ![c][s] = [greeted EXCEPT !.pc = "accept"]]
                /\ wire' = Put(w, c, s, Append(hello, [type |-> "Accept"]))
           ELSE end' = [end EXCEPT ![c][s] = Closing(greeted, "lost")] /\ wire' = w
        /\ UNCHANGED <<rt, to, call, tell, res, log, faults>>

\* The peer's HELLO_ACCEPT; the limits are activated.
ReceiveAccept(c, s) ==
    LET f == HandshakeFrame(c, s)
        w == Consumed(wire, c, s)
    IN  /\ Running(c, s, "accept") /\ HasFrame(c, s) /\ ~end[c][s].closed
        /\ IF f.type = "Accept"
           THEN end' = [end EXCEPT ![c][s].pc = "activate"] /\ wire' = w
           ELSE Unexpected(c, s, f, w)
        /\ UNCHANGED <<rt, to, call, tell, res, log, faults>>

\* Messages that overtake the HELLO_ACCEPT are kept, up to the inbound limit.
DeferDelivery(c, s) ==
    /\ Running(c, s, "accept") /\ wire[c][s].lane # <<>> /\ ~end[c][s].closed
    /\ IF Len(end[c][s].deferred) < InboundLimit
       THEN /\ end' = [end EXCEPT ![c][s].deferred = Append(@, Head(wire[c][s].lane))]
            /\ wire' = [wire EXCEPT ![c][s].lane = Tail(@)]
       ELSE /\ end' = [end EXCEPT ![c][s] = Closing(@, "failure")]
            /\ wire' = PutTerminal([wire EXCEPT ![c][s].lane = Tail(@)], c, s, "failure")
    /\ UNCHANGED <<rt, to, call, tell, res, log, faults>>

\* Mutant: a handshake does not notice that its connection was closed.
LostWhenActive(c, s) ==
    /\ end[c][s].pc = "active" /\ rt[Owner(c, s)].state # "CRASHED"
    /\ end[c][s].closed \/ end[c][Other(s)].closed
    /\ end' = [end EXCEPT ![c][s] = Closing(@, "lost")]
    /\ UNCHANGED <<rt, wire, to, call, tell, res, log, faults>>

\* A connection closed by either side, or broken, ends whatever waits on it.
ConnectionLost(c, s) ==
    /\ end[c][s].pc \in {"hello", "accept", "active"}
    /\ rt[Owner(c, s)].state # "CRASHED"
    /\ end[c][s].closed \/ end[c][Other(s)].closed
    /\ end' = [end EXCEPT ![c][s] = Closing(@, "lost")]
    /\ UNCHANGED <<rt, wire, to, call, tell, res, log, faults>>

HandshakeTimesOut(c, s) ==
    /\ end[c][s].pc \in {"hello", "accept"} /\ rt[Owner(c, s)].state # "CRASHED"
    /\ MayFail("handshake")
    /\ faults' = faults + 1
    /\ end' = [end EXCEPT ![c][s] = Closing(@, "failure")]
    /\ wire' = Reject(wire, c, s, "failure")
    /\ UNCHANGED <<rt, to, call, tell, res, log>>

IsLive(p, c) == c # Null /\ StateAt(p, c) \notin {"CLOSING", "CLOSED"}

\* Mutant: the order of registration is not looked at.
ActivatesLate(c, s) ==
    LET p == Owner(c, s)
        current == rt[p].active
    IN  /\ rt[p].state = "RUNNING"
        /\ IsLive(p, current) => /\ end[current][SideOf(p, current)].peer = end[c][s].peer
                                 /\ Below(c, current)

\* _activate_association: not for an incarnation superseded since, and in
\* place of a live association only when that is a higher-ranked duplicate.
Activates(c, s) ==
    LET p == Owner(c, s)
        e == end[c][s]
        current == rt[p].active
    IN  /\ rt[p].state = "RUNNING"
        /\ ~(rt[p].known \notin {Null, e.peer} /\ e.order < rt[p].gen)
        /\ IsLive(p, current) => /\ end[current][SideOf(p, current)].peer = e.peer
                                 /\ Below(c, current)

Activate(c, s) ==
    LET p == Owner(c, s)
        e == end[c][s]
        current == rt[p].active
    IN  /\ Running(c, s, "activate")
        /\ \/ /\ e.closed \/ end[c][Other(s)].closed
              /\ end' = [end EXCEPT ![c][s] = Closing(@, "lost")]
              /\ UNCHANGED <<rt, wire>>
           \/ /\ ~e.closed /\ Activates(c, s)
              /\ rt' = [rt EXCEPT ![p].active = c, ![p].known = e.peer,
                          ![p].gen = IF rt[p].known = e.peer /\ @ > e.order THEN @ ELSE e.order]
              /\ end' = [end EXCEPT ![c][s].pc = "replace",
                                    ![c][s].victim = IF IsLive(p, current)
                                                    THEN current ELSE Null]
              /\ UNCHANGED wire
           \/ /\ ~e.closed /\ ~Activates(c, s)
              /\ end' = [end EXCEPT ![c][s] = Closing(@, "duplicate")]
              /\ wire' = PutTerminal(wire, c, s, "duplicate")
              /\ UNCHANGED rt
        /\ UNCHANGED <<to, call, tell, res, log, faults>>

\* The association that was replaced is asked to close, then the new one is
\* active unless it was asked to close meanwhile.
Become(c, s) ==
    LET p == Owner(c, s)
        v == end[c][s].victim
        u == SideOf(p, v)
        ready == [end EXCEPT ![c][s].victim = Null,
                             ![c][s].pc = IF end[c][s].st = "HANDSHAKING"
                                          THEN "active" ELSE "cleanup",
                             ![c][s].st = IF @ = "HANDSHAKING" THEN "ACTIVE" ELSE @]
    IN  /\ Running(c, s, "replace")
        /\ IF v = Null THEN end' = ready /\ UNCHANGED wire
           ELSE /\ end' = [ready EXCEPT ![v][u] = Requested(@, "duplicate")]
                /\ wire' = IF RequestCloses(end[v][u])
                           THEN PutTerminal(wire, v, u, "duplicate") ELSE wire
        /\ UNCHANGED <<rt, to, call, tell, res, log, faults>>

---------------------------------------------------------------------------
(* An active association.                                                  *)

\* _prepare_user_message and the admission: in sequence, for this
\* incarnation, or the association ends.
Deliver(c, s) ==
    LET kept == end[c][s].deferred # <<>>
        f == IF kept THEN Head(end[c][s].deferred) ELSE Head(wire[c][s].lane)
        e == IF kept THEN [end[c][s] EXCEPT !.deferred = Tail(@)] ELSE end[c][s]
        w == IF kept THEN wire ELSE [wire EXCEPT ![c][s].lane = Tail(@)]
    IN  /\ Running(c, s, "active") /\ ~end[c][s].closed
        /\ kept \/ wire[c][s].lane # <<>>
        /\ IF f.sequence = e.in /\ f.recipient = Owner(c, s)
           THEN /\ end' = [end EXCEPT ![c][s] = [e EXCEPT !.in = @ + 1]]
                /\ log' = [log EXCEPT ![c][Other(s)].got = Append(@, f.message)]
                /\ wire' = w
           ELSE /\ end' = [end EXCEPT ![c][s] = Closing(e, "sequence")]
                /\ wire' = PutTerminal(w, c, s, "failure")
                /\ UNCHANGED log
        /\ UNCHANGED <<rt, to, call, tell, res, faults>>

\* Control frames: requests are answered, a result completes its request,
\* an unknown one, like a handshake frame, ends the association.
ReceiveControl(c, s) ==
    LET f == Head(wire[c][s].ctl)
        w == [wire EXCEPT ![c][s].ctl = Tail(@)]
        fails(reason) == end' = [end EXCEPT ![c][s] = Closing(@, reason)]
    IN  /\ Running(c, s, "active") /\ ~end[c][s].closed
        /\ wire[c][s].ctl # <<>> /\ end[c][s].deferred = <<>>
        /\ \/ /\ f.type = "Resolve" /\ CanSend(c, s)
              /\ wire' = Put(w, c, s, <<[type |-> "Resolved"]>>)
              /\ UNCHANGED <<end, res>>
           \/ /\ f.type = "Resolve"
              /\ \/ ~CanSend(c, s) /\ fails("lost")
                 \/ CanSend(c, s) /\ Full(c, s) /\ fails("failure")
              /\ wire' = w /\ UNCHANGED res
           \/ /\ f.type = "Resolved" /\ end[c][s].pending
              /\ end' = [end EXCEPT ![c][s].pending = FALSE]
              /\ res' = [res EXCEPT !.pc = "answered"]
              /\ wire' = w
           \/ /\ f.type # "Resolve" /\ ~(f.type = "Resolved" /\ end[c][s].pending)
              /\ fails("failure")
              /\ wire' = PutTerminal(w, c, s, "failure") /\ UNCHANGED res
        /\ UNCHANGED <<rt, to, call, tell, log, faults>>

ReceiveGoAway(c, s) ==
    /\ Running(c, s, "active") /\ ~end[c][s].closed
    /\ wire[c][s].term # Null /\ wire[c][s].ctl = <<>>
    /\ wire[c][s].lane = <<>> /\ end[c][s].deferred = <<>>
    /\ end' = [end EXCEPT ![c][s] = Closing(@, wire[c][s].term)]
    /\ wire' = [wire EXCEPT ![c][s].term = Null]
    /\ UNCHANGED <<rt, to, call, tell, res, log, faults>>

\* The loop ends once a close was requested.
StopSeen(c, s) ==
    /\ Running(c, s, "active") /\ end[c][s].st = "CLOSING"
    /\ end' = [end EXCEPT ![c][s].pc = "cleanup"]
    /\ UNCHANGED <<rt, wire, to, call, tell, res, log, faults>>

\* Mutant: a closed association forgets its request.
CleanupForgets(c, s) ==
    LET p == Owner(c, s)
    IN  /\ Running(c, s, "cleanup")
        /\ rt' = [rt EXCEPT ![p].active = IF @ = c THEN Null ELSE @]
        /\ end' = [end EXCEPT ![c][s] = [Refused EXCEPT !.peer = end[c][s].peer,
                                                      !.reason = end[c][s].reason]]
        /\ wire' = [wire EXCEPT ![c][s] = NoWire]
        /\ UNCHANGED <<to, call, tell, res, log, faults>>

\* The end of _run: the connection is closed, or handed to the closer when
\* that takes too long; _mark_closed fails the pending request, and the
\* runtime forgets the association.
Cleanup(c, s) ==
    LET p == Owner(c, s)
    IN  /\ Running(c, s, "cleanup")
        /\ \E late \in BOOLEAN :
              /\ late => ~end[c][s].closed /\ MayFail("close")
              /\ faults' = IF late THEN faults + 1 ELSE faults
              /\ rt' = [rt EXCEPT
                   ![p].active = IF @ = c THEN Null ELSE @,
                   ![p].closing = IF late THEN @ \cup {c} ELSE @]
        /\ end' = [end EXCEPT ![c][s] = [Refused EXCEPT !.peer = end[c][s].peer,
                                                      !.reason = end[c][s].reason]]
        /\ wire' = [wire EXCEPT ![c][s] = NoWire]
        /\ res' = IF end[c][s].pending /\ res.pc = "waiting"
                  THEN [res EXCEPT !.pc = "failed"] ELSE res
        /\ UNCHANGED <<to, call, tell, log>>

\* _close_connections.
CloserCloses(p, c) ==
    /\ c \in rt[p].closing /\ rt[p].state # "CRASHED"
    /\ rt' = [rt EXCEPT ![p].closing = @ \ {c}]
    /\ UNCHANGED <<end, wire, to, call, tell, res, log, faults>>

---------------------------------------------------------------------------
(* Users of an association: tell and resolve.                              *)

\* _association_for_reference.
IsStale(p, target) ==
    \/ rt[p].known \notin {Null, target}
    \/ /\ rt[p].active # Null
       /\ end[rt[p].active][SideOf(p, rt[p].active)].peer \notin {Null, target}

\* The first choice of an association, and the second after a refusal.  A
\* thread has a reference once an incarnation of the peer was met.
Choose(m) ==
    LET p == From[m]
    IN  /\ tell[m].pc \in {"idle", "retry"} /\ rt[p].state # "CRASHED" /\ rt[p].known # Null
        /\ \A n \in Messages : (n < m /\ From[n] = p) => tell[n].pc \in {"sent", "failed"}
        /\ tell' = [tell EXCEPT ![m] =
             IF rt[p].state # "RUNNING" \/ IsStale(p, To[m]) \/ ~Kept(p)
                \/ (tell[m].pc = "retry" /\ rt[p].active = tell[m].conn)
             THEN [pc |-> "failed", conn |-> Null]
             ELSE [pc |-> IF tell[m].pc = "idle" THEN "send" ELSE "resend",
                   conn |-> rt[p].active]]
        /\ UNCHANGED <<rt, end, wire, to, call, res, log, faults>>

\* send_user_message under the send lock, _send_if_current under the
\* runtime's: the sequence number is used up only by a message admitted.
Admits(m, noticed, full) ==
    LET p == From[m]
        c == tell[m].conn
        e == end[c][SideOf(p, c)]
    IN  IF \/ e.st # "ACTIVE" \/ e.peer # To[m]
           \/ rt[p].state # "RUNNING" \/ rt[p].active # c
        THEN "refused"
        ELSE IF rt[p].known # To[m] THEN "stale"
        ELSE IF noticed \/ ~CanSend(c, SideOf(p, c)) THEN "refused"
        ELSE IF full THEN "full" ELSE "admitted"

\* Mutant: a message that is not admitted uses up its sequence number too.
SendTakesNumber(m) ==
    LET c == tell[m].conn
        s == SideOf(From[m], c)
        frame == [sequence |-> end[c][s].out, recipient |-> To[m], message |-> m]
    IN  /\ tell[m].pc \in {"send", "resend"} /\ rt[From[m]].state # "CRASHED"
        /\ end' = [end EXCEPT ![c][s].out = @ + 1]
        /\ \E full \in {FALSE, Full(c, s)} :
             IF Admits(m, FALSE, full) = "admitted"
             THEN /\ wire' = [wire EXCEPT ![c][Other(s)].lane = Append(@, frame)]
                  /\ log' = [log EXCEPT ![c][s].sent = Append(@, m)]
                  /\ tell' = [tell EXCEPT ![m] = [pc |-> "sent", conn |-> Null]]
             ELSE /\ tell' = [tell EXCEPT ![m] = [pc |-> "failed", conn |-> Null]]
                  /\ UNCHANGED <<wire, log>>
        /\ UNCHANGED <<rt, to, call, res, faults>>

SendUserMessage(m) ==
    LET c == tell[m].conn
        s == SideOf(From[m], c)
        frame == [sequence |-> end[c][s].out, recipient |-> To[m], message |-> m]
    IN  /\ tell[m].pc \in {"send", "resend"} /\ rt[From[m]].state # "CRASHED"
        /\ \E noticed \in {FALSE, end[c][Other(s)].closed}, full \in {FALSE, Full(c, s)} :
             IF Admits(m, noticed, full) = "admitted"
             THEN /\ end' = [end EXCEPT ![c][s].out = @ + 1]
                  /\ wire' = IF end[c][Other(s)].closed THEN wire
                             ELSE [wire EXCEPT ![c][Other(s)].lane = Append(@, frame)]
                  /\ log' = [log EXCEPT ![c][s].sent = Append(@, m)]
                  /\ tell' = [tell EXCEPT ![m] = [pc |-> "sent", conn |-> Null]]
             ELSE /\ tell' = [tell EXCEPT ![m] =
                        IF Admits(m, noticed, full) = "refused" /\ @.pc = "send"
                        THEN [@ EXCEPT !.pc = "retry"]
                        ELSE [pc |-> "failed", conn |-> Null]]
                  /\ UNCHANGED <<end, wire, log>>
        /\ UNCHANGED <<rt, to, call, res, faults>>

\* resolve(): choose the association, register the request, send it.
Resolve ==
    /\ res.pc = "idle" /\ Resolver # Null /\ rt[Resolver].state = "RUNNING" /\ Kept(Resolver)
    /\ res' = [pc |-> "chosen", conn |-> rt[Resolver].active]
    /\ UNCHANGED <<rt, end, wire, to, call, tell, log, faults>>

ResolveRegisters ==
    /\ res.pc = "chosen"
    /\ res' = [res EXCEPT !.pc = "registered"]
    /\ end' = [end EXCEPT ![res.conn][SideOf(Resolver, res.conn)].pending = TRUE]
    /\ UNCHANGED <<rt, wire, to, call, tell, log, faults>>

ResolveSends ==
    LET c == res.conn
        s == SideOf(Resolver, c)
    IN  /\ res.pc = "registered"
        /\ \E full \in {FALSE, Full(c, s)} :
             IF CanSend(c, s) /\ ~full
             THEN /\ res' = [res EXCEPT !.pc = "waiting"]
                  /\ wire' = Put(wire, c, s, <<[type |-> "Resolve"]>>)
                  /\ UNCHANGED end
             ELSE /\ res' = [res EXCEPT !.pc = "failed"]
                  /\ end' = [end EXCEPT ![c][s].pending = FALSE]
                  /\ UNCHANGED wire
        /\ UNCHANGED <<rt, to, call, tell, log, faults>>

\* An answer of an incarnation that is no longer the known one is refused.
ResolveReturns ==
    LET c == res.conn
        s == SideOf(Resolver, c)
        current == rt[Resolver].known = end[c][s].peer
    IN  /\ res.pc = "answered"
        /\ res' = [res EXCEPT !.pc = IF rt[Resolver].state = "RUNNING" /\ current
                                     THEN "ok" ELSE "failed"]
        /\ IF rt[Resolver].state = "RUNNING" /\ ~current /\ RequestCloses(end[c][s])
           THEN /\ end' = [end EXCEPT ![c][s] = Requested(@, "failure")]
                /\ wire' = PutTerminal(wire, c, s, "failure")
           ELSE UNCHANGED <<end, wire>>
        /\ UNCHANGED <<rt, to, call, tell, log, faults>>

\* A request that times out takes its association with it: its number is
\* still live at the peer.
ResolveTimesOut ==
    LET c == res.conn
        s == SideOf(Resolver, c)
    IN  /\ res.pc = "waiting" /\ MayFail("resolve") /\ end[c][s].pending
        /\ faults' = faults + 1
        /\ res' = [res EXCEPT !.pc = "failed"]
        /\ end' = [end EXCEPT ![c][s] = [Requested(@, "failure") EXCEPT !.pending = FALSE]]
        /\ wire' = IF RequestCloses(end[c][s])
                   THEN PutTerminal(wire, c, s, "failure") ELSE wire
        /\ UNCHANGED <<rt, to, call, tell, log>>

---------------------------------------------------------------------------
(* Stopping, failing, crashing.                                            *)

RequestAll(p, reason) ==
    [c \in Conns |-> [s \in Sides |->
        IF <<c, s>> \in Associations(p) THEN Requested(end[c][s], reason) ELSE end[c][s]]]

TerminalAll(p, reason) ==
    [c \in Conns |-> [s \in Sides |->
        IF /\ <<c, Other(s)>> \in Associations(p)
           /\ RequestCloses(end[c][Other(s)])
           /\ ~end[c][s].closed /\ ~end[c][Other(s)].closed /\ wire[c][s].term = Null
        THEN [wire[c][s] EXCEPT !.term = reason] ELSE wire[c][s]]]

BeginStop(p) ==
    /\ rt[p].state \in {"RUNNING", "FAILED"}
    /\ rt[p].state = "RUNNING" => MayFail("stop")
    /\ faults' = IF rt[p].state = "RUNNING" THEN faults + 1 ELSE faults
    /\ rt' = [rt EXCEPT ![p].state = "STOPPING"]
    /\ UNCHANGED <<end, wire, to, call, tell, res, log>>

\* No attempt is being set up any more: every association is asked to close.
StopRequests(p) ==
    /\ rt[p].state = "STOPPING" /\ rt[p].setups = 0 /\ ~rt[p].told
    /\ rt' = [rt EXCEPT ![p].told = TRUE]
    /\ end' = RequestAll(p, "failure")
    /\ wire' = TerminalAll(p, "failure")
    /\ UNCHANGED <<to, call, tell, res, log, faults>>

\* Association.close and the connections left to the closer.
StopCloses(p, c, s) ==
    /\ rt[p].told /\ rt[p].state = "STOPPING"
    /\ <<c, s>> \in Associations(p) /\ ~end[c][s].closed
    /\ end' = [end EXCEPT ![c][s].closed = TRUE]
    /\ wire' = [wire EXCEPT ![c][s] = NoWire]
    /\ UNCHANGED <<rt, to, call, tell, res, log, faults>>

Stopped(p) ==
    /\ rt[p].state = "STOPPING" /\ rt[p].told
    /\ Associations(p) = {} /\ rt[p].setups = 0 /\ rt[p].closing = {}
    /\ rt' = [rt EXCEPT ![p].state = "STOPPED", ![p].active = Null]
    /\ UNCHANGED <<end, wire, to, call, tell, res, log, faults>>

ListenerFailed(p) ==
    /\ rt[p].state = "RUNNING" /\ MayFail("listener")
    /\ faults' = faults + 1
    /\ rt' = [rt EXCEPT ![p].state = "FAILED"]
    /\ end' = RequestAll(p, "failure")
    /\ UNCHANGED <<wire, to, call, tell, res, log>>

\* The crash before a restart is not counted among the faults.
IsRestarted(p) == \E q \in Procs : NameOf[q] = NameOf[p] /\ Generation[q] > Generation[p]

Crash(p) ==
    /\ rt[p].state \notin {"NEW", "STOPPED", "CRASHED"}
    /\ IsRestarted(p) \/ MayFail("crash")
    /\ faults' = IF IsRestarted(p) THEN faults ELSE faults + 1
    /\ rt' = [rt EXCEPT ![p] = [@ EXCEPT !.state = "CRASHED", !.active = Null,
                                         !.closing = {}, !.setups = 0]]
    /\ end' = [c \in Conns |-> [s \in Sides |->
                 IF Owner(c, s) = p THEN Refused ELSE end[c][s]]]
    /\ wire' = [c \in Conns |-> [s \in Sides |->
                 IF Owner(c, s) = p THEN NoWire ELSE wire[c][s]]]
    /\ call' = [c \in Conns |-> IF Initiator[c] = p /\ call[c] # "ok"
                                THEN "failed" ELSE call[c]]
    /\ tell' = [m \in Messages |-> IF From[m] = p /\ tell[m].pc # "sent"
                                  THEN [pc |-> "failed", conn |-> Null] ELSE tell[m]]
    /\ res' = IF Resolver = p THEN [pc |-> "failed", conn |-> Null] ELSE res
    /\ UNCHANGED <<to, log>>

\* The network drops a connection.
Break(c) ==
    /\ MayFail("break")
    /\ \E s \in Sides : end[c][s].st \notin {"none", "CLOSED"} /\ ~end[c][s].closed
    /\ faults' = faults + 1
    /\ end' = [end EXCEPT ![c] = [s \in Sides |-> [@[s] EXCEPT !.closed = TRUE]]]
    /\ wire' = [wire EXCEPT ![c] = [s \in Sides |-> NoWire]]
    /\ UNCHANGED <<rt, to, call, tell, res, log>>

---------------------------------------------------------------------------
AssociationStep(c, s) ==
    \/ ReceiveHello(c, s) \/ ReceiveAccept(c, s) \/ DeferDelivery(c, s)
    \/ ConnectionLost(c, s) \/ Activate(c, s) \/ Become(c, s)
    \/ Deliver(c, s) \/ ReceiveControl(c, s) \/ ReceiveGoAway(c, s) \/ StopSeen(c, s)
    \/ Cleanup(c, s)

CallerStep(c) ==
    \/ Associate(c) \/ ConnectFails(c) \/ AssociateTimesOut(c)
    \/ WaitActive(c) \/ WaitForRetained(c)
    \/ \E q \in Procs : Connected(c, q)
    \/ Incoming(c)

RuntimeStep(p) ==
    \/ Start(p) \/ BeginStop(p) \/ StopRequests(p) \/ Stopped(p)
    \/ ListenerFailed(p) \/ Crash(p)
    \/ \E c \in Conns : CloserCloses(p, c) \/ \E s \in Sides : StopCloses(p, c, s)

Next ==
    \/ \E c \in Conns : CallerStep(c) \/ Break(c)
    \/ \E c \in Conns, s \in Sides : AssociationStep(c, s) \/ HandshakeTimesOut(c, s)
    \/ \E p \in Procs : RuntimeStep(p)
    \/ \E m \in Messages : Choose(m) \/ SendUserMessage(m)
    \/ Resolve \/ ResolveRegisters \/ ResolveSends \/ ResolveReturns \/ ResolveTimesOut

Spec == Init /\ [][Next]_vars

\* Threads run: a connection attempt comes to its end, an association's thread
\* takes what the transport delivers or learns that its connection is closed,
\* a runtime that was told to stop goes on with it.  Faults may never come.
FairSpec ==
    /\ Spec
    /\ \A c \in Conns :
          /\ WF_vars(ConnectFails(c) \/ Incoming(c) \/ \E q \in Procs : Connected(c, q))
          /\ \A s \in Sides : WF_vars(AssociationStep(c, s))
    /\ \A p \in Procs :
          WF_vars(\/ StopRequests(p) \/ Stopped(p)
                  \/ \E c \in Conns : CloserCloses(p, c) \/ \E s \in Sides : StopCloses(p, c, s))
    /\ WF_vars(ResolveRegisters \/ ResolveSends \/ ResolveReturns)

---------------------------------------------------------------------------
\* No handshake, close or hand-over is under way.
Quiet ==
    /\ \A c \in Conns : /\ call[c] \in {"ok", "failed"}
                        /\ to[c] # Null => end[c]["r"].st # "none"
    /\ \A c \in Conns, s \in Sides :
          /\ end[c][s].st \in {"none", "ACTIVE", "CLOSED"}
          /\ end[c][s].st = "ACTIVE" => ~end[c][s].closed /\ ~end[c][Other(s)].closed

\* A connection was made, there was no fault, and no association was closed
\* for want of capacity.
Undisturbed ==
    /\ \E c \in Conns : to[c] # Null
    /\ faults = 0 /\ \A p \in Procs : rt[p].state # "CRASHED"
    /\ \A c \in Conns, s \in Sides : end[c][s].reason # "failure"

\* When both systems connect at once, and once everything has settled, both
\* runtimes route over the same association; undisturbed, they have one.
ConvergesOnOne ==
    \A p, q \in Procs :
        (Quiet /\ NameOf[p] # NameOf[q] /\ rt[p].state = "RUNNING" /\ rt[q].state = "RUNNING")
        => /\ rt[p].active = rt[q].active
           /\ Undisturbed => rt[p].active # Null

\* Per association, what is delivered is a prefix of what tell() admitted,
\* at the incarnation the reference named; a retry on a replacement never
\* delivers twice, and no legal schedule looks like a sequence violation.
DeliveredInOrder ==
    /\ \A c \in Conns, s \in Sides :
          /\ IsPrefix(log[c][s].got, log[c][s].sent)
          /\ \A i \in DOMAIN log[c][s].got : To[log[c][s].got[i]] = Owner(c, Other(s))
          /\ end[c][s].reason # "sequence"
    /\ \A m \in Messages :
          Cardinality({e \in Conns \X Sides :
                         m \in ToSet(log[e[1]][e[2]].sent)}) = (IF tell[m].pc = "sent" THEN 1 ELSE 0)

\* Once a newer incarnation of the peer is known, an association with an
\* older one, however late its handshake ends, never takes its place.
IncarnationsAdvance ==
    [][\A p \in Procs : (rt[p].known # Null /\ rt'[p].known # rt[p].known)
                        => Generation[rt'[p].known] > Generation[rt[p].known]]_vars

\* Every request ends: answered, or failed when its association closes.
RequestSettles == (res.pc = "registered") ~> (res.pc \in {"ok", "failed"})

\* stop() ends, whatever its associations and attempts were doing: their
\* threads end, and nothing is left to close.
StopCompletes ==
    \A p \in Procs : (rt[p].state = "STOPPING") ~> (rt[p].state \in {"STOPPED", "CRASHED"})

============================================================================
