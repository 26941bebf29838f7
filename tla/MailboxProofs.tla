---------------------------- MODULE MailboxProofs ----------------------------
(***************************************************************************)
(* Mailbox.tla for every instance, in four parts: type correctness and the *)
(* scheduling of the mailbox; its capacity; stopping and aborting; and the *)
(* refinement of the inbox the actor's user sees (Inbox.tla).  Each part   *)
(* adds an inductive invariant to the ones before it.  SchedulingInv is    *)
(* the first: it says who is obliged to run the mailbox whenever           *)
(* _scheduled is set, and from it the properties of the README follow.     *)
(***************************************************************************)
EXTENDS Mailbox, SequenceTheorems, TLAPS

\* Removing an entry from a queue leaves a queue.
LEMMA WithoutType ==
    ASSUME NEW S, NEW q \in Seq(S), NEW e, \E i \in DOMAIN q : q[i] = e
    PROVE  Without(q, e) \in Seq(S)
<1> DEFINE k == CHOOSE i \in DOMAIN q : q[i] = e
<1>1. k \in DOMAIN q
  BY Zenon
<1>2. k \in 1..Len(q)
  BY <1>1
<1>3. Without(q, e) = SubSeq(q, 1, k - 1) \o SubSeq(q, k + 1, Len(q))
  BY Zenon DEF Without
<1> HIDE DEF k
<1>4. SubSeq(q, 1, k - 1) \in Seq(S) /\ SubSeq(q, k + 1, Len(q)) \in Seq(S)
  BY <1>2
<1>5. QED BY <1>3, <1>4

\* What _restore_batch puts back are items.
LEMMA WrapType ==
    ASSUME NEW ms \in Seq(Message)
    PROVE  Wrap(ms) \in Seq(Item)
<1>1. \A i \in DOMAIN ms : Raw(ms[i]) \in Item
  BY DEF Raw, Item
<1>2. Wrap(ms) \in [1..Len(ms) -> Item]
  BY <1>1 DEF Wrap
<1>3. QED BY <1>2, LenProperties, SeqDef

\* What a batch extracts from its entries are messages.
LEMMA UnwrapType ==
    ASSUME NEW q \in Seq(Item)
    PROVE  Unwrap(q) \in Seq(Message)
<1>1. \A i \in DOMAIN q : q[i] \in Item
  BY ElementOfSeq, LenProperties, Zenon
<1>2. \A i \in DOMAIN q : q[i].msg \in Message
  BY <1>1, Zenon DEF Item
<1>3. Unwrap(q) \in [1..Len(q) -> Message]
  BY <1>2, LenProperties, Zenon DEF Unwrap
<1>4. QED BY <1>3, LenProperties, SeqDef

\* A batch, and what it leaves behind, are parts of the queue.
LEMMA FirstRestType ==
    ASSUME NEW S, NEW q \in Seq(S)
    PROVE  First(q) \in Seq(S) /\ Rest(q) \in Seq(S) /\ Len(First(q)) \in Nat
<1>1. First(q) \in Seq(S)
  BY MailboxAssumption DEF First
<1>2. Len(First(q)) \in Nat
  BY <1>1
<1>3. QED BY <1>1, <1>2 DEF Rest

\* PreStart and the self-sent Stop are messages, and messages make items.
LEMMA MessageType ==
    /\ PreStart \in Message /\ OwnStop \in Message
    /\ \A m \in Message : Raw(m) \in Item /\ Entry(m) \in Item
    /\ \A m \in Message : IsUser(m) => m \in UserMessage
BY MailboxAssumption DEF PreStart, OwnStop, Message, Kinds, UserKinds, SystemKinds,
    Item, Raw, Entry, IsUser, UserMessage

\* What stop_user_messages hands to the dead letters are messages.
LEMMA MessagesOfType ==
    ASSUME NEW q \in Seq(Item)
    PROVE  MessagesOf(q) \subseteq Message
<1>1. \A i \in DOMAIN q : q[i] \in Item
  BY ElementOfSeq, LenProperties, Zenon
<1>2. QED BY <1>1, Zenon DEF MessagesOf, Item

\* deque.append keeps a queue a queue.
LEMMA AppendType ==
    ASSUME NEW q \in Seq(Item), NEW item \in Item
    PROVE  Append(q, item) \in Seq(Item)
OBVIOUS

\* deque.clear leaves a queue.
LEMMA EmptyType == <<>> \in Seq(Item) /\ <<>> \in Seq(Message)
OBVIOUS

\* The constructor establishes the types.
LEMMA TypeInit == Init => TypeOK
<1> SUFFICES ASSUME Init PROVE TypeOK
  BY Zenon
<1>1. sent \in [Threads -> 0..MaxSends]
  BY MailboxAssumption DEF Init
<1>2. current \in [Threads -> Message]
  BY MessageType, Zenon DEF Init, NoMessage
<1>3. tpc \in [Threads -> ThreadPc] /\ wpc \in [Workers -> WorkerPc]
  BY Zenon DEF Init, ThreadPc, WorkerPc
<1>4. batch \in [Workers -> Seq(Message)]
  BY EmptyType, Zenon DEF Init
<1>5. actor \in ActorState
  BY Zenon DEF Init, ActorState
<1>6. QED
  BY <1>1, <1>2, <1>3, <1>4, <1>5, EmptyType, Zenon DEF Init, TypeOK

\* Every step of a sending thread keeps the types.
LEMMA TypeThread ==
    ASSUME TypeOK, NEW t \in Threads, Tell(t) \/ ThreadStep(t)
    PROVE  TypeOK'
<1> USE DEF TypeOK, mailboxVars, cellVars, dispatcherVars, actorVars, threadVars,
            workerVars, historyVars
<1>1. CASE Tell(t)
  <2>1. PICK k \in Traffic[t] :
           LET m == [from |-> t, n |-> sent[t] + 1, kind |-> k]
               refused == cellClosed \/ (IsUser(m) /\ ~cellAccepting)
           IN  /\ current' = [current EXCEPT ![t] = m]
               /\ tpc' = [tpc EXCEPT ![t] = IF refused THEN "idle" ELSE "enqueue"]
               /\ deadLetters' = IF refused /\ IsUser(m) THEN deadLetters \cup {m}
                                                        ELSE deadLetters
    BY <1>1, Zenon DEF Tell
  <2>2. sent[t] + 1 \in 1..MaxSends
    BY <1>1, MailboxAssumption DEF Tell
  <2>3. [from |-> t, n |-> sent[t] + 1, kind |-> k] \in Message
    BY <2>2, MailboxAssumption, Zenon DEF Message
  <2>4. sent' \in [Threads -> 0..MaxSends]
    BY <1>1, <2>2 DEF Tell
  <2>5. tpc' \in [Threads -> ThreadPc] /\ current' \in [Threads -> Message]
         /\ deadLetters' \in SUBSET Message
    BY <2>1, <2>3, Zenon DEF ThreadPc
  <2>6. QED BY <1>1, <2>4, <2>5 DEF Tell
<1>2. CASE EnqueueStopping(t)
  BY <1>2, MessageType DEF EnqueueStopping, Report, ThreadPc
<1>3. CASE EnqueueFull(t)
  BY <1>3, MessageType DEF EnqueueFull, Report, ThreadPc
<1>4. CASE EnqueueQueued(t)
  <2>1. messages' \in Seq(Item) /\ system' \in Seq(Item)
    BY <1>4, MessageType, AppendType, Zenon DEF EnqueueQueued, Put
  <2>2. QED BY <1>4, <2>1, MessageType DEF EnqueueQueued, Report, ThreadPc
<1>5. CASE EnqueueScheduled(t)
  <2>1. messages' \in Seq(Item) /\ system' \in Seq(Item)
    BY <1>5, MessageType, AppendType, Zenon DEF EnqueueScheduled, Put
  <2>2. QED BY <1>5, <2>1, ZenonT(60) DEF EnqueueScheduled, ThreadPc
<1>6. CASE Dispatch(t)
  BY <1>6, MessageType DEF Dispatch, Report, ThreadPc
<1>7. CASE DispatchRefused(t)
  BY <1>7 DEF DispatchRefused, ThreadPc
<1>8. CASE Rollback(t)
  <2>1. messages' \in Seq(Item)
    BY <1>8, WithoutType, Zenon DEF Rollback
  <2>2. scheduled' \in BOOLEAN
    BY <1>8, Zenon DEF Rollback
  <2>3. tpc' \in [Threads -> ThreadPc]
    <3>1. \E pc \in ThreadPc : tpc' = [tpc EXCEPT ![t] = pc]
      BY <1>8, Zenon DEF Rollback, AfterRaise, ThreadPc
    <3>2. QED BY <3>1, Zenon
  <2>4. told' \in [UserMessage -> {"nothing", "accepted", "refused", "returned"}]
        /\ deadLetters' \in SUBSET Message
    <3>1. Refuse(t) \/ UNCHANGED <<told, deadLetters>>
      BY <1>8, Zenon DEF Rollback
    <3>2. QED BY <3>1, MessageType, Zenon DEF Refuse, Report
  <2>5. QED BY <1>8, <2>1, <2>2, <2>3, <2>4, ZenonT(60) DEF Rollback
<1>9. CASE Fallback(t)
  BY <1>9, MessageType DEF Fallback, Refuse, Report, ThreadPc
<1>10. CASE FallbackFails(t)
  BY <1>10, MessageType, ZenonT(60) DEF FallbackFails, Refuse, Report, AfterRaise, ThreadPc
<1>11. CASE AbortStart(t)
  BY <1>11, ZenonT(40) DEF AbortStart, CellStopUserMessages, ThreadPc, ActorState
<1>12. CASE AbortStop(t)
  BY <1>12, MessagesOfType, EmptyType, ZenonT(40) DEF AbortStop, StopUserMessages, ThreadPc
<1>13. CASE AbortCell(t)
  BY <1>13, ZenonT(40) DEF AbortCell, CellClose, ThreadPc
<1>14. CASE AbortClose(t)
  BY <1>14, EmptyType, ZenonT(40) DEF AbortClose, Close, ThreadPc
<1>15. QED
  BY <1>1, <1>2, <1>3, <1>4, <1>5, <1>6, <1>7, <1>8, <1>9, <1>10, <1>11, <1>12,
     <1>13, <1>14, ZenonT(60) DEF ThreadStep

\* LocalActorContext._fail keeps the types.
LEMMA TypeFailure ==
    ASSUME TypeOK, NEW w \in Workers, Fails(w)
    PROVE  actor' \in ActorState /\ suspended' \in BOOLEAN /\ restarting' \in BOOLEAN
           /\ wpc' \in [Workers -> WorkerPc]
BY ZenonT(40) DEF TypeOK, Fails, AfterFailure, Goto, WorkerPc, RunPc, ActorState

\* LocalActorContext._invoke_system keeps the types, whatever the message.
LEMMA TypeSystemEffect ==
    ASSUME TypeOK, NEW w \in Workers, NEW kind, SystemEffect(w, kind)
    PROVE  actor' \in ActorState /\ suspended' \in BOOLEAN /\ restarting' \in BOOLEAN
           /\ wpc' \in [Workers -> WorkerPc]
<1>1. CASE Fails(w)
  BY <1>1, TypeFailure, Zenon
<1>2. CASE Starts \/ CompleteRestart(w)
  <2>1. ASSUME Starts
        PROVE  actor' \in ActorState /\ suspended' \in BOOLEAN /\ restarting' \in BOOLEAN
    BY <2>1, Zenon DEF Starts, ActorState
  <2>2. ASSUME ~Starts
        PROVE  actor' \in ActorState /\ suspended' \in BOOLEAN /\ restarting' \in BOOLEAN
    BY <1>2, <2>2, Zenon DEF CompleteRestart, ActorState
  <2>3. wpc' = wpc \/ \E pc \in WorkerPc : wpc' = [wpc EXCEPT ![w] = pc]
    BY Zenon DEF SystemEffect, CompleteRestart, Goto, Fails, AfterFailure, WorkerPc, RunPc
  <2>4. QED BY <2>1, <2>2, <2>3, Zenon DEF TypeOK
<1>3. CASE ~Fails(w) /\ ~Starts /\ ~CompleteRestart(w)
  BY <1>3, Zenon DEF SystemEffect, TypeOK, Goto, WorkerPc, RunPc, ActorState, actorVars
<1>4. QED BY <1>1, <1>2, <1>3, Zenon

\* Every step of a dispatcher worker keeps the types.
LEMMA TypeWorker ==
    ASSUME TypeOK, NEW w \in Workers, WorkerStep(w)
    PROVE  TypeOK'
<1> USE DEF TypeOK, mailboxVars, cellVars, dispatcherVars, actorVars, threadVars,
            workerVars, historyVars, Goto, WorkerPc, RunPc
<1>1. CASE TakeActivation(w)
  BY <1>1 DEF TakeActivation
<1>2. CASE Enter(w)
  BY <1>2, ZenonT(40) DEF Enter, AlreadyRunning
<1>3. CASE TakeBatch(w)
  <2>1. \A q \in Seq(Item) : /\ Unwrap(First(q)) \in Seq(Message)
                             /\ Rest(q) \in Seq(Item)
                             /\ Len(First(q)) \in Nat
    BY FirstRestType, UnwrapType, Zenon
  <2>2. CASE LifecycleFirst
    <3>1. batch' = [batch EXCEPT ![w] = Unwrap(First(system))]
      BY <1>3, <2>2, Zenon DEF TakeBatch
    <3>2. batch' \in [Workers -> Seq(Message)]
      BY <2>1, <3>1, Zenon
    <3>3. system' \in Seq(Item) /\ UNCHANGED <<messages, inFlight>>
      BY <1>3, <2>1, <2>2, Zenon DEF TakeBatch
    <3>4. systemBatch' \in [Workers -> BOOLEAN]
      BY <1>3, <2>2, Zenon DEF TakeBatch
    <3>5. QED BY <1>3, <3>2, <3>3, <3>4 DEF TakeBatch
  <2>3. CASE ~LifecycleFirst
    <3>1. batch' = [batch EXCEPT ![w] = Unwrap(First(messages))]
      BY <1>3, <2>3, Zenon DEF TakeBatch
    <3>2. batch' \in [Workers -> Seq(Message)]
      BY <2>1, <3>1, Zenon
    <3>3. messages' \in Seq(Item) /\ UNCHANGED system
      BY <1>3, <2>1, <2>3, Zenon DEF TakeBatch
    <3>4. systemBatch' \in [Workers -> BOOLEAN]
      BY <1>3, <2>3, Zenon DEF TakeBatch
    <3>5. inFlight' = inFlight + Len(First(messages))
      BY <1>3, <2>3, Zenon DEF TakeBatch
    <3>6. inFlight' \in Nat
      BY <2>1, <3>5
    <3>7. QED BY <1>3, <3>2, <3>3, <3>4, <3>6 DEF TakeBatch
  <2>4. QED BY <2>2, <2>3, Zenon
<1>4. CASE GiveUp(w)
  BY <1>4, ZenonT(40) DEF GiveUp
<1>5. CASE InvokeUser(w)
  <2>1. Head(batch[w]) \in Message /\ Tail(batch[w]) \in Seq(Message)
    BY <1>5, HeadTailProperties, Zenon DEF InvokeUser
  <2>2. batch' \in [Workers -> Seq(Message)] /\ invoked' \in SUBSET Message
    BY <1>5, <2>1, Zenon DEF InvokeUser
  <2>4. actor' \in ActorState /\ suspended' \in BOOLEAN /\ restarting' \in BOOLEAN
    BY <1>5, Zenon DEF InvokeUser, ActorState
  <2>5. wpc' = wpc \/ \E pc \in WorkerPc : wpc' = [wpc EXCEPT ![w] = pc]
    BY <1>5, Zenon DEF InvokeUser, AfterFailure
  <2>6. wpc' \in [Workers -> WorkerPc]
    BY <2>5, Zenon
  <2>7. QED BY <1>5, <2>2, <2>4, <2>6, ZenonT(60) DEF InvokeUser
<1>6. CASE InvokeSystem(w)
  <2>1. batch' \in [Workers -> Seq(Message)]
    BY <1>6, HeadTailProperties, Zenon DEF InvokeSystem
  <2>2. actor' \in ActorState /\ suspended' \in BOOLEAN /\ restarting' \in BOOLEAN
        /\ wpc' \in [Workers -> WorkerPc]
    <3>1. CASE actor = "STOPPED"
      BY <1>6, <3>1, Zenon DEF InvokeSystem
    <3>2. CASE actor # "STOPPED"
      BY <1>6, <3>2, TypeSystemEffect, Zenon DEF InvokeSystem
    <3>3. QED BY <3>1, <3>2, Zenon
  <2>3. QED BY <1>6, <2>1, <2>2, ZenonT(60) DEF InvokeSystem
<1>7. CASE SelfStop(w)
  BY <1>7, MessageType, AppendType DEF SelfStop
<1>8. CASE BatchReturns(w)
  <2>1. \A i \in DOMAIN batch[w] : batch[w][i] \in Message
    BY ElementOfSeq, LenProperties, ZenonT(60)
  <2>2. batch' \in [Workers -> Seq(Message)] /\ discarded' \in SUBSET Message
    <3>1. CASE actor \in {"STARTING", "RUNNING", "FAILED"}
      BY <1>8, <3>1, Zenon DEF BatchReturns
    <3>2. CASE actor \notin {"STARTING", "RUNNING", "FAILED"}
      <4>1. /\ batch' = [batch EXCEPT ![w] = <<>>]
            /\ discarded' = discarded \cup {batch[w][i] : i \in DOMAIN batch[w]}
        BY <1>8, <3>2, Zenon DEF BatchReturns
      <4>2. discarded' \in SUBSET Message
        BY <2>1, <4>1, Zenon
      <4>3. QED BY <4>1, <4>2, EmptyType, Zenon
    <3>3. QED BY <3>1, <3>2, Zenon
  <2>3. QED BY <1>8, <2>2, ZenonT(40) DEF BatchReturns
<1>9. CASE StopCell(w)
  BY <1>9, ZenonT(40) DEF StopCell, CellStopUserMessages
<1>10. CASE StopMailbox(w)
  BY <1>10, MessagesOfType, EmptyType, ZenonT(40) DEF StopMailbox, StopUserMessages
<1>11. CASE CompleteStop(w)
  <2>1. actor' \in ActorState
    BY <1>11, Zenon DEF CompleteStop, ActorState
  <2>2. wpc' \in [Workers -> WorkerPc]
    BY <1>11, Zenon DEF CompleteStop
  <2>3. QED BY <1>11, <2>1, <2>2 DEF CompleteStop
<1>12. CASE CloseCell(w)
  BY <1>12, ZenonT(40) DEF CloseCell, CellClose
<1>13. CASE CloseMailbox(w)
  BY <1>13, EmptyType, ZenonT(40) DEF CloseMailbox, Close
<1>14. CASE Restore(w)
  <2>1. Wrap(batch[w]) \in Seq(Item)
    BY WrapType, Zenon
  <2>2. messages' \in Seq(Item) /\ system' \in Seq(Item)
    BY <1>14, <2>1, ConcatProperties, Zenon DEF Restore, PutBack
  <2>3. batch' \in [Workers -> Seq(Message)]
    BY <1>14, EmptyType, Zenon DEF Restore
  <2>4. QED BY <1>14, <2>2, <2>3 DEF Restore
<1>15. CASE Recheck(w)
  BY <1>15 DEF Recheck
<1>16. CASE Redispatch(w)
  BY <1>16 DEF Redispatch
<1>17. CASE RedispatchRefused(w)
  BY <1>17 DEF RedispatchRefused
<1>18. CASE RecoverLocked(w)
  BY <1>18, ZenonT(60) DEF RecoverLocked
<1>19. CASE RecoverSystem(w)
  BY <1>19 DEF RecoverSystem
<1>20. CASE Handoff(w)
  BY <1>20, ZenonT(40) DEF Handoff
<1>21. CASE Finish(w)
  BY <1>21, ZenonT(40) DEF Finish
<1>22. QED
  BY <1>1, <1>2, <1>3, <1>4, <1>5, <1>6, <1>7, <1>8, <1>9, <1>10, <1>11, <1>12,
     <1>13, <1>14, <1>15, <1>16, <1>17, <1>18, <1>19, <1>20, <1>21, ZenonT(60) DEF WorkerStep

\* TypeOK is inductive.
LEMMA TypeNext == TypeOK /\ [Next]_vars => TypeOK'
<1> SUFFICES ASSUME TypeOK, [Next]_vars PROVE TypeOK'
  BY Zenon
<1>1. CASE \E t \in Threads : Tell(t) \/ ThreadStep(t)
  BY <1>1, TypeThread, Zenon
<1>2. CASE \E w \in Workers : WorkerStep(w)
  BY <1>2, TypeWorker, Zenon
<1> USE DEF TypeOK, mailboxVars, cellVars, dispatcherVars, actorVars, threadVars,
            workerVars, historyVars
<1>3. CASE StopDispatcher
  BY <1>3, ZenonT(40) DEF StopDispatcher
<1>4. CASE AbandonActivation
  BY <1>4 DEF AbandonActivation
<1>5. CASE UNCHANGED vars
  BY <1>5 DEF vars
<1>6. QED
  BY <1>1, <1>2, <1>3, <1>4, <1>5, Zenon DEF Next

\* The fields of mailbox, cell and threads keep their types, for any number of
\* threads, workers and messages, any capacity and any throughput.
THEOREM TypeCorrect == Spec => []TypeOK
BY TypeInit, TypeNext, PTL DEF Spec

\* deque.append leaves the entries that are queued where they are.
LEMMA AppendKeeps ==
    ASSUME NEW q \in Seq(Item), NEW item \in Item
    PROVE  \A i \in DOMAIN q : i \in DOMAIN Append(q, item) /\ Append(q, item)[i] = q[i]
OBVIOUS

\* deque.append adds the item.
LEMMA AppendFinds ==
    ASSUME NEW q \in Seq(Item), NEW item \in Item
    PROVE  \E i \in DOMAIN Append(q, item) : Append(q, item)[i] = item
<1>1. Len(q) + 1 \in DOMAIN Append(q, item) /\ Append(q, item)[Len(q) + 1] = item
  OBVIOUS
<1>2. QED BY <1>1, Zenon

\* Queueing a message loses no entry that a publishing thread may look for.
LEMMA PutKeeps ==
    ASSUME TypeOK, NEW m, NEW item \in Item, Put(m, item), UNCHANGED current
    PROVE  \A u \in Threads : EntryQueued(u) => EntryQueued(u)'
<1>1. messages \in Seq(Item) /\ system \in Seq(Item)
  BY Zenon DEF TypeOK
<1>2. CASE IsUser(m)
  <2>1. messages' = Append(messages, item) /\ system' = system
    BY <1>2, Zenon DEF Put
  <2>2. QED BY <1>1, <2>1, AppendKeeps, Zenon DEF EntryQueued
<1>3. CASE ~IsUser(m)
  <2>1. system' = Append(system, item) /\ messages' = messages
    BY <1>3, Zenon DEF Put
  <2>2. QED BY <1>1, <2>1, AppendKeeps, Zenon DEF EntryQueued
<1>4. QED BY <1>2, <1>3, Zenon

\* The conjuncts of SchedulingInv, gathered.
LEMMA Assembled ==
    ASSUME AtMostOneActivation', OneInvocationAtATime',
           /\ \A w \in Workers : WorkerRuns(w)' => running'
           /\ up' /\ running' => \E w \in Workers : WorkerRuns(w)'
           /\ inline' => running',
           /\ activations' > 0 \/ inline' => scheduled'
           /\ \A t \in Threads : ThreadOwns(t)' => scheduled'
           /\ \A w \in Workers : WorkerOwns(w)' => scheduled',
           up' /\ scheduled' => Owned',
           up' /\ ~closed' /\ Runnable' => scheduled',
           \A t \in Threads : up' /\ tpc'[t] \in {"dispatch", "rollback"} => EntryQueued(t)',
           \A t \in Threads : tpc'[t] \in AbortPc => ~up',
           \A w \in Workers : wpc'[w] \in FailedPc => actor' # "RUNNING"
    PROVE  SchedulingInv'
BY Zenon DEF SchedulingInv

\* A published activation is somebody's obligation, and a positive number of them.
LEMMA Published ==
    ASSUME activations' = 1
    PROVE  activations' > 0 /\ Owned'
BY DEF Owned

\* A sending thread that takes no part in scheduling, before and after its step,
\* preserves SchedulingInv.
LEMMA QuietThread ==
    ASSUME SchedulingInv, NEW t \in Threads,
           ~ThreadOwns(t), tpc'[t] \in {"idle", "enqueue"},
           \A u \in Threads : u # t => tpc'[u] = tpc[u],
           \A u \in Threads : u # t /\ EntryQueued(u) => EntryQueued(u)',
           up /\ ~closed /\ Runnable' => scheduled,
           UNCHANGED <<scheduled, running, inline, closed, up, activations, actor, wpc>>
    PROVE  SchedulingInv'
<1>1. \A u \in Threads : ThreadOwns(u)' <=> ThreadOwns(u)
  BY Zenon DEF ThreadOwns
<1>2. \A w \in Workers : /\ WorkerOwns(w)' <=> WorkerOwns(w)
                         /\ WorkerRuns(w)' <=> WorkerRuns(w)
  BY Zenon DEF WorkerOwns, WorkerRuns
<1>3. Owned' <=> Owned
  BY <1>1, <1>2, Zenon DEF Owned
<1>4. AtMostOneActivation' /\ OneInvocationAtATime'
  BY <1>1, <1>2, Zenon DEF SchedulingInv, AtMostOneActivation, OneInvocationAtATime
<1>5. \A u \in Threads : /\ up' /\ tpc'[u] \in {"dispatch", "rollback"} => EntryQueued(u)'
                         /\ tpc'[u] \in AbortPc => ~up'
  BY Zenon DEF SchedulingInv, AbortPc
<1>6. QED
  BY <1>1, <1>2, <1>3, <1>4, <1>5, Zenon DEF SchedulingInv

\* So does one whose message is turned away: the mailbox is as it was.
LEMMA TurnedAway ==
    ASSUME TypeOK, SchedulingInv, NEW t \in Threads, tpc[t] = "enqueue",
           tpc' = [tpc EXCEPT ![t] = "idle"],
           UNCHANGED <<mailboxVars, dispatcherVars, actorVars, wpc, current>>
    PROVE  SchedulingInv'
<1>1. /\ ~ThreadOwns(t) /\ tpc'[t] \in {"idle", "enqueue"}
      /\ \A u \in Threads : u # t => tpc'[u] = tpc[u]
  BY Zenon DEF TypeOK, ThreadOwns
<1>2. \A u \in Threads : EntryQueued(u) => EntryQueued(u)'
  BY Zenon DEF EntryQueued, mailboxVars
<1>3. up /\ ~closed /\ Runnable' => scheduled
  BY Zenon DEF SchedulingInv, Runnable, CanProcess, mailboxVars, actorVars
<1>4. QED
  BY <1>1, <1>2, <1>3, QuietThread, Zenon DEF mailboxVars, dispatcherVars, actorVars

\* A step of the worker that owns the mailbox, and goes on owning it, preserves
\* SchedulingInv whatever it does to the queues, the actor and its batch.
LEMMA OwnerStep ==
    ASSUME TypeOK, SchedulingInv, NEW w \in Workers, wpc[w] \in RunPc,
           wpc'[w] \in RunPc, \A v \in Workers : v # w => wpc'[v] = wpc[v],
           wpc'[w] \in FailedPc => actor' # "RUNNING",
           UNCHANGED <<scheduled, running, inline, up, activations, tpc>>
    PROVE  SchedulingInv'
<1>1. WorkerOwns(w) /\ WorkerOwns(w)' /\ WorkerRuns(w) /\ WorkerRuns(w)'
  BY Zenon DEF WorkerOwns, WorkerRuns
<1>2. \A v \in Workers : /\ WorkerOwns(v)' <=> WorkerOwns(v)
                         /\ WorkerRuns(v)' <=> WorkerRuns(v)
  BY <1>1, Zenon DEF WorkerOwns, WorkerRuns
<1>3. \A t \in Threads : ~ThreadOwns(t) /\ ~ThreadOwns(t)'
  BY <1>1, Zenon DEF SchedulingInv, AtMostOneActivation, ThreadOwns
<1>4. AtMostOneActivation' /\ OneInvocationAtATime'
  BY <1>2, <1>3, Zenon DEF SchedulingInv, AtMostOneActivation, OneInvocationAtATime
<1>5. Owned' /\ scheduled' /\ running'
  BY <1>1, Zenon DEF SchedulingInv, Owned
<1>6. \A t \in Threads : /\ tpc'[t] \notin {"dispatch", "rollback"}
                         /\ tpc'[t] \in AbortPc => ~up'
  BY <1>3, Zenon DEF SchedulingInv, ThreadOwns
<1>7. \A v \in Workers : wpc'[v] \in FailedPc => v = w
  <2>1. \A v \in Workers : wpc'[v] \in FailedPc => WorkerRuns(v)'
    BY Zenon DEF FailedPc, WorkerRuns, RunPc
  <2>2. QED BY <1>1, <1>4, <2>1, Zenon DEF OneInvocationAtATime
<1>8. \A v \in Workers : wpc'[v] \in FailedPc => actor' # "RUNNING"
  BY <1>7, Zenon
<1>9. QED
  BY <1>1, <1>2, <1>3, <1>4, <1>5, <1>6, <1>8, Zenon DEF SchedulingInv

\* A sender that is obliged to publish the activation is the only one obliged.
LEMMA SenderAlone ==
    ASSUME SchedulingInv, NEW t \in Threads, ThreadOwns(t)
    PROVE  /\ activations = 0 /\ ~inline /\ scheduled
           /\ \A u \in Threads : ThreadOwns(u) => u = t
           /\ \A w \in Workers : ~WorkerOwns(w)
BY Zenon DEF SchedulingInv, AtMostOneActivation

\* A step of one sender leaves the obligations of the others and of the workers.
LEMMA SenderFrame ==
    ASSUME SchedulingInv, NEW t \in Threads,
           \A u \in Threads : u # t => tpc'[u] = tpc[u],
           actor' = actor \/ actor' # "RUNNING", UNCHANGED <<up, wpc>>,
           tpc'[t] \in AbortPc => ~up
    PROVE  /\ \A u \in Threads : u # t => (ThreadOwns(u)' <=> ThreadOwns(u))
           /\ \A w \in Workers : WorkerOwns(w)' <=> WorkerOwns(w)
           /\ \A w \in Workers : WorkerRuns(w)' <=> WorkerRuns(w)
           /\ \A u \in Threads : tpc'[u] \in AbortPc => ~up'
           /\ \A w \in Workers : wpc'[w] \in FailedPc => actor' # "RUNNING"
<1>1. \A u \in Threads : u # t => (ThreadOwns(u)' <=> ThreadOwns(u))
  BY Zenon DEF ThreadOwns
<1>2. /\ \A w \in Workers : WorkerOwns(w)' <=> WorkerOwns(w)
      /\ \A w \in Workers : WorkerRuns(w)' <=> WorkerRuns(w)
  BY Zenon DEF WorkerOwns, WorkerRuns
<1>3. \A u \in Threads : tpc'[u] \in AbortPc => ~up'
  BY Zenon DEF SchedulingInv
<1>4. \A w \in Workers : wpc'[w] \in FailedPc => actor' # "RUNNING"
  BY Zenon DEF SchedulingInv
<1>5. QED BY <1>1, <1>2, <1>3, <1>4, Zenon

\* The obliged sender keeps the obligation, and keeps the scheduling with it.
LEMMA SenderHolds ==
    ASSUME SchedulingInv, NEW t \in Threads, ThreadOwns(t), ThreadOwns(t)', scheduled',
           \A u \in Threads : u # t => tpc'[u] = tpc[u],
           up /\ tpc'[t] \in {"dispatch", "rollback"} => EntryQueued(t)',
           UNCHANGED <<running, inline, activations, up, wpc, actor>>
    PROVE  SchedulingInv'
<1>1. tpc'[t] \notin AbortPc
  BY Zenon DEF ThreadOwns, AbortPc
<1>2. /\ \A u \in Threads : u # t => (ThreadOwns(u)' <=> ThreadOwns(u))
      /\ \A w \in Workers : WorkerOwns(w)' <=> WorkerOwns(w)
      /\ \A w \in Workers : WorkerRuns(w)' <=> WorkerRuns(w)
      /\ \A u \in Threads : tpc'[u] \in AbortPc => ~up'
      /\ \A w \in Workers : wpc'[w] \in FailedPc => actor' # "RUNNING"
  BY <1>1, SenderFrame, Zenon
<1>3. /\ activations' = 0 /\ ~inline'
      /\ \A u \in Threads : ThreadOwns(u)' => u = t
      /\ \A w \in Workers : ~WorkerOwns(w)'
  BY <1>2, SenderAlone, Zenon
<1>4. AtMostOneActivation' /\ Owned'
  BY <1>3, SMTT(30) DEF AtMostOneActivation, Owned
<1>5. OneInvocationAtATime'
  BY <1>2, Zenon DEF SchedulingInv, OneInvocationAtATime
<1>6. \A u \in Threads : up' /\ tpc'[u] \in {"dispatch", "rollback"} => EntryQueued(u)'
  BY <1>3, Zenon DEF ThreadOwns
<1>7. /\ \A w \in Workers : WorkerRuns(w)' => running'
      /\ up' /\ running' => \E w \in Workers : WorkerRuns(w)'
  BY <1>2, Zenon DEF SchedulingInv
<1>8. QED
  BY <1>2, <1>3, <1>4, <1>5, <1>6, <1>7, Assembled, Zenon

\* The obliged sender passes the obligation to the dispatcher, or lets it go with
\* the scheduling once nothing can run or the dispatcher has stopped.
LEMMA SenderReleases ==
    ASSUME SchedulingInv, NEW t \in Threads, ThreadOwns(t), ~ThreadOwns(t)',
           \A u \in Threads : u # t => tpc'[u] = tpc[u],
           tpc'[t] \in AbortPc => ~up,
           UNCHANGED <<running, inline, up, wpc, actor>>,
           \/ activations' = activations + 1 /\ UNCHANGED scheduled
           \/ activations' = activations /\ ~up
           \/ activations' = activations /\ ~scheduled' /\ (closed' \/ ~Runnable')
    PROVE  SchedulingInv'
<1>1. /\ \A u \in Threads : u # t => (ThreadOwns(u)' <=> ThreadOwns(u))
      /\ \A w \in Workers : WorkerOwns(w)' <=> WorkerOwns(w)
      /\ \A w \in Workers : WorkerRuns(w)' <=> WorkerRuns(w)
      /\ \A u \in Threads : tpc'[u] \in AbortPc => ~up'
      /\ \A w \in Workers : wpc'[w] \in FailedPc => actor' # "RUNNING"
  BY SenderFrame, Zenon
<1>2. /\ activations' \in {0, 1} /\ ~inline'
      /\ activations' = 1 => scheduled'
      /\ \/ activations' = 1 \/ ~up'
         \/ ~scheduled' /\ (closed' \/ ~Runnable')
      /\ \A u \in Threads : ~ThreadOwns(u)'
      /\ \A w \in Workers : ~WorkerOwns(w)'
  BY <1>1, SenderAlone, SMTT(30)
<1>3. AtMostOneActivation'
  BY <1>2, SMTT(30) DEF AtMostOneActivation
<1>4. activations' = 1 => Owned'
  BY Published, Zenon
<1>5. OneInvocationAtATime'
  BY <1>1, Zenon DEF SchedulingInv, OneInvocationAtATime
<1>6. \A u \in Threads : tpc'[u] \notin {"dispatch", "rollback"}
  BY <1>2, Zenon DEF ThreadOwns
<1>7. /\ \A w \in Workers : WorkerRuns(w)' => running'
      /\ up' /\ running' => \E w \in Workers : WorkerRuns(w)'
  BY <1>1, Zenon DEF SchedulingInv
<1>8. activations' > 0 => scheduled'
  BY <1>2, SMT
<1>9. QED
  BY <1>1, <1>2, <1>3, <1>4, <1>5, <1>6, <1>7, <1>8, Assembled, Zenon

\* Once the dispatcher has stopped, a sender without the obligation may change
\* the queues and the state of the actor: there is nobody left to wake.
LEMMA SenderAborts ==
    ASSUME SchedulingInv, NEW t \in Threads, ~up, ~ThreadOwns(t), ~ThreadOwns(t)',
           \A u \in Threads : u # t => tpc'[u] = tpc[u],
           actor' = actor \/ actor' # "RUNNING",
           UNCHANGED <<scheduled, running, inline, activations, up, wpc>>
    PROVE  SchedulingInv'
<1>1. /\ \A u \in Threads : u # t => (ThreadOwns(u)' <=> ThreadOwns(u))
      /\ \A w \in Workers : WorkerOwns(w)' <=> WorkerOwns(w)
      /\ \A w \in Workers : WorkerRuns(w)' <=> WorkerRuns(w)
      /\ \A u \in Threads : tpc'[u] \in AbortPc => ~up'
      /\ \A w \in Workers : wpc'[w] \in FailedPc => actor' # "RUNNING"
  BY SenderFrame, Zenon
<1>2. \A u \in Threads : ThreadOwns(u)' <=> ThreadOwns(u)
  BY <1>1, Zenon
<1>3. AtMostOneActivation' /\ OneInvocationAtATime'
  BY <1>1, <1>2, Zenon DEF SchedulingInv, AtMostOneActivation, OneInvocationAtATime
<1>4. QED
  BY <1>1, <1>2, <1>3, Zenon DEF SchedulingInv

\* No step of a sender breaks the scheduling: whoever sets _scheduled publishes
\* the activation, or takes it back or re-publishes it when that is refused.
LEMMA SchedulingThread ==
    ASSUME TypeOK, SchedulingInv, NEW t \in Threads, Tell(t) \/ ThreadStep(t)
    PROVE  SchedulingInv'
<1> USE DEF TypeOK, SchedulingInv, AtMostOneActivation, OneInvocationAtATime, ThreadOwns,
            WorkerOwns, WorkerRuns, Owned, Runnable, CanProcess, EntryQueued, AbortPc,
            FailedPc, RunPc, Goto, mailboxVars, cellVars, dispatcherVars, actorVars,
            threadVars, workerVars, historyVars
<1>0. CASE Tell(t)
  <2>1. tpc'[t] \in {"idle", "enqueue"}
    BY <1>0, Zenon DEF Tell
  <2>2. \A u \in Threads : u # t => tpc'[u] = tpc[u] /\ current'[u] = current[u]
    BY <1>0, ZenonT(40) DEF Tell
  <2>3. UNCHANGED <<mailboxVars, dispatcherVars, actorVars, wpc>>
    BY <1>0, Zenon DEF Tell
  <2>4. ~ThreadOwns(t)
    BY <1>0, Zenon DEF Tell
  <2>5. ASSUME NEW u \in Threads, u # t, EntryQueued(u)
        PROVE  EntryQueued(u)'
    <3>1. current'[u] = current[u] /\ messages' = messages /\ system' = system
      BY <2>2, <2>3, <2>5, Zenon
    <3>2. QED BY <2>5, <3>1, ZenonT(40)
  <2>6. up /\ ~closed /\ Runnable' => scheduled
    BY <2>3, Zenon
  <2> HIDE DEF EntryQueued, Runnable, ThreadOwns, SchedulingInv
  <2>7. QED BY <2>1, <2>2, <2>3, <2>4, <2>5, <2>6, QuietThread, Zenon
<1>1. CASE EnqueueStopping(t)
  <2>1. /\ tpc[t] = "enqueue" /\ tpc' = [tpc EXCEPT ![t] = "idle"]
        /\ UNCHANGED <<mailboxVars, dispatcherVars, actorVars, wpc, current>>
    BY <1>1, Zenon DEF EnqueueStopping
  <2> HIDE DEF SchedulingInv, TypeOK, mailboxVars, dispatcherVars, actorVars
  <2>2. QED BY <2>1, TurnedAway, Zenon
<1>2. CASE EnqueueFull(t)
  <2>1. /\ tpc[t] = "enqueue" /\ tpc' = [tpc EXCEPT ![t] = "idle"]
        /\ UNCHANGED <<mailboxVars, dispatcherVars, actorVars, wpc, current>>
    BY <1>2, Zenon DEF EnqueueFull
  <2> HIDE DEF SchedulingInv, TypeOK, mailboxVars, dispatcherVars, actorVars
  <2>2. QED BY <2>1, TurnedAway, Zenon
<1>3. CASE EnqueueQueued(t)
  <2>1. tpc'[t] = "idle" /\ UNCHANGED current
    BY <1>3, Zenon DEF EnqueueQueued
  <2>2. \A u \in Threads : u # t => tpc'[u] = tpc[u]
    BY <1>3, Zenon DEF EnqueueQueued
  <2>3. UNCHANGED <<inFlight, scheduled, running, inline, closed, dispatcherVars,
                    actorVars, wpc>>
    BY <1>3, Zenon DEF EnqueueQueued
  <2>4. \A u \in Threads : EntryQueued(u) => EntryQueued(u)'
    BY <1>3, <2>1, PutKeeps, MessageType, ZenonT(60) DEF EnqueueQueued
  <2>5. up /\ ~closed /\ Runnable' => scheduled
    BY <1>3, <2>3, SMTT(30) DEF EnqueueQueued, Put, Queued
  <2>6. ~ThreadOwns(t)
    BY <1>3, Zenon DEF EnqueueQueued
  <2> HIDE DEF EntryQueued, Runnable, ThreadOwns, SchedulingInv
  <2>7. QED BY <2>1, <2>2, <2>3, <2>4, <2>5, <2>6, QuietThread, Zenon
<1> HIDE DEF TypeOK, SchedulingInv, AtMostOneActivation, OneInvocationAtATime, WorkerOwns,
             WorkerRuns, Owned, Runnable, CanProcess, EntryQueued, FailedPc, RunPc
<1>a. tpc \in [Threads -> ThreadPc]
  BY Zenon DEF TypeOK
<1>4. CASE EnqueueScheduled(t)
  <2>1. /\ tpc[t] = "enqueue" /\ tpc' = [tpc EXCEPT ![t] = "dispatch"]
        /\ scheduled' /\ UNCHANGED <<running, inline, dispatcherVars, actorVars, current, wpc>>
    BY <1>4, Zenon DEF EnqueueScheduled
  <2>2. ~scheduled
    BY <1>4, Zenon DEF EnqueueScheduled, Queued
  <2>3. EntryQueued(t)'
    <3>1. CASE IsUser(current[t])
      <4>1. messages' = Append(messages, Entry(current[t]))
        BY <1>4, <3>1, Zenon DEF EnqueueScheduled, Put
      <4>2. QED BY <2>1, <3>1, <4>1, AppendFinds, MessageType, ZenonT(40) DEF EntryQueued,
                   TypeOK
    <3>2. CASE ~IsUser(current[t])
      <4>1. system' = Append(system, Entry(current[t]))
        BY <1>4, <3>2, Zenon DEF EnqueueScheduled, Put
      <4>2. QED BY <2>1, <3>2, <4>1, AppendFinds, MessageType, ZenonT(40) DEF EntryQueued,
                   TypeOK
    <3>3. QED BY <3>1, <3>2, Zenon
  <2>4. /\ activations = 0 /\ ~inline
        /\ \A u \in Threads : ~ThreadOwns(u)
        /\ \A w \in Workers : ~WorkerOwns(w)
    BY <2>2, SMTT(30) DEF SchedulingInv, TypeOK
  <2>5. /\ \A u \in Threads : u # t => (ThreadOwns(u)' <=> ThreadOwns(u))
        /\ \A w \in Workers : WorkerOwns(w)' <=> WorkerOwns(w)
        /\ \A w \in Workers : WorkerRuns(w)' <=> WorkerRuns(w)
        /\ \A u \in Threads : tpc'[u] \in AbortPc => ~up'
        /\ \A w \in Workers : wpc'[w] \in FailedPc => actor' # "RUNNING"
    BY <1>a, <2>1, SenderFrame, Zenon
  <2>6. /\ activations' = 0 /\ ~inline' /\ ThreadOwns(t)'
        /\ \A u \in Threads : ThreadOwns(u)' => u = t
        /\ \A w \in Workers : ~WorkerOwns(w)'
    BY <1>a, <2>1, <2>4, <2>5, Zenon
  <2>7. \A u \in Threads : up' /\ tpc'[u] \in {"dispatch", "rollback"} => EntryQueued(u)'
    BY <2>3, <2>6, Zenon
  <2> HIDE DEF ThreadOwns, AbortPc
  <2>8. AtMostOneActivation' /\ Owned'
    BY <2>6 DEF AtMostOneActivation, Owned
  <2>9. OneInvocationAtATime'
    BY <2>5, Zenon DEF SchedulingInv, OneInvocationAtATime
  <2>10. QED
    BY <2>1, <2>5, <2>6, <2>7, <2>8, <2>9, Zenon DEF SchedulingInv
<1>5. CASE Dispatch(t)
  <2>1. /\ ThreadOwns(t) /\ ~ThreadOwns(t)' /\ tpc'[t] \notin AbortPc
        /\ \A u \in Threads : u # t => tpc'[u] = tpc[u]
        /\ activations' = activations + 1
        /\ UNCHANGED <<scheduled, running, inline, up, wpc, actor>>
    BY <1>a, <1>5, Zenon DEF Dispatch
  <2>2. QED BY <2>1, SenderReleases, Zenon
<1>6. CASE DispatchRefused(t)
  <2>1. /\ tpc[t] = "dispatch" /\ ThreadOwns(t)'
        /\ \A u \in Threads : u # t => tpc'[u] = tpc[u]
        /\ UNCHANGED <<messages, system, current, scheduled, running, inline, activations, up,
                       wpc, actor>>
    BY <1>a, <1>6, Zenon DEF DispatchRefused
  <2>2. scheduled /\ (up => EntryQueued(t)')
    BY <2>1, Zenon DEF SchedulingInv, EntryQueued
  <2>3. QED BY <2>1, <2>2, SenderHolds, Zenon
<1>7. CASE Rollback(t)
  <2> DEFINE m == current[t]
             target == IF IsUser(m) THEN messages ELSE system
             found == \E i \in DOMAIN target : target[i] = Entry(m)
             again == found /\ (system # <<>> \/ messages' # <<>>)
  <2>1. /\ tpc[t] = "rollback" /\ ThreadOwns(t)
        /\ UNCHANGED <<system, running, inline, closed, activations, up, actor, current, wpc>>
    BY <1>7, Zenon DEF Rollback
  <2>2. up => found
    BY <2>1, Zenon DEF SchedulingInv, EntryQueued
  <2>3. found /\ ~IsUser(m) => system # <<>>
    BY EmptyType
  <2>4. CASE again
    <3>1. scheduled' /\ tpc' = [tpc EXCEPT ![t] = "fallback"]
      BY <1>7, <2>4, Zenon DEF Rollback
    <3>2. QED BY <1>a, <2>1, <3>1, SenderHolds, Zenon
  <2>5. CASE ~again
    <3>1. scheduled' = (scheduled /\ ~found) /\ tpc' = [tpc EXCEPT ![t] = AfterRaise(t)]
      BY <1>7, <2>5, Zenon DEF Rollback
    <3>2. AfterRaise(t) = "idle" \/ ~up
      BY <2>2, <2>3, <2>5, SMTT(30) DEF AfterRaise, PreStart, IsUser, UserKinds
    <3>3. AfterRaise(t) \in {"idle", "abort"}
      BY Zenon DEF AfterRaise
    <3>4. ~ThreadOwns(t)' /\ (tpc'[t] \in AbortPc => ~up)
          /\ \A u \in Threads : u # t => tpc'[u] = tpc[u]
      BY <1>a, <3>1, <3>2, <3>3, Zenon
    <3>5. up => ~scheduled' /\ ~Runnable'
      BY <2>1, <2>2, <2>5, <3>1, Zenon DEF Runnable
    <3> HIDE DEF ThreadOwns, AbortPc, found
    <3>6. QED BY <2>1, <3>4, <3>5, SenderReleases, Zenon
  <2>6. QED BY <2>4, <2>5, Zenon
<1>8. CASE Fallback(t)
  <2>1. /\ ThreadOwns(t) /\ ~ThreadOwns(t)' /\ tpc'[t] \notin AbortPc
        /\ \A u \in Threads : u # t => tpc'[u] = tpc[u]
        /\ activations' = activations + 1
        /\ UNCHANGED <<scheduled, running, inline, up, wpc, actor>>
    BY <1>a, <1>8, Zenon DEF Fallback
  <2>2. QED BY <2>1, SenderReleases, Zenon
<1>9. CASE FallbackFails(t)
  <2>1. /\ ThreadOwns(t) /\ ~ThreadOwns(t)' /\ ~up
        /\ \A u \in Threads : u # t => tpc'[u] = tpc[u]
        /\ UNCHANGED <<activations, running, inline, up, wpc, actor>>
    BY <1>a, <1>9, Zenon DEF FallbackFails, AfterRaise
  <2>2. QED BY <2>1, SenderReleases, Zenon
<1> DEFINE Aborts == /\ tpc[t] \in AbortPc /\ ~ThreadOwns(t) /\ ~ThreadOwns(t)'
                     /\ \A u \in Threads : u # t => tpc'[u] = tpc[u]
                     /\ actor' = actor \/ actor' # "RUNNING"
                     /\ UNCHANGED <<scheduled, running, inline, activations, up, wpc>>
<1>b. Aborts => SchedulingInv'
  <2> HIDE DEF AbortPc, ThreadOwns
  <2>1. tpc[t] \in AbortPc => ~up
    BY Zenon DEF SchedulingInv
  <2>2. QED BY <2>1, SenderAborts, Zenon
<1>10. CASE AbortStart(t)
  <2>1. Aborts BY <1>a, <1>10, Zenon DEF AbortStart
  <2>2. QED BY <1>b, <2>1, Zenon
<1>11. CASE AbortStop(t)
  <2>1. Aborts BY <1>a, <1>11, Zenon DEF AbortStop, StopUserMessages
  <2>2. QED BY <1>b, <2>1, Zenon
<1>12. CASE AbortCell(t)
  <2>1. Aborts BY <1>a, <1>12, Zenon DEF AbortCell
  <2>2. QED BY <1>b, <2>1, Zenon
<1>13. CASE AbortClose(t)
  <2>1. Aborts BY <1>a, <1>13, Zenon DEF AbortClose, Close
  <2>2. QED BY <1>b, <2>1, Zenon
<1>14. QED
  BY <1>0, <1>1, <1>2, <1>3, <1>4, <1>5, <1>6, <1>7, <1>8, <1>9, <1>10, <1>11, <1>12,
     <1>13, Zenon DEF ThreadStep

\* The worker that owns the mailbox is the only one obliged to run it.
LEMMA OwnsAlone ==
    ASSUME SchedulingInv, NEW w \in Workers, WorkerOwns(w)
    PROVE  /\ activations = 0 /\ ~inline /\ scheduled
           /\ \A t \in Threads : ~ThreadOwns(t)
           /\ \A v \in Workers : WorkerOwns(v) => v = w
BY Zenon DEF SchedulingInv, AtMostOneActivation

\* The worker inside __call__ is the only one there.
LEMMA RunsAlone ==
    ASSUME SchedulingInv, NEW w \in Workers, WorkerRuns(w)
    PROVE  running /\ \A v \in Workers : WorkerRuns(v) => v = w
BY Zenon DEF SchedulingInv, OneInvocationAtATime

\* What a step of one worker leaves alone when it touches neither the queues nor
\* the actor: the senders, the other workers and what can run.
LEMMA WorkerFrame ==
    ASSUME SchedulingInv, NEW w \in Workers,
           \A v \in Workers : v # w => wpc'[v] = wpc[v],
           wpc'[w] \in FailedPc => wpc[w] \in FailedPc,
           UNCHANGED <<messages, system, closed, up, actorVars, tpc, current>>
    PROVE  /\ \A v \in Workers : v # w => (WorkerOwns(v)' <=> WorkerOwns(v))
           /\ \A v \in Workers : v # w => (WorkerRuns(v)' <=> WorkerRuns(v))
           /\ \A t \in Threads : ThreadOwns(t)' <=> ThreadOwns(t)
           /\ Runnable' <=> Runnable
           /\ \A t \in Threads : up' /\ tpc'[t] \in {"dispatch", "rollback"} => EntryQueued(t)'
           /\ \A t \in Threads : tpc'[t] \in AbortPc => ~up'
           /\ \A v \in Workers : wpc'[v] \in FailedPc => actor' # "RUNNING"
<1>1. /\ \A v \in Workers : v # w => (WorkerOwns(v)' <=> WorkerOwns(v))
      /\ \A v \in Workers : v # w => (WorkerRuns(v)' <=> WorkerRuns(v))
  BY Zenon DEF WorkerOwns, WorkerRuns
<1>2. \A t \in Threads : ThreadOwns(t)' <=> ThreadOwns(t)
  BY Zenon DEF ThreadOwns
<1>3. Runnable' <=> Runnable
  BY Zenon DEF Runnable, CanProcess, actorVars
<1>4. \A t \in Threads : EntryQueued(t)' <=> EntryQueued(t)
  BY Zenon DEF EntryQueued
<1>5. \A t \in Threads : /\ up' /\ tpc'[t] \in {"dispatch", "rollback"} => EntryQueued(t)'
                         /\ tpc'[t] \in AbortPc => ~up'
  BY <1>4, Zenon DEF SchedulingInv
<1>6. \A v \in Workers : wpc'[v] \in FailedPc => actor' # "RUNNING"
  <2>1. \A v \in Workers : wpc'[v] \in FailedPc => wpc[v] \in FailedPc
    BY Zenon
  <2>2. QED BY <2>1, Zenon DEF SchedulingInv, actorVars
<1>7. QED
  BY <1>1, <1>2, <1>3, <1>5, <1>6, Zenon

\* The worker that runs the mailbox passes the obligation to the dispatcher, or
\* lets it go with the scheduling once nothing can run or the dispatcher stopped.
LEMMA WorkerReleases ==
    ASSUME SchedulingInv, NEW w \in Workers, WorkerOwns(w), WorkerRuns(w), ~WorkerOwns(w)',
           \A v \in Workers : v # w => wpc'[v] = wpc[v],
           wpc'[w] \in FailedPc => wpc[w] \in FailedPc,
           UNCHANGED <<messages, system, closed, up, actorVars, tpc, current, running, inline>>,
           \/ activations' = activations + 1 /\ UNCHANGED scheduled /\ WorkerRuns(w)'
           \/ activations' = activations /\ UNCHANGED scheduled /\ ~up
           \/ activations' = activations /\ ~scheduled' /\ (closed \/ ~Runnable) /\ WorkerRuns(w)'
    PROVE  SchedulingInv'
<1>1. /\ \A v \in Workers : v # w => (WorkerOwns(v)' <=> WorkerOwns(v))
      /\ \A v \in Workers : v # w => (WorkerRuns(v)' <=> WorkerRuns(v))
      /\ \A t \in Threads : ThreadOwns(t)' <=> ThreadOwns(t)
      /\ Runnable' <=> Runnable
      /\ \A t \in Threads : up' /\ tpc'[t] \in {"dispatch", "rollback"} => EntryQueued(t)'
      /\ \A t \in Threads : tpc'[t] \in AbortPc => ~up'
      /\ \A v \in Workers : wpc'[v] \in FailedPc => actor' # "RUNNING"
  BY WorkerFrame, Zenon
<1>2. /\ activations' \in {0, 1} /\ ~inline'
      /\ activations' = 1 => scheduled' /\ WorkerRuns(w)'
      /\ \A t \in Threads : ~ThreadOwns(t)'
      /\ \A v \in Workers : ~WorkerOwns(v)'
  BY <1>1, OwnsAlone, SMTT(30)
<1>3. /\ \/ activations' = 1 \/ ~up'
         \/ ~scheduled' /\ (closed' \/ ~Runnable')
      /\ WorkerRuns(w)' \/ ~up'
  BY <1>1, OwnsAlone, SMTT(30)
<1>4. running' /\ \A v \in Workers : WorkerRuns(v)' => v = w
  BY <1>1, RunsAlone, Zenon
<1>5. AtMostOneActivation'
  BY <1>2, SMTT(30) DEF AtMostOneActivation
<1>6. activations' = 1 => Owned'
  BY Published, Zenon
<1>7. OneInvocationAtATime'
  BY <1>4, Zenon DEF OneInvocationAtATime
<1>8. /\ up' /\ ~closed' /\ Runnable' => scheduled'
      /\ up' /\ scheduled' => Owned'
  BY <1>2, <1>3, <1>6, Zenon
<1>9. activations' > 0 => scheduled'
  BY <1>2, SMT
<1>10. QED
  BY <1>1, <1>2, <1>3, <1>4, <1>5, <1>7, <1>8, <1>9, Assembled, Zenon

\* The worker that has passed the obligation on serves a request to run again: it
\* takes the obligation back if there is one, and only otherwise leaves __call__.
LEMMA WorkerServesRequest ==
    ASSUME SchedulingInv, NEW w \in Workers, WorkerRuns(w), ~WorkerOwns(w),
           \A v \in Workers : v # w => wpc'[v] = wpc[v],
           wpc'[w] \in FailedPc => wpc[w] \in FailedPc,
           UNCHANGED <<messages, system, closed, up, actorVars, tpc, current, scheduled,
                       activations>>,
           WorkerOwns(w)' <=> inline, WorkerRuns(w)' <=> running', ~inline',
           inline => running'
    PROVE  SchedulingInv'
<1>1. /\ \A v \in Workers : v # w => (WorkerOwns(v)' <=> WorkerOwns(v))
      /\ \A v \in Workers : v # w => (WorkerRuns(v)' <=> WorkerRuns(v))
      /\ \A t \in Threads : ThreadOwns(t)' <=> ThreadOwns(t)
      /\ Runnable' <=> Runnable
      /\ \A t \in Threads : up' /\ tpc'[t] \in {"dispatch", "rollback"} => EntryQueued(t)'
      /\ \A t \in Threads : tpc'[t] \in AbortPc => ~up'
      /\ \A v \in Workers : wpc'[v] \in FailedPc => actor' # "RUNNING"
  BY WorkerFrame, Zenon
<1>2. \A v \in Workers : WorkerRuns(v)' => v = w
  BY <1>1, RunsAlone, Zenon
<1>3. AtMostOneActivation'
  BY <1>1, Zenon DEF SchedulingInv, AtMostOneActivation
<1>4. OneInvocationAtATime'
  BY <1>2, Zenon DEF OneInvocationAtATime
<1>5. /\ activations' > 0 \/ inline' => scheduled'
      /\ \A t \in Threads : ThreadOwns(t)' => scheduled'
      /\ \A v \in Workers : WorkerOwns(v)' => scheduled'
      /\ up' /\ ~closed' /\ Runnable' => scheduled'
  BY <1>1, Zenon DEF SchedulingInv
<1>6. up' /\ scheduled' => Owned'
  BY <1>1, Zenon DEF SchedulingInv, Owned
<1>7. QED
  BY <1>1, <1>2, <1>3, <1>4, <1>5, <1>6, Assembled, Zenon

\* No step of a worker does: an activation is given up only under the lock and
\* only when nothing can run, and is otherwise handed to the dispatcher once.
LEMMA SchedulingWorker ==
    ASSUME TypeOK, SchedulingInv, NEW w \in Workers, WorkerStep(w)
    PROVE  SchedulingInv'
<1> DEFINE Stays == /\ wpc[w] \in RunPc /\ wpc'[w] \in RunPc
                    /\ \A v \in Workers : v # w => wpc'[v] = wpc[v]
                    /\ wpc'[w] \in FailedPc => actor' # "RUNNING"
                    /\ UNCHANGED <<scheduled, running, inline, up, activations, tpc>>
<1>a. Stays => SchedulingInv'
  BY OwnerStep, Zenon
<1>b. wpc \in [Workers -> WorkerPc] /\ (wpc[w] \in FailedPc => actor # "RUNNING")
  BY Zenon DEF TypeOK, SchedulingInv
<1> USE DEF RunPc, FailedPc, Goto, mailboxVars, dispatcherVars, actorVars, threadVars
<1>3. CASE TakeBatch(w)
  <2>1. Stays BY <1>3, <1>b, Zenon DEF TakeBatch
  <2>2. QED BY <1>a, <2>1, Zenon
<1>5. CASE InvokeUser(w)
  <2>1. Stays BY <1>5, <1>b, Zenon DEF InvokeUser, AfterFailure
  <2>2. QED BY <1>a, <2>1, Zenon
<1>6. CASE InvokeSystem(w)
  <2>1. wpc[w] = "invoke" /\ UNCHANGED <<mailboxVars, dispatcherVars, tpc>>
    BY <1>6, Zenon DEF InvokeSystem
  <2>2. \E pc \in RunPc : wpc' = [wpc EXCEPT ![w] = pc]
    BY <1>6, <1>b, Zenon DEF InvokeSystem, SystemEffect, Fails, AfterFailure, CompleteRestart
  <2>3. wpc'[w] \in FailedPc => actor' # "RUNNING"
    BY <1>6, <1>b, Zenon DEF InvokeSystem, SystemEffect, Fails, AfterFailure, CompleteRestart
  <2>4. Stays BY <1>b, <2>1, <2>2, <2>3, Zenon
  <2>5. QED BY <1>a, <2>4, Zenon
<1>7. CASE SelfStop(w)
  <2>1. Stays BY <1>7, <1>b, Zenon DEF SelfStop
  <2>2. QED BY <1>a, <2>1, Zenon
<1>8. CASE BatchReturns(w)
  <2>1. Stays BY <1>8, <1>b, Zenon DEF BatchReturns
  <2>2. QED BY <1>a, <2>1, Zenon
<1>9. CASE StopCell(w)
  <2>1. Stays BY <1>9, <1>b, Zenon DEF StopCell
  <2>2. QED BY <1>a, <2>1, Zenon
<1>10. CASE StopMailbox(w)
  <2>1. Stays BY <1>10, <1>b, Zenon DEF StopMailbox, StopUserMessages
  <2>2. QED BY <1>a, <2>1, Zenon
<1>11. CASE CompleteStop(w)
  <2>1. Stays BY <1>11, <1>b, Zenon DEF CompleteStop
  <2>2. QED BY <1>a, <2>1, Zenon
<1>12. CASE CloseCell(w)
  <2>1. Stays BY <1>12, <1>b, Zenon DEF CloseCell
  <2>2. QED BY <1>a, <2>1, Zenon
<1>13. CASE CloseMailbox(w)
  <2>1. Stays BY <1>13, <1>b, Zenon DEF CloseMailbox, Close
  <2>2. QED BY <1>a, <2>1, Zenon
<1>14. CASE Restore(w)
  <2>1. Stays BY <1>14, <1>b, Zenon DEF Restore
  <2>2. QED BY <1>a, <2>1, Zenon
<1>15. CASE Recheck(w)
  <2>1. Stays BY <1>15, <1>b, Zenon DEF Recheck
  <2>2. QED BY <1>a, <2>1, Zenon
<1>17. CASE RedispatchRefused(w)
  <2>1. Stays BY <1>17, <1>b, Zenon DEF RedispatchRefused
  <2>2. QED BY <1>a, <2>1, Zenon
<1> HIDE DEF Stays
<1> DEFINE Frame == /\ \A v \in Workers : v # w => wpc'[v] = wpc[v]
                    /\ wpc'[w] \in FailedPc => wpc[w] \in FailedPc
                    /\ UNCHANGED <<messages, system, closed, up, actorVars, tpc, current>>
           Framed == /\ \A v \in Workers : v # w => (WorkerOwns(v)' <=> WorkerOwns(v))
                     /\ \A v \in Workers : v # w => (WorkerRuns(v)' <=> WorkerRuns(v))
                     /\ \A t \in Threads : ThreadOwns(t)' <=> ThreadOwns(t)
                     /\ Runnable' <=> Runnable
                     /\ \A t \in Threads : up' /\ tpc'[t] \in {"dispatch", "rollback"}
                                             => EntryQueued(t)'
                     /\ \A t \in Threads : tpc'[t] \in AbortPc => ~up'
                     /\ \A v \in Workers : wpc'[v] \in FailedPc => actor' # "RUNNING"
<1>c. Frame => Framed /\ UNCHANGED <<closed, up>>
  <2> HIDE DEF RunPc, FailedPc, actorVars
  <2>1. QED BY WorkerFrame, Zenon
<1>1. CASE TakeActivation(w)
  <2>1. /\ Frame /\ activations > 0 /\ activations' = activations - 1
        /\ WorkerOwns(w)' /\ ~WorkerRuns(w)' /\ ~WorkerRuns(w)
        /\ UNCHANGED <<scheduled, running, inline>>
    BY <1>1, <1>b, Zenon DEF TakeActivation, WorkerOwns, WorkerRuns
  <2>2. /\ activations' = 0 /\ ~inline /\ scheduled
        /\ \A t \in Threads : ~ThreadOwns(t)
        /\ \A v \in Workers : ~WorkerOwns(v)
    BY <2>1, SMTT(30) DEF SchedulingInv, AtMostOneActivation, TypeOK
  <2> HIDE DEF Frame, RunPc, FailedPc
  <2>3. Framed /\ UNCHANGED <<closed, up>>
    BY <1>c, <2>1, Zenon
  <2>4. /\ activations' = 0 /\ ~inline' /\ scheduled'
        /\ \A t \in Threads : ~ThreadOwns(t)'
        /\ \A v \in Workers : WorkerOwns(v)' => v = w
    BY <2>1, <2>2, <2>3, Zenon
  <2>5. AtMostOneActivation'
    BY <2>4 DEF AtMostOneActivation
  <2>6. Owned'
    BY <2>1, Zenon DEF Owned
  <2>7. OneInvocationAtATime'
    BY <2>1, <2>3, Zenon DEF SchedulingInv, OneInvocationAtATime
  <2>8. /\ \A v \in Workers : WorkerRuns(v)' => running'
        /\ up' /\ running' => \E v \in Workers : WorkerRuns(v)'
    BY <2>1, <2>3, Zenon DEF SchedulingInv
  <2>9. QED
    BY <2>3, <2>4, <2>5, <2>6, <2>7, <2>8, Assembled, Zenon
<1>2. CASE Enter(w)
  <2>1. /\ Frame /\ WorkerOwns(w) /\ ~WorkerRuns(w)
        /\ UNCHANGED <<scheduled, activations>>
    BY <1>2, <1>b, Zenon DEF Enter, WorkerOwns, WorkerRuns
  <2>2. /\ activations = 0 /\ ~inline /\ scheduled
        /\ \A t \in Threads : ~ThreadOwns(t)
        /\ \A v \in Workers : WorkerOwns(v) => v = w
    BY <2>1, OwnsAlone, Zenon
  <2>3. CASE running
    <3>1. inline' /\ UNCHANGED running /\ ~WorkerOwns(w)' /\ ~WorkerRuns(w)'
      BY <1>2, <1>b, <2>3, Zenon DEF Enter, AlreadyRunning, WorkerOwns, WorkerRuns
    <3>2. up => \E v \in Workers : v # w /\ wpc'[v] \in {"handoff", "finish"}
      <4>1. up => \E v \in Workers : v # w /\ WorkerRuns(v)
        BY <2>1, <2>3, Zenon DEF SchedulingInv
      <4>2. QED BY <2>1, <2>2, <4>1, Zenon DEF WorkerRuns, WorkerOwns
    <3> HIDE DEF Frame, RunPc, FailedPc
    <3>3. up' => Owned'
      BY <1>c, <2>1, <3>1, <3>2, Zenon DEF Owned
    <3>4. /\ activations' = 0 /\ scheduled' /\ running'
          /\ \A t \in Threads : ~ThreadOwns(t)'
          /\ \A v \in Workers : ~WorkerOwns(v)'
          /\ \A v \in Workers : WorkerRuns(v)' <=> WorkerRuns(v)
      BY <1>c, <2>1, <2>2, <2>3, <3>1, Zenon
    <3>5. AtMostOneActivation'
      BY <3>4 DEF AtMostOneActivation
    <3>6. OneInvocationAtATime'
      BY <3>4, Zenon DEF SchedulingInv, OneInvocationAtATime
    <3>7. up' => \E v \in Workers : WorkerRuns(v)'
      BY <1>c, <2>1, <2>3, <3>4, Zenon DEF SchedulingInv
    <3>8. QED
      BY <1>c, <2>1, <3>3, <3>4, <3>5, <3>6, <3>7, Assembled, Zenon
  <2>4. CASE ~running
    <3>1. running' /\ UNCHANGED inline /\ WorkerOwns(w)' /\ WorkerRuns(w)'
      BY <1>2, <1>b, <2>4, Zenon DEF Enter, AlreadyRunning, WorkerOwns, WorkerRuns
    <3>2. \A v \in Workers : ~WorkerRuns(v)
      BY <2>4, Zenon DEF SchedulingInv
    <3> HIDE DEF Frame, RunPc, FailedPc
    <3>3. /\ activations' = 0 /\ scheduled' /\ ~inline'
          /\ \A t \in Threads : ~ThreadOwns(t)'
          /\ \A v \in Workers : WorkerOwns(v)' => v = w
          /\ \A v \in Workers : WorkerRuns(v)' => v = w
      BY <1>c, <2>1, <2>2, <3>1, <3>2, Zenon
    <3>4. AtMostOneActivation' /\ OneInvocationAtATime'
      BY <3>3 DEF AtMostOneActivation, OneInvocationAtATime
    <3>5. Owned'
      BY <3>1, Zenon DEF Owned
    <3>6. QED
      BY <1>c, <2>1, <3>1, <3>3, <3>4, <3>5, Assembled, Zenon
  <2>5. QED BY <2>3, <2>4, Zenon
<1>4. CASE GiveUp(w)
  <2>1. /\ Frame /\ WorkerOwns(w) /\ WorkerRuns(w) /\ ~WorkerOwns(w)' /\ WorkerRuns(w)'
        /\ ~scheduled' /\ UNCHANGED <<running, inline, activations>>
    BY <1>4, <1>b, Zenon DEF GiveUp, WorkerOwns, WorkerRuns
  <2>2. closed \/ ~Runnable
    BY <1>4, Zenon DEF GiveUp, NothingToRun, Runnable
  <2> HIDE DEF RunPc, FailedPc, actorVars
  <2>3. QED BY <2>1, <2>2, WorkerReleases, Zenon
<1>16. CASE Redispatch(w)
  <2>1. /\ Frame /\ WorkerOwns(w) /\ WorkerRuns(w) /\ ~WorkerOwns(w)' /\ WorkerRuns(w)'
        /\ activations' = activations + 1 /\ UNCHANGED <<scheduled, running, inline>>
    BY <1>16, <1>b, Zenon DEF Redispatch, WorkerOwns, WorkerRuns
  <2> HIDE DEF RunPc, FailedPc, actorVars
  <2>2. QED BY <2>1, WorkerReleases, Zenon
<1>18. CASE RecoverLocked(w)
  <2>1. CASE system # <<>>
    <3>1. scheduled
      BY <1>18, OwnsAlone, Zenon DEF RecoverLocked, WorkerOwns
    <3>2. Stays BY <1>18, <1>b, <2>1, <3>1, Zenon DEF RecoverLocked, Stays
    <3>3. QED BY <1>a, <3>2, Zenon
  <2>2. CASE system = <<>>
    <3>1. /\ Frame /\ WorkerOwns(w) /\ WorkerRuns(w) /\ ~WorkerOwns(w)' /\ WorkerRuns(w)'
          /\ ~scheduled' /\ UNCHANGED <<running, inline, activations>>
      BY <1>18, <1>b, <2>2, Zenon DEF RecoverLocked, WorkerOwns, WorkerRuns
    <3>2. ~Runnable
      BY <1>18, <1>b, <2>2, Zenon DEF RecoverLocked, Runnable, CanProcess
    <3> HIDE DEF RunPc, FailedPc, actorVars
    <3>3. QED BY <3>1, <3>2, WorkerReleases, Zenon
  <2>3. QED BY <2>1, <2>2, Zenon
<1>19. CASE RecoverSystem(w)
  <2>1. /\ Frame /\ WorkerOwns(w) /\ WorkerRuns(w) /\ ~WorkerOwns(w)'
        /\ UNCHANGED <<scheduled, running, inline>>
    BY <1>19, <1>b, Zenon DEF RecoverSystem, WorkerOwns, WorkerRuns
  <2>2. \/ activations' = activations + 1 /\ WorkerRuns(w)'
        \/ activations' = activations /\ ~up
    BY <1>19, <1>b, Zenon DEF RecoverSystem, WorkerRuns
  <2> HIDE DEF RunPc, FailedPc, actorVars
  <2>3. QED BY <2>1, <2>2, WorkerReleases, Zenon
<1>20. CASE Handoff(w)
  <2>1. /\ Frame /\ WorkerRuns(w) /\ WorkerRuns(w)' /\ ~WorkerOwns(w)
        /\ WorkerOwns(w)' <=> inline
        /\ ~inline' /\ UNCHANGED <<scheduled, running, activations>>
    BY <1>20, <1>b, Zenon DEF Handoff, WorkerOwns, WorkerRuns
  <2> HIDE DEF RunPc, FailedPc, actorVars
  <2>2. running
    BY <2>1, RunsAlone, Zenon
  <2>3. QED BY <2>1, <2>2, WorkerServesRequest, Zenon
<1>21. CASE Finish(w)
  <2>1. /\ Frame /\ WorkerRuns(w) /\ ~WorkerOwns(w)
        /\ (WorkerOwns(w)' <=> inline) /\ (WorkerRuns(w)' <=> inline)
        /\ running' <=> inline
        /\ ~inline' /\ UNCHANGED <<scheduled, activations>>
    BY <1>21, <1>b, Zenon DEF Finish, WorkerOwns, WorkerRuns
  <2> HIDE DEF RunPc, FailedPc, actorVars
  <2>2. QED BY <2>1, WorkerServesRequest, Zenon
<1>22. QED
  BY <1>1, <1>2, <1>3, <1>4, <1>5, <1>6, <1>7, <1>8, <1>9, <1>10, <1>11, <1>12,
     <1>13, <1>14, <1>15, <1>16, <1>17, <1>18, <1>19, <1>20, <1>21, ZenonT(60) DEF WorkerStep

\* A new mailbox is not scheduled and holds nothing.
LEMMA SchedulingInit == Init => SchedulingInv
<1> SUFFICES ASSUME Init PROVE SchedulingInv
  BY Zenon
<1>1. /\ \A t \in Threads : tpc[t] \in {"idle", "enqueue"}
      /\ \A w \in Workers : wpc[w] = "idle"
      /\ activations = 0 /\ ~inline /\ ~running /\ ~scheduled
  BY Zenon DEF Init
<1>2. \A t \in Threads : ~ThreadOwns(t) /\ tpc[t] \notin AbortPc
                        /\ tpc[t] \notin {"dispatch", "rollback"}
  BY <1>1, Zenon DEF ThreadOwns, AbortPc
<1>3. \A w \in Workers : ~WorkerOwns(w) /\ ~WorkerRuns(w) /\ wpc[w] \notin FailedPc
  BY <1>1, Zenon DEF WorkerOwns, WorkerRuns, RunPc, FailedPc
<1>4. ~Runnable
  BY Zenon DEF Init, Runnable
<1>5. AtMostOneActivation /\ OneInvocationAtATime
  BY <1>1, <1>2, <1>3 DEF AtMostOneActivation, OneInvocationAtATime
<1>6. QED
  BY <1>1, <1>2, <1>3, <1>4, <1>5 DEF SchedulingInv

\* SchedulingInv is inductive, relative to the types.
LEMMA SchedulingNext == TypeOK /\ SchedulingInv /\ [Next]_vars => SchedulingInv'
<1> SUFFICES ASSUME TypeOK, SchedulingInv, [Next]_vars PROVE SchedulingInv'
  BY Zenon
<1>1. CASE \E t \in Threads : Tell(t) \/ ThreadStep(t)
  BY <1>1, SchedulingThread, Zenon
<1>2. CASE \E w \in Workers : WorkerStep(w)
  BY <1>2, SchedulingWorker, Zenon
<1> USE DEF SchedulingInv, AtMostOneActivation, OneInvocationAtATime, ThreadOwns,
            WorkerOwns, WorkerRuns, Owned, Runnable, CanProcess, EntryQueued,
            mailboxVars, cellVars, dispatcherVars, actorVars, threadVars, workerVars,
            historyVars
<1>3. CASE StopDispatcher
  BY <1>3, Zenon DEF StopDispatcher
<1>4. CASE AbandonActivation
  <2>1. /\ activations > 0 /\ activations' = activations - 1 /\ activations \in Nat
        /\ ~up /\ UNCHANGED <<scheduled, running, inline, up, tpc, wpc, actor>>
    BY <1>4, ZenonT(60) DEF AbandonActivation, TypeOK
  <2>2. /\ \A t \in Threads : ThreadOwns(t)' <=> ThreadOwns(t)
        /\ \A w \in Workers : WorkerOwns(w)' <=> WorkerOwns(w)
        /\ \A w \in Workers : WorkerRuns(w)' <=> WorkerRuns(w)
    BY <2>1, ZenonT(60)
  <2> HIDE DEF ThreadOwns, WorkerOwns, WorkerRuns, Owned, Runnable, EntryQueued
  <2>3. AtMostOneActivation' /\ OneInvocationAtATime'
    BY <2>1, <2>2, SMTT(30)
  <2>4. QED
    BY <2>1, <2>2, <2>3, ZenonT(60)
<1>5. CASE UNCHANGED vars
  BY <1>5, ZenonT(40) DEF vars
<1>6. QED
  BY <1>1, <1>2, <1>3, <1>4, <1>5, ZenonT(60) DEF Next

\* _scheduled, _running and _inline_run_requested of DefaultMailbox tell the truth
\* in every reachable state of any instance.
THEOREM SchedulingCorrect == Spec => []SchedulingInv
<1>1. Init => TypeOK /\ SchedulingInv
  BY TypeInit, SchedulingInit, Zenon
<1>2. TypeOK /\ SchedulingInv /\ [Next]_vars => (TypeOK /\ SchedulingInv)'
  BY TypeNext, SchedulingNext, Zenon
<1>3. QED BY <1>1, <1>2, PTL DEF Spec

\* README: "at most one activation per scheduled mailbox", for every number of
\* senders and workers, through roll-back, handoff and recovery.
THEOREM OneActivation == Spec => []AtMostOneActivation
BY SchedulingCorrect, PTL DEF SchedulingInv

\* README: "One behavior invocation at a time per actor": no two workers are ever
\* inside the batches of one mailbox.
THEOREM SingleThreaded == Spec => []OneInvocationAtATime
BY SchedulingCorrect, PTL DEF SchedulingInv

\* No lost wake-up: as long as the dispatcher runs, a message that can run has
\* somebody obliged to run it.
THEOREM NothingStranded == Spec => []NoStrandedMessage
<1>1. SchedulingInv => NoStrandedMessage
  BY Zenon DEF SchedulingInv, NoStrandedMessage
<1>2. QED BY <1>1, SchedulingCorrect, PTL

------------------------------------------------------------------------------
(***************************************************************************)
(* The bound of the user mailbox, for every capacity, throughput, number   *)
(* of senders and of workers: CapacityInv is inductive.                    *)
(***************************************************************************)

\* The length of a concatenation of two queues.
LEMMA ConcatLength ==
    ASSUME NEW r \in Seq(Item), NEW s \in Seq(Item)
    PROVE  Len(r \o s) = Len(r) + Len(s)
BY ConcatProperties, Zenon

\* What the proofs need of the batch operations: nothing grows.
LEMMA BatchLengths ==
    /\ \A ms \in Seq(Message) : Len(Wrap(ms)) = Len(ms)
    /\ \A q \in Seq(Item) : Len(Unwrap(q)) = Len(q)
    /\ \A q \in Seq(Item) : Len(First(q)) + Len(Rest(q)) = Len(q)
<1>1. \A ms \in Seq(Message) : Len(Wrap(ms)) = Len(ms)
  <2> SUFFICES ASSUME NEW ms \in Seq(Message) PROVE Len(Wrap(ms)) = Len(ms)
    BY Zenon
  <2>1. DOMAIN Wrap(ms) = 1..Len(ms) /\ Len(ms) \in Nat
    BY LenProperties, Zenon DEF Wrap
  <2>2. Wrap(ms) \in Seq(Item)
    BY WrapType, Zenon
  <2>3. QED BY <2>1, <2>2, LenProperties
<1>2. \A q \in Seq(Item) : Len(Unwrap(q)) = Len(q)
  <2> SUFFICES ASSUME NEW q \in Seq(Item) PROVE Len(Unwrap(q)) = Len(q)
    BY Zenon
  <2>1. DOMAIN Unwrap(q) = 1..Len(q) /\ Len(q) \in Nat
    BY LenProperties, Zenon DEF Unwrap
  <2>2. Unwrap(q) \in Seq(Message)
    BY UnwrapType, Zenon
  <2>3. QED BY <2>1, <2>2, LenProperties
<1>3. \A q \in Seq(Item) : Len(First(q)) + Len(Rest(q)) = Len(q)
  <2> SUFFICES ASSUME NEW q \in Seq(Item)
               PROVE  Len(First(q)) + Len(Rest(q)) = Len(q)
    BY Zenon
  <2>1. Len(q) \in Nat /\ \A i \in 1..Len(q) : q[i] \in Item
    BY LenProperties, ElementOfSeq, Zenon
  <2>2. PICK n \in 0..Len(q) : First(q) = SubSeq(q, 1, n)
    BY <2>1, MailboxAssumption, SMTT(45) DEF First
  <2>3. Len(First(q)) = n
    BY <2>1, <2>2, SubSeqProperties
  <2>4. Rest(q) = SubSeq(q, n + 1, Len(q))
    BY <2>3, Zenon DEF Rest
  <2>5. Len(Rest(q)) = Len(q) - n
    BY <2>1, <2>4, SubSeqProperties
  <2>6. QED BY <2>1, <2>3, <2>5
<1>4. QED BY <1>1, <1>2, <1>3, Zenon

\* Taking an entry out of a queue shortens it.
LEMMA WithoutLength ==
    ASSUME NEW q \in Seq(Item), NEW e, \E i \in DOMAIN q : q[i] = e
    PROVE  Len(Without(q, e)) <= Len(q)
<1> DEFINE k == CHOOSE i \in DOMAIN q : q[i] = e
<1>1. k \in DOMAIN q
  BY Zenon
<1>2. k \in 1..Len(q) /\ Len(q) \in Nat
  BY <1>1, LenProperties, Zenon
<1>3. Without(q, e) = SubSeq(q, 1, k - 1) \o SubSeq(q, k + 1, Len(q))
  BY Zenon DEF Without
<1> HIDE DEF k
<1>4. /\ SubSeq(q, 1, k - 1) \in Seq(Item) /\ Len(SubSeq(q, 1, k - 1)) = k - 1
      /\ SubSeq(q, k + 1, Len(q)) \in Seq(Item)
      /\ Len(SubSeq(q, k + 1, Len(q))) = Len(q) - k
  BY <1>2, SubSeqProperties
<1>5. Len(Without(q, e)) = (k - 1) + (Len(q) - k)
  BY <1>3, <1>4, ConcatLength, Zenon
<1>6. QED BY <1>2, <1>5

\* A step that moves no message and no worker out of a batch it still holds.
LEMMA CapacityFrame ==
    ASSUME TypeOK, CapacityInv, UNCHANGED <<messages, inFlight, batch, systemBatch>>,
           closed => closed',
           \A w \in Workers : \/ wpc'[w] = wpc[w]
                              \/ batch[w] = <<>>
                              \/ wpc'[w] \in BatchPc
    PROVE  CapacityInv'
BY Zenon DEF CapacityInv, CapacityRespected

\* No step of a sender exceeds the capacity: a message joins the queue only
\* when the queued and the extracted ones leave room for it.
LEMMA CapacityThread ==
    ASSUME TypeOK, CapacityInv, NEW t \in Threads, Tell(t) \/ ThreadStep(t)
    PROVE  CapacityInv'
<1> USE DEF mailboxVars, cellVars, dispatcherVars, actorVars, threadVars, workerVars,
            historyVars
<1>1. Len(messages) \in Nat /\ inFlight \in Nat /\ Capacity \in Nat
  BY LenProperties, MailboxAssumption, Zenon DEF TypeOK
<1>2. CASE EnqueueQueued(t) \/ EnqueueScheduled(t)
  <2>1. /\ ~Full(current[t]) /\ UNCHANGED <<inFlight, closed, workerVars>>
        /\ messages' = messages \/ (IsUser(current[t])
              /\ \E item : messages' = Append(messages, item))
    BY <1>2, Zenon DEF EnqueueQueued, EnqueueScheduled, Put
  <2>2. Len(messages') <= Len(messages)
        \/ (IsUser(current[t]) /\ Len(messages') = Len(messages) + 1)
    BY <1>1, <2>1, AppendProperties DEF TypeOK
  <2>3. Len(messages') + inFlight <= Capacity
    BY <1>1, <2>1, <2>2 DEF Full, CapacityInv, CapacityRespected
  <2>4. QED BY <2>1, <2>3, Zenon DEF CapacityInv, CapacityRespected
<1>3. CASE Rollback(t)
  <2>1. /\ UNCHANGED <<inFlight, closed, workerVars>>
        /\ \/ messages' = messages
           \/ /\ \E i \in DOMAIN messages : messages[i] = Entry(current[t])
              /\ messages' = Without(messages, Entry(current[t]))
    BY <1>3, Zenon DEF Rollback
  <2>2. Len(messages') <= Len(messages)
    BY <1>1, <2>1, WithoutLength DEF TypeOK
  <2>3. Len(messages') \in Nat
    BY <2>1, WithoutType, LenProperties, ZenonT(60) DEF TypeOK
  <2>4. QED BY <1>1, <2>1, <2>2, <2>3 DEF CapacityInv, CapacityRespected
<1>4. CASE AbortStop(t) \/ AbortClose(t)
  <2>1. /\ messages' = <<>> /\ UNCHANGED workerVars
        /\ (inFlight' = inFlight /\ closed' = closed) \/ (inFlight' = 0 /\ closed')
    BY <1>4, Zenon DEF AbortStop, AbortClose, StopUserMessages, Close
  <2>2. Len(messages') = 0
    BY <2>1, Zenon
  <2>3. QED BY <1>1, <2>1, <2>2 DEF CapacityInv, CapacityRespected
<1>5. CASE \/ Tell(t) \/ EnqueueStopping(t) \/ EnqueueFull(t) \/ Dispatch(t)
           \/ DispatchRefused(t) \/ Fallback(t) \/ FallbackFails(t) \/ AbortStart(t)
           \/ AbortCell(t)
  <2>1. UNCHANGED <<messages, inFlight, closed, workerVars>>
    BY <1>5, Zenon DEF Tell, EnqueueStopping, EnqueueFull, Dispatch, DispatchRefused,
       Fallback, FallbackFails, AbortStart, AbortCell
  <2>2. QED BY <2>1, CapacityFrame, Zenon
<1>6. QED BY <1>2, <1>3, <1>4, <1>5, Zenon DEF ThreadStep

\* No step of a worker does: a batch that comes back finds its places kept.
LEMMA CapacityWorker ==
    ASSUME TypeOK, OneInvocationAtATime, CapacityInv, NEW w \in Workers, WorkerStep(w)
    PROVE  CapacityInv'
<1> USE DEF mailboxVars, cellVars, dispatcherVars, actorVars, threadVars, workerVars,
            historyVars
<1>1. /\ Len(messages) \in Nat /\ inFlight \in Nat /\ Capacity \in Nat
      /\ \A v \in Workers : Len(batch[v]) \in Nat
  BY LenProperties, MailboxAssumption, Zenon DEF TypeOK
<1>2. ASSUME wpc[w] \in RunPc
      PROVE  \A v \in Workers : v # w => batch[v] = <<>>
  BY <1>2, Zenon DEF CapacityInv, OneInvocationAtATime, WorkerRuns, BatchPc, RunPc
<1>3. CASE TakeBatch(w)
  <2>1. /\ wpc[w] = "take" /\ wpc' = [wpc EXCEPT ![w] = "invoke"] /\ closed' = closed
        /\ \/ /\ batch' = [batch EXCEPT ![w] = Unwrap(First(system))]
              /\ systemBatch' = [systemBatch EXCEPT ![w] = TRUE]
              /\ UNCHANGED <<messages, inFlight>>
           \/ /\ batch' = [batch EXCEPT ![w] = Unwrap(First(messages))]
              /\ systemBatch' = [systemBatch EXCEPT ![w] = FALSE]
              /\ messages' = Rest(messages)
              /\ inFlight' = inFlight + Len(First(messages))
    BY <1>3, Zenon DEF TakeBatch, Goto
  <2>2. wpc'[w] \in BatchPc /\ \A v \in Workers : v # w => batch'[v] = <<>>
    BY <1>2, <2>1, Zenon DEF TypeOK, RunPc, BatchPc
  <2>3. /\ Len(First(messages)) + Len(Rest(messages)) = Len(messages)
        /\ Len(First(messages)) \in Nat /\ Len(Rest(messages)) \in Nat
        /\ Len(Unwrap(First(messages))) = Len(First(messages))
    BY BatchLengths, FirstRestType, LenProperties, Zenon DEF TypeOK
  <2>4. Len(messages') + inFlight' <= Capacity
    BY <1>1, <2>1, <2>3 DEF CapacityInv, CapacityRespected
  <2>5. ~systemBatch'[w] => Len(batch'[w]) <= inFlight'
    BY <1>1, <2>1, <2>3 DEF TypeOK
  <2>6. inFlight' \in Nat
    BY <1>1, <2>1, <2>3
  <2>7. QED BY <2>2, <2>4, <2>5, <2>6 DEF CapacityInv, CapacityRespected
<1>4. CASE Restore(w)
  <2>1. /\ wpc[w] \in {"restore", "restoreFailed"}
        /\ batch' = [batch EXCEPT ![w] = <<>>] /\ closed' = closed
        /\ \/ systemBatch[w] /\ inFlight' = inFlight /\ messages' = messages
           \/ closed /\ inFlight' \in {0, inFlight} /\ messages' = messages
           \/ /\ ~closed /\ ~systemBatch[w] /\ inFlight' = 0
              /\ messages' = Wrap(batch[w]) \o messages
    BY <1>4, Zenon DEF Restore, PutBack
  <2>2. \A v \in Workers : batch'[v] = <<>>
    BY <1>2, <2>1, Zenon DEF TypeOK, RunPc
  <2>3. Wrap(batch[w]) \in Seq(Item) /\ Len(Wrap(batch[w])) = Len(batch[w])
    BY WrapType, BatchLengths, Zenon DEF TypeOK
  <2>4. Len(Wrap(batch[w]) \o messages) = Len(batch[w]) + Len(messages)
    BY <2>3, ConcatLength, Zenon DEF TypeOK
  <2>5. Len(messages') + inFlight' <= Capacity /\ inFlight' \in Nat
    BY <1>1, <2>1, <2>4 DEF CapacityInv, CapacityRespected
  <2>6. QED BY <2>2, <2>5 DEF CapacityInv, CapacityRespected
<1>5. CASE InvokeUser(w) \/ InvokeSystem(w)
  <2>1. /\ wpc[w] = "invoke" /\ batch[w] # <<>>
        /\ batch' = [batch EXCEPT ![w] = Tail(@)]
        /\ UNCHANGED <<messages, inFlight, closed, systemBatch>>
    BY <1>5, Zenon DEF InvokeUser, InvokeSystem
  <2>2. wpc' = wpc \/ \E pc \in BatchPc : wpc' = [wpc EXCEPT ![w] = pc]
    <3>1. CASE InvokeUser(w)
      BY <3>1, Zenon DEF InvokeUser, AfterFailure, Goto, BatchPc
    <3>2. CASE InvokeSystem(w)
      BY <3>2, Zenon DEF InvokeSystem, SystemEffect, Fails, AfterFailure,
         CompleteRestart, Goto, BatchPc
    <3>3. QED BY <1>5, <3>1, <3>2, Zenon
  <2>3. wpc'[w] \in BatchPc
    BY <2>1, <2>2, Zenon DEF TypeOK, BatchPc
  <2>4. Len(Tail(batch[w])) <= Len(batch[w]) /\ Len(Tail(batch[w])) \in Nat
    BY <1>1, <2>1, HeadTailProperties, LenProperties DEF TypeOK
  <2>5. \A v \in Workers : v # w => batch'[v] = batch[v] /\ wpc'[v] = wpc[v]
    BY <2>1, <2>2, Zenon DEF TypeOK
  <2>6. batch'[w] = Tail(batch[w])
    BY <2>1, Zenon DEF TypeOK
  <2>7. QED BY <1>1, <2>1, <2>3, <2>4, <2>5, <2>6 DEF CapacityInv, CapacityRespected
<1>6. CASE BatchReturns(w)
  <2>1. /\ wpc' = [wpc EXCEPT ![w] = "restore"]
        /\ batch' = batch \/ batch' = [batch EXCEPT ![w] = <<>>]
        /\ UNCHANGED <<messages, inFlight, closed, systemBatch>>
    BY <1>6, Zenon DEF BatchReturns, Goto
  <2>2. QED BY <1>1, <2>1, SMTT(45) DEF CapacityInv, CapacityRespected, TypeOK, BatchPc
<1>7. CASE StopMailbox(w) \/ CloseMailbox(w)
  <2>1. /\ messages' = <<>> /\ UNCHANGED <<batch, systemBatch>>
        /\ (inFlight' = inFlight /\ closed' = closed) \/ (inFlight' = 0 /\ closed')
        /\ \E pc \in BatchPc : wpc' = [wpc EXCEPT ![w] = pc]
    <3>1. CASE StopMailbox(w)
      BY <3>1, Zenon DEF StopMailbox, StopUserMessages, Goto, BatchPc
    <3>2. CASE CloseMailbox(w)
      BY <3>2, Zenon DEF CloseMailbox, Close, Goto, BatchPc
    <3>3. QED BY <1>7, <3>1, <3>2, Zenon
  <2>2. Len(messages') = 0
    BY <2>1, Zenon
  <2>3. QED BY <1>1, <2>1, <2>2 DEF CapacityInv, CapacityRespected, TypeOK
<1>8. CASE SelfStop(w) \/ StopCell(w) \/ CompleteStop(w) \/ CloseCell(w)
  <2>1. /\ UNCHANGED <<messages, inFlight, closed, batch, systemBatch>>
        /\ \E pc \in BatchPc : wpc' = [wpc EXCEPT ![w] = pc]
    BY <1>8, Zenon DEF SelfStop, StopCell, CompleteStop, CloseCell, Goto, BatchPc
  <2>2. \A v \in Workers : wpc'[v] = wpc[v] \/ wpc'[v] \in BatchPc
    BY <2>1, Zenon DEF TypeOK
  <2>3. QED BY <2>1, <2>2, CapacityFrame, Zenon
<1>9. CASE \/ TakeActivation(w) \/ Enter(w) \/ GiveUp(w) \/ Recheck(w)
           \/ Redispatch(w) \/ RedispatchRefused(w) \/ RecoverLocked(w)
           \/ RecoverSystem(w) \/ Handoff(w) \/ Finish(w)
  <2>1. /\ UNCHANGED <<messages, inFlight, closed, batch, systemBatch>>
        /\ wpc[w] \notin BatchPc
        /\ \A v \in Workers : v # w => wpc'[v] = wpc[v]
    BY <1>9, Zenon DEF TakeActivation, Enter, GiveUp, Recheck, Redispatch, RedispatchRefused,
       RecoverLocked, RecoverSystem, Handoff, Finish, Goto, BatchPc, TypeOK
  <2>2. batch[w] = <<>>
    BY <2>1, Zenon DEF CapacityInv
  <2>3. QED BY <2>1, <2>2, CapacityFrame, Zenon
<1>10. QED BY <1>3, <1>4, <1>5, <1>6, <1>7, <1>8, <1>9, Zenon DEF WorkerStep

\* Only the running worker holds extracted messages, and their places are kept.
LEMMA CapacityInductive == Spec => []CapacityInv
<1>1. Init => CapacityInv
  BY MailboxAssumption DEF Init, CapacityInv, CapacityRespected
<1>2. TypeOK /\ OneInvocationAtATime /\ CapacityInv /\ [Next]_vars => CapacityInv'
  <2> SUFFICES ASSUME TypeOK, OneInvocationAtATime, CapacityInv, [Next]_vars
               PROVE  CapacityInv'
    BY Zenon
  <2>1. CASE StopDispatcher \/ AbandonActivation \/ UNCHANGED vars
    <3>1. UNCHANGED <<messages, inFlight, closed, workerVars>>
      BY <2>1, Zenon DEF StopDispatcher, AbandonActivation, vars, mailboxVars
    <3>2. QED BY <3>1, CapacityFrame, Zenon DEF workerVars
  <2>2. QED BY <2>1, CapacityThread, CapacityWorker, Zenon DEF Next
<1>3. QED BY <1>1, <1>2, TypeCorrect, SingleThreaded, PTL DEF Spec

\* DefaultMailbox holds at most _capacity user messages, queued and extracted
\* together: what _enqueue tests remains true of a batch that is put back.
THEOREM CapacityCorrect == Spec => []CapacityRespected
<1>1. CapacityInv => CapacityRespected
  BY Zenon DEF CapacityInv
<1>2. QED BY <1>1, CapacityInductive, PTL

-----------------------------------------------------------------------------
(* Stopping, and the abort of a start: what is known of the queues then.   *)

Stops == {"STOPPING", "STOPPED"}
StopPc == {"stopCell", "stopMailbox", "stopping", "closeCell", "closeMailbox"}

\* A start is aborted after the dispatcher has stopped: the mailbox stays
\* scheduled and nobody runs it any more.
AbortInv ==
    \A t \in Threads : tpc[t] \in AbortPc =>
        /\ ~up /\ scheduled /\ activations = 0 /\ ~inline
        /\ \A u \in Threads : ~ThreadOwns(u)
        /\ \A w \in Workers : ~WorkerOwns(w)
        /\ tpc[t] # "abort" => actor = "STOPPED"

\* A mailbox that accepts no user message holds none, and is that of a stopping
\* actor; a closed one is empty.  An actor that stops has its user messages
\* stopped before the batch goes on, so that what the batch then gives up has
\* nothing queued behind it, and only a batch of an actor that goes on is put
\* back.
StopInv ==
    /\ ~accepting => messages = <<>> /\ actor \in Stops
    /\ closed => ~accepting /\ system = <<>>
    /\ actor \in Stops /\ accepting =>
          \/ \E w \in Workers : wpc[w] \in {"stopCell", "stopMailbox"}
          \/ \E t \in Threads : tpc[t] = "abortStop"
    /\ \A w \in Workers :
          /\ wpc[w] \in StopPc => actor \in Stops
          /\ wpc[w] \in {"closeCell", "closeMailbox"} => ~accepting
          /\ wpc[w] = "restore" /\ batch[w] # <<>> => ~systemBatch[w] /\ actor \notin Stops
          /\ wpc[w] \in {"restoreFailed", "selfStopFailed"} /\ ~systemBatch[w] =>
                actor = "FAILED"
    /\ \A t \in Threads : tpc[t] \in {"abortCell", "abortClose"} => ~accepting

\* A thread that aborts leaves the mailbox to nobody, and nobody takes it up.
LEMMA AbortThread ==
    ASSUME TypeOK, SchedulingInv, SchedulingInv', AbortInv,
           NEW t \in Threads, Tell(t) \/ ThreadStep(t)
    PROVE  AbortInv'
<1> USE DEF mailboxVars, cellVars, dispatcherVars, actorVars, threadVars, workerVars,
            historyVars
<1>0. tpc \in [Threads -> ThreadPc]
  BY Zenon DEF TypeOK
<1>1. CASE Tell(t) \/ EnqueueStopping(t) \/ EnqueueFull(t) \/ EnqueueQueued(t)
  <2>1. /\ UNCHANGED <<up, scheduled, activations, inline, actor, wpc>>
        /\ \E pc \in {"idle", "enqueue"} : tpc' = [tpc EXCEPT ![t] = pc]
    BY <1>1, Zenon DEF Tell, EnqueueStopping, EnqueueFull, EnqueueQueued
  <2>2. QED BY <1>0, <2>1, Zenon DEF AbortInv, AbortPc, ThreadOwns, WorkerOwns
<1>2. CASE EnqueueScheduled(t)
  <2>1. ~scheduled /\ tpc' = [tpc EXCEPT ![t] = "dispatch"]
    BY <1>2, Zenon DEF EnqueueScheduled, Queued
  <2>2. QED BY <1>0, <2>1, Zenon DEF AbortInv, AbortPc
<1>3. CASE Dispatch(t) \/ DispatchRefused(t) \/ Fallback(t)
  <2>1. /\ ThreadOwns(t)
        /\ \E pc \in {"idle", "rollback"} : tpc' = [tpc EXCEPT ![t] = pc]
    BY <1>3, Zenon DEF Dispatch, DispatchRefused, Fallback, ThreadOwns
  <2>2. QED BY <1>0, <2>1, Zenon DEF AbortInv, AbortPc
<1>4. CASE Rollback(t) \/ FallbackFails(t)
  <2>1. /\ ThreadOwns(t) /\ UNCHANGED <<up, activations, inline, wpc>>
        /\ \E pc \in {"idle", "abort", "fallback"} : tpc' = [tpc EXCEPT ![t] = pc]
    BY <1>4, Zenon DEF Rollback, FallbackFails, ThreadOwns, AfterRaise
  <2>2. tpc'[t] = "abort" => scheduled'
    <3>1. scheduled
      BY <2>1, Zenon DEF SchedulingInv
    <3>2. CASE FallbackFails(t)
      BY <3>1, <3>2, Zenon DEF FallbackFails
    <3>3. CASE Rollback(t)
      <4>1. SUFFICES ASSUME tpc'[t] = "abort" PROVE scheduled'
        BY Zenon
      <4>2. ~IsUser(current[t])
        <5>1. current[t] = PreStart
          BY <1>0, <3>3, <4>1, Zenon DEF Rollback, AfterRaise
        <5>2. QED BY <5>1 DEF IsUser, PreStart, UserKinds
      <4>3. CASE \E i \in DOMAIN system : system[i] = Entry(current[t])
        <5>1. system # <<>>
          BY <4>3
        <5>2. tpc' = [tpc EXCEPT ![t] = "fallback"]
          BY <3>3, <4>2, <4>3, <5>1, Zenon DEF Rollback
        <5>3. QED BY <1>0, <4>1, <5>2, Zenon
      <4>4. CASE ~\E i \in DOMAIN system : system[i] = Entry(current[t])
        BY <3>1, <3>3, <4>2, <4>4, Zenon DEF Rollback
      <4>5. QED BY <4>3, <4>4, Zenon
    <3>4. QED BY <1>4, <3>2, <3>3, Zenon
  <2>3. \A u \in Threads : u # t => ~ThreadOwns(u) /\ tpc[u] \notin AbortPc
    BY <2>1, Zenon DEF SchedulingInv, AtMostOneActivation, AbortInv
  <2>4. activations = 0 /\ ~inline /\ \A w \in Workers : ~WorkerOwns(w)
    BY <2>1, Zenon DEF SchedulingInv, AtMostOneActivation
  <2>5. tpc'[t] \in AbortPc => ~up'
    BY Zenon DEF SchedulingInv
  <2>6. QED BY <1>0, <2>1, <2>2, <2>3, <2>4, <2>5, Zenon DEF AbortInv, AbortPc, ThreadOwns,
               WorkerOwns
<1>5. CASE AbortStart(t) \/ AbortStop(t) \/ AbortCell(t) \/ AbortClose(t)
  <2>1. /\ tpc[t] \in AbortPc /\ UNCHANGED <<up, scheduled, activations, inline, wpc>>
        /\ \E pc \in {"abortStop", "abortCell", "abortClose", "idle"} :
              tpc' = [tpc EXCEPT ![t] = pc]
        /\ actor' = "STOPPED" \/ (actor' = actor /\ tpc[t] # "abort")
    BY <1>5, Zenon DEF AbortStart, AbortStop, AbortCell, AbortClose, StopUserMessages,
       Close, AbortPc
  <2>2. QED BY <1>0, <2>1, Zenon DEF AbortInv, AbortPc, ThreadOwns, WorkerOwns
<1>6. QED BY <1>1, <1>2, <1>3, <1>4, <1>5, Zenon DEF ThreadStep

\* Nor do the workers: an aborted mailbox has no activation and no request.
LEMMA AbortWorker ==
    ASSUME TypeOK, AbortInv, NEW w \in Workers, WorkerStep(w)
    PROVE  AbortInv'
<1> USE DEF mailboxVars, cellVars, dispatcherVars, actorVars, threadVars, workerVars,
            historyVars
<1>0. wpc \in [Workers -> WorkerPc]
  BY Zenon DEF TypeOK
<1>1. UNCHANGED tpc
  BY Zenon DEF WorkerStep, TakeActivation, Enter, TakeBatch, GiveUp, InvokeUser,
     InvokeSystem, SelfStop,
         BatchReturns, StopCell, StopMailbox, CompleteStop, CloseCell, CloseMailbox, Restore,
         Recheck, Redispatch, RedispatchRefused, RecoverLocked, RecoverSystem, Handoff, Finish
<1>2. SUFFICES ASSUME NEW t \in Threads, tpc[t] \in AbortPc PROVE AbortInv'
  BY <1>1, Zenon DEF AbortInv
<1>3. activations = 0 /\ ~inline /\ ~WorkerOwns(w)
  BY <1>2, Zenon DEF AbortInv
<1>4. CASE Handoff(w) \/ Finish(w)
  <2>1. /\ UNCHANGED <<up, scheduled, activations, actor>> /\ ~inline'
        /\ \E pc \in {"finish", "idle"} : wpc' = [wpc EXCEPT ![w] = pc]
    BY <1>3, <1>4, Zenon DEF Handoff, Finish, Goto
  <2>2. QED BY <1>0, <1>1, <2>1, Zenon DEF AbortInv, ThreadOwns, WorkerOwns, RunPc
<1>5. CASE ~Handoff(w) /\ ~Finish(w)
  <2>1. wpc[w] \in RunPc \cup {"enter"} \/ activations > 0
    BY <1>5, Zenon DEF WorkerStep, TakeActivation, Enter, TakeBatch, GiveUp, InvokeUser,
       InvokeSystem,
         SelfStop, BatchReturns, StopCell, StopMailbox, CompleteStop, CloseCell, CloseMailbox,
         Restore, Recheck, Redispatch, RedispatchRefused, RecoverLocked, RecoverSystem, RunPc
  <2>2. QED BY <1>3, <2>1 DEF WorkerOwns
<1>6. QED BY <1>4, <1>5, Zenon

\* The senders keep StopInv: nothing joins a queue that is closed to it.
LEMMA StopThread ==
    ASSUME TypeOK, AbortInv, StopInv, NEW t \in Threads, Tell(t) \/ ThreadStep(t)
    PROVE  StopInv'
<1> USE DEF mailboxVars, cellVars, dispatcherVars, actorVars, threadVars, workerVars,
            historyVars
<1>0. tpc \in [Threads -> ThreadPc]
  BY Zenon DEF TypeOK
<1>1. CASE \/ Tell(t) \/ EnqueueStopping(t) \/ EnqueueFull(t) \/ EnqueueQueued(t)
           \/ EnqueueScheduled(t) \/ Dispatch(t) \/ DispatchRefused(t) \/ Rollback(t)
           \/ Fallback(t) \/ FallbackFails(t)
  <2>1. /\ tpc[t] \notin AbortPc
        /\ \E pc \in {"idle", "enqueue", "dispatch", "rollback", "fallback", "abort"} :
              tpc' = [tpc EXCEPT ![t] = pc]
    BY <1>1, Zenon DEF Tell, EnqueueStopping, EnqueueFull, EnqueueQueued, EnqueueScheduled,
       Dispatch,
          DispatchRefused, Rollback, Fallback, FallbackFails, AfterRaise, AbortPc
  <2>2. UNCHANGED <<accepting, closed, actor, wpc, batch, systemBatch>>
    BY <1>1, Zenon DEF Tell, EnqueueStopping, EnqueueFull, EnqueueQueued, EnqueueScheduled,
       Dispatch,
          DispatchRefused, Rollback, Fallback, FallbackFails
  <2>3. (~accepting => messages' = messages) /\ (closed => system' = system)
    <3>1. CASE EnqueueQueued(t) \/ EnqueueScheduled(t)
      BY <3>1, Zenon DEF EnqueueQueued, EnqueueScheduled, Put, Stopping
    <3>2. CASE Rollback(t)
      <4>1. ~accepting => messages = <<>>
        BY Zenon DEF StopInv
      <4>2. messages = <<>> => ~\E i \in DOMAIN messages : messages[i] = Entry(current[t])
        OBVIOUS
      <4>3. QED BY <3>2, <4>1, <4>2, Zenon DEF Rollback
    <3>3. CASE ~Rollback(t) /\ ~EnqueueQueued(t) /\ ~EnqueueScheduled(t)
      BY <1>1, <3>3, Zenon DEF Tell, EnqueueStopping, EnqueueFull, Dispatch,
            DispatchRefused, Fallback, FallbackFails
    <3>4. QED BY <3>1, <3>2, <3>3, Zenon
  <2>4. \A u \in Threads : tpc[u] = "abortStop" <=> tpc'[u] = "abortStop"
    BY <1>0, <2>1, Zenon DEF AbortPc
  <2>5. \A u \in Threads : tpc'[u] \in {"abortCell", "abortClose"} => tpc[u] = tpc'[u]
    BY <1>0, <2>1, Zenon
  <2>6. QED BY <2>2, <2>3, <2>4, <2>5, Zenon DEF StopInv
<1>2. CASE AbortStart(t)
  <2>1. /\ tpc' = [tpc EXCEPT ![t] = "abortStop"] /\ actor' = "STOPPED" /\ tpc[t] \in AbortPc
        /\ UNCHANGED <<messages, system, accepting, closed, wpc, batch, systemBatch>>
    BY <1>2, Zenon DEF AbortStart, AbortPc
  <2>2. \A w \in Workers : wpc[w] \notin RunPc
    BY <2>1, Zenon DEF AbortInv, WorkerOwns
  <2>3. QED BY <1>0, <2>1, <2>2, Zenon DEF StopInv, StopPc, Stops, RunPc
<1>3. CASE AbortStop(t) \/ AbortCell(t) \/ AbortClose(t)
  <2>1. /\ actor = "STOPPED" /\ tpc[t] \in AbortPc
        /\ \A w \in Workers : wpc[w] \notin RunPc
    BY <1>3, Zenon DEF AbortInv, AbortStop, AbortCell, AbortClose, AbortPc, WorkerOwns
  <2>2. /\ UNCHANGED <<actor, wpc, batch, systemBatch>>
        /\ \/ ~accepting' /\ messages' = <<>> /\ closed' /\ system' = <<>>
           \/ ~accepting' /\ messages' = <<>> /\ UNCHANGED <<closed, system>>
           \/ tpc[t] = "abortCell" /\ UNCHANGED <<accepting, messages, closed, system>>
    BY <1>3, Zenon DEF AbortStop, AbortCell, AbortClose, StopUserMessages, Close
  <2>3. ~accepting' /\ messages' = <<>> /\ actor' \in Stops
    BY <2>1, <2>2 DEF StopInv, Stops
  <2>4. QED BY <2>1, <2>2, <2>3 DEF StopInv, StopPc, RunPc
<1>4. QED BY <1>1, <1>2, <1>3, Zenon DEF ThreadStep


\* LocalActorContext._invoke_system starts a stop only at stopCell, and nothing
\* brings a stopping actor back.
LEMMA SystemEffectStops ==
    ASSUME TypeOK, NEW w \in Workers, NEW kind, actor # "STOPPED", wpc[w] = "invoke",
           SystemEffect(w, kind)
    PROVE  /\ actor \in Stops => actor' = actor
           /\ wpc' = wpc \/ \E pc \in {"invoke", "selfStop", "restoreFailed", "selfStopFailed",
                                       "stopCell", "stopping"} : wpc' = [wpc EXCEPT ![w] = pc]
           /\ actor \notin Stops /\ actor' \in Stops => wpc'[w] = "stopCell"
           /\ wpc'[w] \in {"stopCell", "stopping"} => actor' \in Stops
<1>0. wpc \in [Workers -> WorkerPc] /\ actor \in ActorState
  BY Zenon DEF TypeOK
<1>1. CASE kind = "PreStart" /\ actor = "STARTING" /\ ((Starts /\ UNCHANGED wpc) \/ Fails(w))
  BY <1>0, <1>1, Zenon DEF Starts, Fails, AfterFailure, Goto, Stops
<1>2. CASE kind = "Stop" /\ actor # "STOPPING" /\ actor' = "STOPPING" /\ Goto(w, "stopCell")
  BY <1>0, <1>2, Zenon DEF Goto, Stops
<1>3. CASE actor = "STOPPING" /\ Goto(w, "stopping") /\ UNCHANGED actorVars
  BY <1>0, <1>3, Zenon DEF Goto, Stops, actorVars
<1>4. CASE actor # "STOPPING" /\ CompleteRestart(w)
  BY <1>0, <1>4, Zenon DEF Goto, Stops, CompleteRestart, Starts
<1>5. CASE actor # "STOPPING" /\ actor' = "STARTING" /\ UNCHANGED wpc
  BY <1>0, <1>5, Zenon DEF Stops
<1>6. CASE Fails(w)
  BY <1>0, <1>6, Zenon DEF Fails, AfterFailure, Goto, Stops
<1>7. CASE UNCHANGED <<actor, wpc>>
  BY <1>0, <1>7, Zenon DEF Stops
<1>8. QED
  BY <1>1, <1>2, <1>3, <1>4, <1>5, <1>6, <1>7, Zenon DEF SystemEffect, actorVars

\* The workers keep StopInv.
LEMMA StopWorker ==
    ASSUME TypeOK, SchedulingInv, AbortInv, CapacityInv, StopInv,
           NEW w \in Workers, WorkerStep(w)
    PROVE  StopInv'
<1> USE DEF mailboxVars, cellVars, dispatcherVars, actorVars, threadVars, workerVars,
            historyVars
<1>0. wpc \in [Workers -> WorkerPc] /\ batch \in [Workers -> Seq(Message)] /\ actor \in ActorState
  BY Zenon DEF TypeOK
<1>1. wpc[w] \in RunPc => \A v \in Workers : v # w => wpc[v] \notin RunPc
  BY Zenon DEF SchedulingInv, OneInvocationAtATime, WorkerRuns
<1>2. wpc[w] \in RunPc /\ wpc[w] \notin {"stopCell", "stopMailbox"} /\ actor \in Stops =>
         ~accepting /\ messages = <<>>
  <2>1. SUFFICES ASSUME wpc[w] \in RunPc, wpc[w] \notin {"stopCell", "stopMailbox"},
                        actor \in Stops, accepting
                 PROVE  FALSE
    BY Zenon DEF StopInv
  <2>2. CASE \E v \in Workers : wpc[v] \in {"stopCell", "stopMailbox"}
    BY <1>1, <2>1, <2>2, Zenon DEF RunPc
  <2>3. CASE \E t \in Threads : tpc[t] = "abortStop"
    BY <2>1, <2>3, Zenon DEF AbortInv, AbortPc, WorkerOwns
  <2>4. QED BY <2>1, <2>2, <2>3, Zenon DEF StopInv
<1>3. UNCHANGED tpc
  BY Zenon DEF WorkerStep, TakeActivation, Enter, TakeBatch, GiveUp, InvokeUser,
     InvokeSystem, SelfStop,
         BatchReturns, StopCell, StopMailbox, CompleteStop, CloseCell, CloseMailbox, Restore,
         Recheck, Redispatch, RedispatchRefused, RecoverLocked, RecoverSystem, Handoff, Finish
<1>4. CASE \/ TakeActivation(w) \/ Enter(w) \/ GiveUp(w) \/ Recheck(w)
           \/ Redispatch(w) \/ RedispatchRefused(w) \/ RecoverLocked(w)
           \/ RecoverSystem(w) \/ Handoff(w) \/ Finish(w)
  <2>1. UNCHANGED <<messages, system, accepting, closed, actor, batch, systemBatch>>
    BY <1>4, Zenon DEF TakeActivation, Enter, GiveUp, Recheck, Redispatch, RedispatchRefused,
       RecoverLocked, RecoverSystem, Handoff, Finish
  <2>2. /\ wpc[w] \notin {"stopCell", "stopMailbox"}
        /\ \E pc \in {"idle", "enter", "take", "finish", "redispatch", "recoverDispatch", "handoff",
                      "recoverLocked", "recoverSystem"} : wpc' = [wpc EXCEPT ![w] = pc]
    BY <1>4, Zenon DEF TakeActivation, Enter, GiveUp, Recheck, Redispatch, RedispatchRefused,
       RecoverLocked, RecoverSystem, Handoff, Finish, Goto
  <2>3. \A v \in Workers : wpc[v] \in {"stopCell", "stopMailbox"} => wpc'[v] = wpc[v]
    BY <1>0, <2>2, Zenon
  <2>4. \A v \in Workers : wpc'[v] \in StopPc \cup {"restore", "restoreFailed", "selfStopFailed"} =>
           wpc'[v] = wpc[v]
    BY <1>0, <2>2, Zenon DEF StopPc
  <2>5. QED BY <1>3, <2>1, <2>3, <2>4, Zenon DEF StopInv, StopPc
<1>5. CASE TakeBatch(w)
  <2>1. /\ ~NothingToRun /\ wpc[w] = "take" /\ wpc' = [wpc EXCEPT ![w] = "invoke"]
        /\ UNCHANGED <<accepting, closed, actor>>
        /\ system # <<>> => messages' = messages
        /\ \A v \in Workers : v # w => batch'[v] = batch[v] /\ systemBatch'[v] = systemBatch[v]
    BY <1>5, Zenon DEF TakeBatch, Goto, TypeOK, LifecycleFirst
  <2>2. ~closed /\ (~accepting => messages' = <<>>)
    BY <2>1, Zenon DEF NothingToRun, StopInv
  <2>3. \A v \in Workers : wpc'[v] # wpc[v] => v = w /\ wpc'[v] = "invoke"
    BY <1>0, <2>1, Zenon
  <2>4. actor \in Stops => ~accepting
    BY <1>2, <2>1, Zenon DEF RunPc
  <2>5. \A v \in Workers : wpc'[v] \notin {"stopCell", "stopMailbox", "stopping", "closeCell",
                                           "closeMailbox", "restore", "restoreFailed", "selfStopFailed"}
    BY <1>0, <1>1, <2>1, Zenon DEF RunPc
  <2>6. QED BY <1>3, <2>1, <2>2, <2>4, <2>5, Zenon DEF StopInv, StopPc
<1>6. CASE InvokeUser(w)
  <2>1. /\ wpc[w] = "invoke" /\ ~systemBatch[w] /\ actor = "RUNNING"
        /\ UNCHANGED <<messages, system, accepting, closed, systemBatch>>
    BY <1>6, Zenon DEF InvokeUser, CanProcess
  <2>2. accepting /\ ~closed
    BY <2>1, Zenon DEF StopInv, Stops
  <2>3. \/ wpc' = wpc /\ actor' = "RUNNING"
        \/ /\ actor' = "FAILED"
           /\ \E pc \in {"invoke", "selfStop", "restoreFailed", "selfStopFailed"} :
                 wpc' = [wpc EXCEPT ![w] = pc]
        \/ actor' = "STOPPING" /\ wpc' = [wpc EXCEPT ![w] = "stopCell"]
    BY <1>6, <2>1, Zenon DEF InvokeUser, AfterFailure, Goto
  <2>4. \A v \in Workers : v # w => wpc'[v] = wpc[v] /\ wpc[v] \notin RunPc
    BY <1>0, <1>1, <2>1, <2>3, Zenon DEF RunPc
  <2>5. actor' = "FAILED" => wpc'[w] \in {"invoke", "selfStop", "restoreFailed", "selfStopFailed"}
    BY <1>0, <2>3, Zenon
  <2>6. actor' = "STOPPING" => wpc'[w] = "stopCell"
    BY <1>0, <2>3, Zenon
  <2>7. actor' = "RUNNING" => wpc'[w] = "invoke"
    BY <2>1, <2>3, Zenon
  <2>8. QED BY <1>3, <2>1, <2>2, <2>3, <2>4, <2>5, <2>6, <2>7, ZenonT(60) DEF StopInv, StopPc,
               Stops, RunPc
<1>7. CASE InvokeSystem(w)
  <2>1. /\ wpc[w] = "invoke" /\ systemBatch[w]
        /\ UNCHANGED <<messages, system, accepting, closed, systemBatch>>
    BY <1>7, Zenon DEF InvokeSystem
  <2>2. /\ actor \in Stops => actor' = actor
        /\ wpc' = wpc \/ \E pc \in {"invoke", "selfStop", "restoreFailed", "selfStopFailed",
                                    "stopCell", "stopping"} : wpc' = [wpc EXCEPT ![w] = pc]
        /\ actor \notin Stops /\ actor' \in Stops => wpc'[w] = "stopCell"
        /\ wpc'[w] \in {"stopCell", "stopping"} => actor' \in Stops
    <3>1. CASE actor = "STOPPED"
      BY <1>7, <2>1, <3>1, Zenon DEF InvokeSystem, Stops
    <3>2. CASE actor # "STOPPED"
      <4>1. SystemEffect(w, Head(batch[w]).kind)
        BY <1>7, <3>2, Zenon DEF InvokeSystem
      <4>2. QED BY <2>1, <3>2, <4>1, SystemEffectStops, Zenon
    <3>3. QED BY <3>1, <3>2, Zenon
  <2>3. \A v \in Workers : v # w => wpc'[v] = wpc[v] /\ wpc[v] \notin RunPc
    BY <1>0, <1>1, <2>1, <2>2, Zenon DEF RunPc
  <2>4. wpc'[w] \in {"invoke", "selfStop", "restoreFailed", "selfStopFailed", "stopCell", "stopping"}
    BY <1>0, <2>1, <2>2, Zenon
  <2>5. actor \in Stops => ~accepting
    BY <1>2, <2>1, Zenon DEF RunPc
  <2>6. ~accepting => messages = <<>> /\ actor \in Stops
    BY Zenon DEF StopInv
  <2>7. \A v \in Workers : wpc'[v] \notin {"closeCell", "closeMailbox", "restore"}
    BY <2>3, <2>4, Zenon DEF RunPc
  <2>8. QED BY <1>3, <2>1, <2>2, <2>3, <2>4, <2>5, <2>6, <2>7, ZenonT(60) DEF StopInv,
               StopPc, RunPc
<1>8. CASE SelfStop(w)
  <2>1. /\ UNCHANGED <<messages, accepting, closed, actor, batch, systemBatch>>
        /\ closed => system' = system
        /\ \/ wpc[w] = "selfStop" /\ wpc' = [wpc EXCEPT ![w] = "invoke"]
           \/ wpc[w] = "selfStopFailed" /\ wpc' = [wpc EXCEPT ![w] = "restoreFailed"]
    BY <1>8, Zenon DEF SelfStop, Goto
  <2>2. \A v \in Workers : \/ wpc'[v] = wpc[v]
                           \/ wpc'[v] = "invoke" /\ wpc[v] = "selfStop"
                           \/ wpc'[v] = "restoreFailed" /\ wpc[v] = "selfStopFailed"
    BY <1>0, <2>1, Zenon
  <2>3. QED BY <1>3, <2>1, <2>2, Zenon DEF StopInv, StopPc
<1>9. CASE BatchReturns(w)
  <2>1. /\ UNCHANGED <<messages, system, accepting, closed, actor, systemBatch>>
        /\ wpc[w] = "invoke" /\ wpc' = [wpc EXCEPT ![w] = "restore"]
        /\ \A v \in Workers : v # w => batch'[v] = batch[v]
        /\ batch'[w] # <<>> => ~systemBatch[w] /\ actor \in {"STARTING", "RUNNING", "FAILED"}
    BY <1>0, <1>9, Zenon DEF BatchReturns, Goto
  <2>2. \A v \in Workers : v # w => wpc'[v] = wpc[v] /\ wpc[v] \notin RunPc
    BY <1>0, <1>1, <2>1, Zenon DEF RunPc
  <2>3. wpc'[w] = "restore"
    BY <1>0, <2>1, Zenon
  <2>4. actor \in Stops => ~accepting
    BY <1>2, <2>1, Zenon DEF RunPc
  <2>5. QED BY <1>3, <2>1, <2>2, <2>3, <2>4, ZenonT(60) DEF StopInv, StopPc, Stops, RunPc
<1>10. CASE StopCell(w) \/ CompleteStop(w) \/ CloseCell(w)
  <2>1. /\ UNCHANGED <<messages, system, accepting, closed, batch, systemBatch>>
        /\ \/ wpc[w] = "stopCell" /\ wpc' = [wpc EXCEPT ![w] = "stopMailbox"] /\ actor' = actor
           \/ wpc[w] = "stopping" /\ wpc' = [wpc EXCEPT ![w] = "invoke"] /\ actor' = actor
           \/ wpc[w] = "stopping" /\ wpc' = [wpc EXCEPT ![w] = "stopCell"] /\ actor' = "STOPPED"
           \/ wpc[w] = "closeCell" /\ wpc' = [wpc EXCEPT ![w] = "closeMailbox"] /\ actor' = actor
    BY <1>10, Zenon DEF StopCell, CompleteStop, CloseCell, Goto
  <2>2. \A v \in Workers : v # w => wpc'[v] = wpc[v] /\ wpc[v] \notin RunPc
    BY <1>0, <1>1, <2>1, Zenon DEF RunPc
  <2>3. actor \in Stops /\ actor' \in Stops
    BY <2>1, Zenon DEF StopInv, StopPc, Stops
  <2>4. wpc[w] # "stopCell" => ~accepting /\ messages = <<>>
    BY <1>2, <2>1, <2>3, Zenon DEF RunPc
  <2>5. \/ wpc[w] = "stopCell" /\ wpc'[w] = "stopMailbox"
        \/ wpc[w] # "stopCell" /\ wpc'[w] \in {"invoke", "stopCell", "closeMailbox"}
    BY <1>0, <2>1, Zenon
  <2>6. QED BY <1>3, <2>1, <2>2, <2>3, <2>4, <2>5, ZenonT(60) DEF StopInv, StopPc, RunPc
<1>11. CASE StopMailbox(w) \/ CloseMailbox(w)
  <2>1. /\ UNCHANGED <<actor, batch, systemBatch>> /\ ~accepting' /\ messages' = <<>>
        /\ (closed' /\ system' = <<>>) \/ UNCHANGED <<closed, system>>
        /\ wpc[w] \in {"stopMailbox", "closeMailbox"}
        /\ \E pc \in {"closeCell", "stopping", "invoke"} : wpc' = [wpc EXCEPT ![w] = pc]
    BY <1>11, Zenon DEF StopMailbox, CloseMailbox, StopUserMessages, Close, Goto
  <2>2. \A v \in Workers : v # w => wpc'[v] = wpc[v] /\ wpc[v] \notin RunPc
    BY <1>0, <1>1, <2>1, Zenon DEF RunPc
  <2>3. actor' \in Stops
    BY <2>1, Zenon DEF StopInv, StopPc
  <2>4. wpc'[w] \in {"closeCell", "stopping", "invoke"}
    BY <1>0, <2>1, Zenon
  <2>5. QED BY <1>3, <2>1, <2>2, <2>3, <2>4 DEF StopInv, StopPc, RunPc
<1>12. CASE Restore(w)
  <2>1. /\ UNCHANGED <<accepting, closed, actor, systemBatch>>
        /\ wpc[w] \in {"restore", "restoreFailed"}
        /\ \E pc \in {"recheck", "recover"} : wpc' = [wpc EXCEPT ![w] = pc]
        /\ closed => system' = system
        /\ messages' = messages \/ (~closed /\ ~systemBatch[w] /\ messages' = Wrap(batch[w]) \o messages)
    BY <1>12, Zenon DEF Restore, Goto, PutBack
  <2>2. \A v \in Workers : v # w => wpc'[v] = wpc[v] /\ wpc[v] \notin RunPc
    BY <1>0, <1>1, <2>1, Zenon DEF RunPc
  <2>3. wpc'[w] \in {"recheck", "recover"}
    BY <1>0, <2>1, Zenon
  <2>4. actor \in Stops => ~accepting
    BY <1>2, <2>1, Zenon DEF RunPc
  <2>5. ~accepting => messages' = <<>>
    <3>1. SUFFICES ASSUME ~accepting, messages' # messages PROVE messages' = <<>>
      BY Zenon DEF StopInv
    <3>2. batch[w] = <<>> /\ messages = <<>>
      BY <2>1, <3>1, Zenon DEF StopInv, Stops
    <3>3. Wrap(<<>>) = <<>>
      BY DEF Wrap
    <3>4. QED BY <2>1, <3>1, <3>2, <3>3
  <2>6. QED BY <1>3, <2>1, <2>2, <2>3, <2>4, <2>5, Zenon DEF StopInv, StopPc, RunPc
<1>13. QED
  BY <1>4, <1>5, <1>6, <1>7, <1>8, <1>9, <1>10, <1>11, <1>12, ZenonT(60) DEF WorkerStep


\* StopInv and AbortInv hold in every behaviour.
LEMMA StoppingCorrect == Spec => [](AbortInv /\ StopInv)
<1>1. Init => AbortInv /\ StopInv
  BY Zenon DEF Init, AbortInv, StopInv, AbortPc, StopPc, Stops
<1>2. TypeOK /\ SchedulingInv /\ SchedulingInv' /\ CapacityInv /\ AbortInv /\ StopInv /\ [Next]_vars
         => AbortInv' /\ StopInv'
  <2> SUFFICES ASSUME TypeOK, SchedulingInv, SchedulingInv', CapacityInv, AbortInv, StopInv,
                      [Next]_vars
               PROVE  AbortInv' /\ StopInv'
    BY Zenon
  <2>1. CASE StopDispatcher \/ AbandonActivation \/ UNCHANGED vars
    <3>1. /\ UNCHANGED <<messages, system, scheduled, inline, accepting, closed, actor, tpc, wpc,
                         batch, systemBatch>>
          /\ up' => up
          /\ activations = 0 => activations' = 0
      BY <2>1 DEF StopDispatcher, AbandonActivation, vars, mailboxVars, dispatcherVars,
         actorVars,
            threadVars, workerVars
    <3>2. QED BY <3>1, ZenonT(60) DEF AbortInv, StopInv, ThreadOwns, WorkerOwns
  <2>2. CASE \E t \in Threads : Tell(t) \/ ThreadStep(t)
    BY <2>2, AbortThread, StopThread, Zenon
  <2>3. CASE \E w \in Workers : WorkerStep(w)
    BY <2>3, AbortWorker, StopWorker, Zenon
  <2>4. QED BY <2>1, <2>2, <2>3, Zenon DEF Next
<1>3. QED BY <1>1, <1>2, TypeCorrect, SchedulingCorrect, CapacityInductive, PTL DEF Spec

-----------------------------------------------------------------------------
(* The queues of Inbox: what a worker has extracted, then what is queued.  *)

\* The messages of a queue in order, through the operations on the deques.
LEMMA UnwrapIs ==
    ASSUME NEW q \in Seq(Item)
    PROVE  Len(Unwrap(q)) = Len(q) /\ \A i \in 1..Len(q) : Unwrap(q)[i] = q[i].msg
BY BatchLengths DEF Unwrap

\* Two sequences of messages with the same elements are equal.
LEMMA SameMessages ==
    ASSUME NEW s \in Seq(Message), NEW t \in Seq(Message), Len(s) = Len(t),
           \A i \in 1..Len(s) : s[i] = t[i]
    PROVE  s = t
BY SeqEqual, Zenon

\* A message joins the end.
LEMMA UnwrapAppend ==
    ASSUME NEW q \in Seq(Item), NEW item \in Item
    PROVE  Unwrap(Append(q, item)) = Append(Unwrap(q), item.msg)
<1>1. PICK p \in Seq(Item) : p = Append(q, item)
  BY AppendType, Zenon
<1>2. Len(q) \in Nat /\ Len(p) = Len(q) + 1 /\ p[Len(q) + 1] = item /\ \A i \in 1..Len(q) : p[i] = q[i]
  BY <1>1
<1>3. PICK u \in Seq(Message) : u = Unwrap(q) /\ Len(u) = Len(q) /\ \A i \in 1..Len(q) : u[i] = q[i].msg
  BY UnwrapType, UnwrapIs, Zenon
<1>4. PICK v \in Seq(Message) : v = Unwrap(p) /\ Len(v) = Len(p) /\ \A i \in 1..Len(p) : v[i] = p[i].msg
  BY UnwrapType, UnwrapIs, Zenon
<1>5. PICK m \in Message : m = item.msg
  BY Zenon DEF Item
<1>6. Append(u, m) \in Seq(Message) /\ Len(Append(u, m)) = Len(v)
  BY <1>2, <1>3, <1>4
<1>7. \A i \in 1..Len(v) : v[i] = Append(u, m)[i]
  BY <1>2, <1>3, <1>4, <1>5
<1>8. v = Append(u, m)
  BY <1>6, <1>7, SameMessages, Zenon
<1>9. QED BY <1>1, <1>3, <1>4, <1>5, <1>8, Zenon

\* One queue behind another.
LEMMA UnwrapConcat ==
    ASSUME NEW p \in Seq(Item), NEW q \in Seq(Item)
    PROVE  Unwrap(p \o q) = Unwrap(p) \o Unwrap(q)
<1>0. PICK a \in Nat, b \in Nat : a = Len(p) /\ b = Len(q)
  BY LenProperties, Zenon
<1>1. /\ p \o q \in Seq(Item) /\ Len(p \o q) = Len(p) + Len(q)
      /\ \A i \in 1..Len(p) + Len(q) : (p \o q)[i] = IF i <= Len(p) THEN p[i] ELSE q[i - Len(p)]
  BY ConcatProperties, Zenon
<1>2. PICK r \in Seq(Item) :
         /\ r = p \o q /\ Len(r) = a + b
         /\ \A i \in 1..a + b : r[i] = IF i <= a THEN p[i] ELSE q[i - a]
  BY <1>0, <1>1, Zenon
<1>3. PICK u \in Seq(Message) : u = Unwrap(p) /\ Len(u) = a /\ \A i \in 1..a : u[i] = p[i].msg
  BY <1>0, UnwrapType, UnwrapIs, Zenon
<1>4. PICK v \in Seq(Message) : v = Unwrap(q) /\ Len(v) = b /\ \A i \in 1..b : v[i] = q[i].msg
  BY <1>0, UnwrapType, UnwrapIs, Zenon
<1>5. PICK x \in Seq(Message) : x = Unwrap(r) /\ Len(x) = a + b /\ \A i \in 1..a + b : x[i] = r[i].msg
  BY <1>2, UnwrapType, UnwrapIs, ZenonT(60)
<1>6. /\ u \o v \in Seq(Message) /\ Len(u \o v) = Len(u) + Len(v)
      /\ \A i \in 1..Len(u) + Len(v) : (u \o v)[i] = IF i <= Len(u) THEN u[i] ELSE v[i - Len(u)]
  BY ConcatProperties, Zenon
<1>7. PICK y \in Seq(Message) :
         /\ y = u \o v /\ Len(y) = a + b
         /\ \A i \in 1..a + b : y[i] = IF i <= a THEN u[i] ELSE v[i - a]
  BY <1>3, <1>4, <1>6, ZenonT(60)
<1>8. \A i \in 1..a + b : x[i] = y[i]
  <2>1. SUFFICES ASSUME NEW i \in 1..a + b PROVE x[i] = y[i]
    BY Zenon
  <2>2. CASE i <= a
    <3>1. i \in 1..a
      BY <2>2
    <3>2. r[i] = p[i] /\ y[i] = u[i]
      BY <1>2, <1>7, <2>2, Zenon
    <3>3. QED BY <1>3, <1>5, <3>1, <3>2, Zenon
  <2>3. CASE ~(i <= a)
    <3>1. i - a \in 1..b
      BY <2>3
    <3>2. r[i] = q[i - a] /\ y[i] = v[i - a]
      BY <1>2, <1>7, <2>3, Zenon
    <3>3. QED BY <1>4, <1>5, <3>1, <3>2, Zenon
  <2>4. QED BY <2>2, <2>3, Zenon
<1>9. x = y
  BY <1>5, <1>7, <1>8, SameMessages, Zenon
<1>10. QED BY <1>2, <1>3, <1>4, <1>5, <1>7, <1>9, Zenon

\* A part of a queue.
LEMMA UnwrapSub ==
    ASSUME NEW q \in Seq(Item), NEW m \in 1..Len(q) + 1, NEW n \in 0..Len(q), m <= n + 1
    PROVE  /\ SubSeq(q, m, n) \in Seq(Item)
           /\ Unwrap(SubSeq(q, m, n)) = SubSeq(Unwrap(q), m, n)
<1>0. Len(q) \in Nat /\ m \in Int /\ n \in Int /\ \A i \in 1..Len(q) : q[i] \in Item
  BY LenProperties, ElementOfSeq
<1>1. \A i \in m..n : i \in 1..Len(q) /\ q[i] \in Item
  BY <1>0
<1>2. PICK size \in Nat : size = n - m + 1 /\ size = (IF m <= n THEN n - m + 1 ELSE 0)
  BY <1>0
<1>3. /\ SubSeq(q, m, n) \in Seq(Item)
      /\ Len(SubSeq(q, m, n)) = IF m <= n THEN n - m + 1 ELSE 0
      /\ \A i \in 1..n - m + 1 : SubSeq(q, m, n)[i] = q[m + i - 1]
  <2>1. m \in Int /\ n \in Int /\ \A i \in m..n : q[i] \in Item
    BY <1>0, <1>1, Zenon
  <2>2. QED BY <2>1, SubSeqProperties, SMTT(45)
<1>4. PICK p \in Seq(Item) : /\ p = SubSeq(q, m, n) /\ Len(p) = size
                             /\ \A i \in 1..size : p[i] = q[m + i - 1]
  BY <1>2, <1>3, Zenon
<1>5. PICK u \in Seq(Message) : u = Unwrap(q) /\ Len(u) = Len(q) /\ \A i \in 1..Len(q) : u[i] = q[i].msg
  BY UnwrapType, UnwrapIs, Zenon
<1>6. \A i \in m..n : u[i] \in Message
  BY <1>1, <1>5, Zenon DEF Item
<1>7. /\ SubSeq(u, m, n) \in Seq(Message)
      /\ Len(SubSeq(u, m, n)) = IF m <= n THEN n - m + 1 ELSE 0
      /\ \A i \in 1..n - m + 1 : SubSeq(u, m, n)[i] = u[m + i - 1]
  <2>1. m \in Int /\ n \in Int /\ \A i \in m..n : u[i] \in Message
    BY <1>0, <1>6, Zenon
  <2>2. QED BY <2>1, SubSeqProperties, SMTT(45)
<1>8. PICK v \in Seq(Message) : /\ v = SubSeq(u, m, n) /\ Len(v) = size
                                /\ \A i \in 1..size : v[i] = u[m + i - 1]
  BY <1>2, <1>7, Zenon
<1>9. PICK x \in Seq(Message) : x = Unwrap(p) /\ Len(x) = size /\ \A i \in 1..size : x[i] = p[i].msg
  BY <1>4, UnwrapType, UnwrapIs, Zenon
<1>10. ASSUME NEW i \in 1..size PROVE x[i] = v[i]
  <2>1. m + i - 1 \in 1..Len(q)
    BY <1>0, <1>2
  <2>2. QED BY <1>4, <1>5, <1>8, <1>9, <2>1, Zenon
<1>11. x = v
  BY <1>8, <1>9, <1>10, SameMessages, Zenon
<1>12. QED BY <1>4, <1>5, <1>8, <1>9, <1>11, Zenon

\* A batch, and what is left behind it, make up the queue.
LEMMA UnwrapSplit ==
    ASSUME NEW q \in Seq(Item)
    PROVE  Unwrap(First(q)) \o Unwrap(Rest(q)) = Unwrap(q)
<1>0. Len(q) \in Nat /\ \A i \in 1..Len(q) : q[i] \in Item
  BY LenProperties, ElementOfSeq, Zenon
<1>1. PICK n \in 0..Len(q) : First(q) = SubSeq(q, 1, n)
  BY <1>0, MailboxAssumption, SMTT(45) DEF First
<1>2. Len(First(q)) = n
  BY <1>0, <1>1, SubSeqProperties
<1>3. Rest(q) = SubSeq(q, n + 1, Len(q))
  BY <1>2, Zenon DEF Rest
<1>4. SubSeq(q, 1, n) \o SubSeq(q, n + 1, Len(q)) = SubSeq(q, 1, Len(q))
  <2>1. 1 \in 1..Len(q) + 1 /\ n \in 1 - 1..Len(q) /\ Len(q) \in n..Len(q)
    BY <1>0
  <2>2. QED BY <2>1, ConcatAdjacentSubSeq, Zenon
<1>5. SubSeq(q, 1, Len(q)) = q
  BY SubSeqFull, Zenon
<1>6. First(q) \in Seq(Item) /\ Rest(q) \in Seq(Item)
  BY FirstRestType, Zenon
<1>7. First(q) \o Rest(q) = q
  BY <1>1, <1>3, <1>4, <1>5, Zenon
<1>8. QED BY <1>6, <1>7, UnwrapConcat, Zenon

\* What goes back is what was extracted.
LEMMA UnwrapRestore ==
    ASSUME NEW ms \in Seq(Message), NEW q \in Seq(Item)
    PROVE  Unwrap(Wrap(ms) \o q) = ms \o Unwrap(q)
<1>1. Wrap(ms) \in Seq(Item) /\ Len(Wrap(ms)) = Len(ms)
  BY WrapType, BatchLengths, Zenon
<1>2. \A i \in 1..Len(ms) : Wrap(ms)[i].msg = ms[i]
  BY DEF Wrap, Raw
<1>3. PICK x \in Seq(Message) :
         /\ x = Unwrap(Wrap(ms)) /\ Len(x) = Len(ms)
         /\ \A i \in 1..Len(ms) : x[i] = Wrap(ms)[i].msg
  BY <1>1, UnwrapType, UnwrapIs, Zenon
<1>4. x = ms
  BY <1>2, <1>3, SameMessages, Zenon
<1>5. QED BY <1>1, <1>3, <1>4, UnwrapConcat, ZenonT(60)

\* A sequence with one element taken out.
TakenFrom(s, r) ==
    \E i \in 1..Len(s) : r = SubSeq(s, 1, i - 1) \o SubSeq(s, i + 1, Len(s))

\* Taking one entry out of the queue takes out its message.
LEMMA UnwrapWithout ==
    ASSUME NEW q \in Seq(Item), NEW e, \E i \in DOMAIN q : q[i] = e
    PROVE  TakenFrom(Unwrap(q), Unwrap(Without(q, e)))
<1>0. Len(q) \in Nat
  OBVIOUS
<1>1. PICK k \in 1..Len(q) : Without(q, e) = SubSeq(q, 1, k - 1) \o SubSeq(q, k + 1, Len(q))
  <2> DEFINE c == CHOOSE i \in DOMAIN q : q[i] = e
  <2>1. c \in DOMAIN q
    BY Zenon
  <2>2. Without(q, e) = SubSeq(q, 1, c - 1) \o SubSeq(q, c + 1, Len(q))
    BY Zenon DEF Without
  <2> HIDE DEF c
  <2>3. c \in 1..Len(q)
    BY <2>1
  <2>4. QED BY <2>2, <2>3, Zenon
<1>2. /\ 1 \in 1..Len(q) + 1 /\ k - 1 \in 0..Len(q) /\ 1 <= (k - 1) + 1
      /\ k + 1 \in 1..Len(q) + 1 /\ Len(q) \in 0..Len(q) /\ k + 1 <= Len(q) + 1
  BY <1>0
<1>3. /\ SubSeq(q, 1, k - 1) \in Seq(Item)
      /\ Unwrap(SubSeq(q, 1, k - 1)) = SubSeq(Unwrap(q), 1, k - 1)
  BY <1>2, UnwrapSub, Zenon
<1>4. /\ SubSeq(q, k + 1, Len(q)) \in Seq(Item)
      /\ Unwrap(SubSeq(q, k + 1, Len(q))) = SubSeq(Unwrap(q), k + 1, Len(q))
  BY <1>2, UnwrapSub, Zenon
<1>5. Unwrap(Without(q, e)) = Unwrap(SubSeq(q, 1, k - 1)) \o Unwrap(SubSeq(q, k + 1, Len(q)))
  BY <1>1, <1>3, <1>4, UnwrapConcat, Zenon
<1>6. Len(Unwrap(q)) = Len(q)
  BY BatchLengths, Zenon
<1>7. QED BY <1>3, <1>4, <1>5, <1>6, Zenon DEF TakenFrom

-----------------------------------------------------------------------------
(* Queues of messages, one in front of the other.                          *)

\* What is in front of a queue is a prefix of the whole.
LEMMA FrontOf ==
    ASSUME NEW x \in Seq(Message), NEW y \in Seq(Message)
    PROVE  SubSeq(x \o y, 1, Len(x)) = x
<1>1. Len(x) \in Nat
  BY LenProperties, Zenon
<1>2. CASE Len(x) = 0
  <2>1. x = <<>>
    BY <1>2, EmptySeq, LenProperties, Zenon
  <2>2. SubSeq(x \o y, 1, 0) = <<>>
    BY SubSeqEmpty
  <2>3. QED BY <1>2, <2>1, <2>2, Zenon
<1>3. CASE Len(x) # 0
  <2>1. 1 \in 1..Len(x) /\ Len(x) \in 1..Len(x)
    BY <1>1, <1>3
  <2>2. SubSeq(x \o y, 1, Len(x)) = SubSeq(x, 1, Len(x))
    BY <2>1, SubSeqOfConcat1, Zenon
  <2>3. QED BY <2>2, SubSeqFull, Zenon
<1>4. QED BY <1>2, <1>3, Zenon

\* What is behind it is a suffix.
LEMMA BackOf ==
    ASSUME NEW x \in Seq(Message), NEW y \in Seq(Message), NEW m \in 1..Len(y) + 1
    PROVE  SubSeq(x \o y, Len(x) + m, Len(x) + Len(y)) = SubSeq(y, m, Len(y))
<1>1. Len(x) \in Nat /\ Len(y) \in Nat
  BY LenProperties, Zenon
<1>2. CASE m = Len(y) + 1
  <2>1. SubSeq(x \o y, Len(x) + m, Len(x) + Len(y)) = <<>>
    BY <1>1, <1>2, SubSeqEmpty
  <2>2. SubSeq(y, m, Len(y)) = <<>>
    BY <1>1, <1>2, SubSeqEmpty
  <2>3. QED BY <2>1, <2>2, Zenon
<1>3. CASE m # Len(y) + 1
  <2>1. PICK p \in Len(x) + 1..Len(x) + Len(y), q \in Len(x) + 1..Len(x) + Len(y) :
            p = Len(x) + m /\ q = Len(x) + Len(y)
    BY <1>1, <1>3
  <2>2. SubSeq(x \o y, p, q) = SubSeq(y, p - Len(x), q - Len(x))
    BY SubSeqOfConcat2, Zenon
  <2>3. p - Len(x) = m /\ q - Len(x) = Len(y)
    BY <1>1, <2>1
  <2>4. QED BY <2>1, <2>2, <2>3, Zenon
<1>4. QED BY <1>2, <1>3, Zenon

\* A message joins the end of the whole.
LEMMA JoinsEnd ==
    ASSUME NEW x \in Seq(Message), NEW y \in Seq(Message), NEW m \in Message
    PROVE  x \o Append(y, m) = Append(x \o y, m)
<1>1. <<m>> \in Seq(Message) /\ x \o y \in Seq(Message)
  BY ConcatProperties
<1>2. Append(y, m) = y \o <<m>> /\ Append(x \o y, m) = (x \o y) \o <<m>>
  BY <1>1, AppendIsConcat, Zenon
<1>3. (x \o y) \o <<m>> = x \o (y \o <<m>>)
  BY <1>1, ConcatAssociative, SMTT(45)
<1>4. QED BY <1>2, <1>3, Zenon

\* The oldest message leaves the front.
LEMMA LeavesFront ==
    ASSUME NEW x \in Seq(Message), NEW y \in Seq(Message), x # <<>>
    PROVE  x \o y # <<>> /\ Tail(x \o y) = Tail(x) \o y
<1>1. Len(x) \in Nat /\ Len(y) \in Nat /\ Len(x) # 0
  BY LenProperties, EmptySeq, Zenon
<1>2. x \o y \in Seq(Message) /\ Len(x \o y) = Len(x) + Len(y)
  BY ConcatProperties, Zenon
<1>3. x \o y # <<>>
  BY <1>1, <1>2
<1>4. Tail(x \o y) = SubSeq(x \o y, 2, Len(x) + Len(y)) /\ Tail(x) = SubSeq(x, 2, Len(x))
  BY <1>2, <1>3, TailIsSubSeq, Zenon
<1>5. SubSeq(x \o y, 2, Len(x)) \o SubSeq(x \o y, Len(x) + 1, Len(x) + Len(y))
        = SubSeq(x \o y, 2, Len(x) + Len(y))
  <2>1. PICK z \in Seq(Message), a \in Nat, b \in Nat :
            z = x \o y /\ a = Len(x) /\ b = Len(x) + Len(y)
    <3>1. Len(x) + Len(y) \in Nat
      BY <1>1
    <3>2. QED BY <1>1, <1>2, <3>1, Zenon
  <2>2. 2 \in 1..Len(z) + 1 /\ a \in 2 - 1..Len(z) /\ b \in a..Len(z)
    BY <1>1, <1>2, <2>1
  <2>3. SubSeq(z, 2, a) \o SubSeq(z, a + 1, b) = SubSeq(z, 2, b)
    BY <2>2, ConcatAdjacentSubSeq, Zenon
  <2>4. QED BY <2>1, <2>3, Zenon
<1>6. SubSeq(x \o y, Len(x) + 1, Len(x) + Len(y)) = y
  <2>1. 1 \in 1..Len(y) + 1
    BY <1>1
  <2>2. SubSeq(x \o y, Len(x) + 1, Len(x) + Len(y)) = SubSeq(y, 1, Len(y))
    BY <2>1, BackOf, Zenon
  <2>3. QED BY <2>2, SubSeqFull, Zenon
<1>7. SubSeq(x \o y, 2, Len(x)) = SubSeq(x, 2, Len(x))
  <2>1. CASE Len(x) = 1
    BY <2>1, SubSeqEmpty
  <2>2. CASE Len(x) # 1
    <3>1. 2 \in 1..Len(x) /\ Len(x) \in 1..Len(x)
      <4>1. PICK a \in Nat : a = Len(x) /\ a # 0 /\ a # 1
        BY <1>1, <2>2, Zenon
      <4>2. 2 \in 1..a /\ a \in 1..a
        BY <4>1
      <4>3. QED BY <4>1, <4>2, Zenon
    <3>2. QED BY <3>1, SubSeqOfConcat1, Zenon
  <2>3. QED BY <2>1, <2>2, Zenon
<1>8. QED BY <1>3, <1>4, <1>5, <1>6, <1>7, Zenon

\* A queue in three parts.
Regroups(x, y, z) == (x \o y) \o z = x \o (y \o z)

\* Its parts can be taken together either way.
LEMMA Regroup == \A x, y, z \in Seq(Message) : Regroups(x, y, z)
BY ConcatAssociative DEF Regroups

\* A message taken out of the back is taken out of the whole.
LEMMA TakenOut ==
    ASSUME NEW x \in Seq(Message), NEW y \in Seq(Message), NEW r, TakenFrom(y, r)
    PROVE  TakenFrom(x \o y, x \o r)
<1>0. PICK k \in 1..Len(y) : r = SubSeq(y, 1, k - 1) \o SubSeq(y, k + 1, Len(y))
  BY Zenon DEF TakenFrom
<1>1. Len(x) \in Nat /\ Len(y) \in Nat
  BY LenProperties, Zenon
<1>2. x \o y \in Seq(Message) /\ Len(x \o y) = Len(x) + Len(y)
  BY ConcatProperties, Zenon
<1>3. PICK z \in Seq(Message), a \in Nat, b \in Nat :
         z = x \o y /\ a = Len(x) /\ b = Len(y) /\ Len(z) = a + b
  BY <1>1, <1>2, Zenon
<1>4. a + k \in 1..a + b /\ k \in 1..b
  BY <1>3
<1>5. SubSeq(z, a + k + 1, a + b) = SubSeq(y, k + 1, b)
  <2>1. k + 1 \in 1..Len(y) + 1
    BY <1>1
  <2>2. SubSeq(x \o y, Len(x) + (k + 1), Len(x) + Len(y)) = SubSeq(y, k + 1, Len(y))
    BY <2>1, BackOf, Zenon
  <2>3. a + k + 1 = a + (k + 1)
    BY <1>4
  <2>4. QED BY <1>3, <2>2, <2>3, Zenon
<1>6. SubSeq(z, 1, a + k - 1) = x \o SubSeq(y, 1, k - 1)
  <2>1. CASE k = 1
    <3>1. SubSeq(y, 1, 0) = <<>>
      BY SubSeqEmpty
    <3>2. x \o <<>> = x
      BY ConcatEmptySeq, Zenon
    <3>3. SubSeq(z, 1, a) = x
      BY <1>3, FrontOf, Zenon
    <3>4. a + k - 1 = a /\ k - 1 = 0
      BY <1>4, <2>1
    <3>5. QED BY <3>1, <3>2, <3>3, <3>4, Zenon
  <2>2. CASE k # 1
    <3>1. 1 \in 1..Len(z) + 1 /\ a \in 1 - 1..Len(z) /\ a + k - 1 \in a..Len(z)
      BY <1>3, <1>4
    <3>2. SubSeq(z, 1, a) \o SubSeq(z, a + 1, a + k - 1) = SubSeq(z, 1, a + k - 1)
      BY <3>1, ConcatAdjacentSubSeq, Zenon
    <3>3. a + 1 \in a + 1..a + b /\ a + k - 1 \in a + 1..a + b
      BY <1>4, <2>2
    <3>4. SubSeq(x \o y, a + 1, a + k - 1) = SubSeq(y, a + 1 - a, a + k - 1 - a)
      <4>1. a + 1 \in Len(x) + 1..Len(x) + Len(y) /\ a + k - 1 \in Len(x) + 1..Len(x) + Len(y)
        BY <1>3, <3>3, Zenon
      <4>2. SubSeq(x \o y, a + 1, a + k - 1) = SubSeq(y, a + 1 - Len(x), a + k - 1 - Len(x))
        BY <4>1, SubSeqOfConcat2, SMTT(45)
      <4>3. QED BY <1>3, <4>2, Zenon
    <3>5. a + 1 - a = 1 /\ a + k - 1 - a = k - 1
      BY <1>4
    <3>6. SubSeq(z, 1, a) = x
      BY <1>3, FrontOf, Zenon
    <3>7. QED BY <1>3, <3>2, <3>4, <3>5, <3>6, Zenon
  <2>3. QED BY <2>1, <2>2, Zenon
<1>7. SubSeq(y, 1, k - 1) \in Seq(Message) /\ SubSeq(y, k + 1, Len(y)) \in Seq(Message)
  BY <1>1
<1>8. PICK p \in Seq(Message), q \in Seq(Message) :
         p = SubSeq(y, 1, k - 1) /\ q = SubSeq(y, k + 1, Len(y))
  BY <1>7, Zenon
<1>9. (x \o p) \o q = x \o (p \o q)
  <2>1. Regroups(x, p, q)
    BY Regroup, Zenon
  <2>2. QED BY <2>1, Zenon DEF Regroups
<1>10. x \o (p \o q) = SubSeq(z, 1, (a + k) - 1) \o SubSeq(z, (a + k) + 1, a + b)
  <2>1. x \o p = SubSeq(z, 1, (a + k) - 1)
    BY <1>6, <1>8
  <2>2. q = SubSeq(z, (a + k) + 1, a + b)
    BY <1>3, <1>5, <1>8, Zenon
  <2>3. QED BY <1>9, <2>1, <2>2, Zenon
<1>11. x \o r = x \o (p \o q)
  BY <1>0, <1>8, Zenon
<1>12. /\ a + k \in 1..Len(x \o y)
       /\ x \o r = SubSeq(x \o y, 1, (a + k) - 1) \o SubSeq(x \o y, (a + k) + 1, Len(x \o y))
  BY <1>3, <1>4, <1>10, <1>11, Zenon
<1>13. QED BY <1>12, Zenon DEF TakenFrom

------------------------------------------------------------------------------
(***************************************************************************)
(* The mailbox implements the inbox: every step of a thread or a worker    *)
(* is one step of InboxSpec under the mapping of Mailbox.tla, or none.     *)
(***************************************************************************)

\* Extracted, as an operator of the workers' local state.
ExtractedFrom(B, S, b) ==
    IF \E w \in Workers : B[w] # <<>> /\ S[w] = b
      THEN B[CHOOSE w \in Workers : B[w] # <<>> /\ S[w] = b]
      ELSE <<>>

\* Before a step and after it.
LEMMA ExtractedIs ==
    ASSUME NEW b
    PROVE  /\ Extracted(b) = ExtractedFrom(batch, systemBatch, b)
           /\ Extracted(b)' = ExtractedFrom(batch', systemBatch', b)
BY Zenon DEF Extracted, ExtractedFrom

\* What is extracted is a sequence of messages.
LEMMA ExtractedType ==
    ASSUME NEW B \in [Workers -> Seq(Message)], NEW S, NEW b
    PROVE  ExtractedFrom(B, S, b) \in Seq(Message)
<1>1. CASE \E w \in Workers : B[w] # <<>> /\ S[w] = b
  <2>1. PICK v \in Workers : v = CHOOSE w \in Workers : B[w] # <<>> /\ S[w] = b
    BY <1>1, Zenon
  <2>2. ExtractedFrom(B, S, b) = B[v]
    BY <1>1, <2>1, Zenon DEF ExtractedFrom
  <2>3. QED BY <2>2, Zenon
<1>2. CASE ~\E w \in Workers : B[w] # <<>> /\ S[w] = b
  BY <1>2, EmptyType, Zenon DEF ExtractedFrom
<1>3. QED BY <1>1, <1>2, Zenon

\* If one worker alone can hold a batch, what is extracted is its batch.
LEMMA ExtractedAlone ==
    ASSUME NEW B, NEW S, NEW b, NEW w \in Workers, \A v \in Workers : v # w => B[v] = <<>>
    PROVE  ExtractedFrom(B, S, b) = IF S[w] = b THEN B[w] ELSE <<>>
<1>1. CASE B[w] # <<>> /\ S[w] = b
  <2>1. PICK v \in Workers : /\ v = CHOOSE u \in Workers : B[u] # <<>> /\ S[u] = b
                             /\ B[v] # <<>>
    BY <1>1, Zenon
  <2>2. v = w
    BY <2>1, Zenon
  <2>3. QED BY <1>1, <2>1, <2>2, Zenon DEF ExtractedFrom
<1>2. CASE ~(B[w] # <<>> /\ S[w] = b)
  <2>1. ~\E u \in Workers : B[u] # <<>> /\ S[u] = b
    BY <1>2, Zenon
  <2>2. ExtractedFrom(B, S, b) = <<>>
    BY <2>1, Zenon DEF ExtractedFrom
  <2>3. QED BY <1>2, <2>2, Zenon
<1>3. QED BY <1>1, <1>2, Zenon

\* The two queues of the inbox, and the step they take.
User == Extracted(FALSE) \o Unwrap(messages)
Lifecycle == Extracted(TRUE) \o Unwrap(system)
InboxStep == Abstract!InboxNext \/ UNCHANGED <<User, Lifecycle, closed>>

\* The parts of the two queues are sequences of messages.
LEMMA QueueTypes ==
    ASSUME TypeOK
    PROVE  /\ Extracted(FALSE) \in Seq(Message) /\ Unwrap(messages) \in Seq(Message)
           /\ Extracted(TRUE) \in Seq(Message) /\ Unwrap(system) \in Seq(Message)
           /\ User \in Seq(Message) /\ Lifecycle \in Seq(Message)
<1>1. Extracted(FALSE) \in Seq(Message) /\ Extracted(TRUE) \in Seq(Message)
  <2>1. batch \in [Workers -> Seq(Message)]
    BY Zenon DEF TypeOK
  <2>2. /\ ExtractedFrom(batch, systemBatch, FALSE) \in Seq(Message)
        /\ ExtractedFrom(batch, systemBatch, TRUE) \in Seq(Message)
    BY <2>1, ExtractedType, Zenon
  <2>3. QED BY <2>2, ExtractedIs, Zenon
<1>2. Unwrap(messages) \in Seq(Message) /\ Unwrap(system) \in Seq(Message)
  BY UnwrapType, Zenon DEF TypeOK
<1>3. QED BY <1>1, <1>2, ConcatProperties, Zenon DEF User, Lifecycle

\* A message is admitted.
LEMMA StepAdmits ==
    ASSUME NEW m \in Message, ~closed, closed' = closed,
           \/ IsUser(m) /\ User' = Append(User, m) /\ Lifecycle' = Lifecycle
           \/ ~IsUser(m) /\ Lifecycle' = Append(Lifecycle, m) /\ User' = User
    PROVE  InboxStep
<1>1. Abstract!Admit(m)
  BY Zenon DEF User, Lifecycle, Abstract!Admit
<1>2. QED BY <1>1, Zenon DEF InboxStep, Abstract!InboxNext

\* A message is taken back.
LEMMA StepWithdraws ==
    ASSUME TypeOK, UNCHANGED <<Lifecycle, closed>>, TakenFrom(User, User')
    PROVE  InboxStep
<1>0. PICK i \in 1..Len(User) :
         User' = SubSeq(User, 1, i - 1) \o SubSeq(User, i + 1, Len(User))
  BY Zenon DEF TakenFrom
<1>1. Abstract!Withdraw(i)
  BY <1>0, Zenon DEF User, Lifecycle, Abstract!Withdraw
<1>2. i \in DOMAIN User
  BY QueueTypes, LenProperties, Zenon
<1>3. QED BY <1>1, <1>2, Zenon DEF InboxStep, User, Abstract!InboxNext

\* The actor is invoked with the oldest message of a queue.
LEMMA StepInvokes ==
    ASSUME closed' = closed,
           \/ User # <<>> /\ User' = Tail(User) /\ Lifecycle' = Lifecycle
           \/ Lifecycle # <<>> /\ Lifecycle' = Tail(Lifecycle) /\ User' = User
    PROVE  InboxStep
<1>1. Abstract!InvokeNext
  BY Zenon DEF User, Lifecycle, Abstract!InvokeNext
<1>2. QED BY <1>1, Zenon DEF InboxStep, Abstract!InboxNext

\* p is what is left of s once its newest messages are given up.
Prefix(p, s) == \E k \in 0..Len(s) : p = SubSeq(s, 1, k)

\* A stopping actor gives up the newest messages: a step that leaves a prefix of either queue,
\* and does not reopen the mailbox, is a step of the abstract inbox.
LEMMA StepAbandons ==
    ASSUME TypeOK, TypeOK', Prefix(User', User), Prefix(Lifecycle', Lifecycle), closed => closed'
    PROVE  InboxStep
<1>1. (~closed') \in {~closed, FALSE}
  BY Zenon DEF TypeOK
<1>2. Abstract!Abandon
  BY <1>1, Zenon DEF User, Lifecycle, Prefix, Abstract!Abandon
<1>3. QED BY <1>2, Zenon DEF InboxStep, Abstract!InboxNext

\* The prefixes that are kept.
LEMMA Prefixes ==
    ASSUME NEW x \in Seq(Message), NEW y \in Seq(Message)
    PROVE  Prefix(x, x) /\ Prefix(<<>>, x) /\ Prefix(x, x \o y)
<1>1. Len(x) \in 0..Len(x) /\ 0 \in 0..Len(x)
  BY LenProperties
<1>2. Prefix(x, x)
  BY <1>1, SubSeqFull, Zenon DEF Prefix
<1>3. Prefix(<<>>, x)
  <2>1. SubSeq(x, 1, 0) = <<>>
    BY SubSeqEmpty
  <2>2. QED BY <1>1, <2>1, Zenon DEF Prefix
<1>4. Len(x) \in 0..Len(x \o y)
  <2>1. Len(x) \in Nat /\ Len(y) \in Nat /\ Len(x \o y) = Len(x) + Len(y)
    BY ConcatProperties, LenProperties, Zenon
  <2>2. QED BY <2>1
<1>5. Prefix(x, x \o y)
  BY <1>4, FrontOf, Zenon DEF Prefix
<1>6. QED BY <1>2, <1>3, <1>5, Zenon

\* A sender's step leaves the batches alone.
LEMMA SenderQueues ==
    ASSUME UNCHANGED <<batch, systemBatch>>
    PROVE  Extracted(FALSE)' = Extracted(FALSE) /\ Extracted(TRUE)' = Extracted(TRUE)
BY ExtractedIs, Zenon

\* A step that moves no message.
LEMMA StepStutters ==
    ASSUME UNCHANGED <<messages, system, batch, systemBatch, closed>>
    PROVE  InboxStep
<1>1. User' = User /\ Lifecycle' = Lifecycle
  BY SenderQueues, Zenon DEF User, Lifecycle, Unwrap
<1>2. QED BY <1>1, Zenon DEF InboxStep

\* stop_user_messages and close empty the deques behind the batch.
LEMMA StepEmpties ==
    ASSUME TypeOK, TypeOK', UNCHANGED <<batch, systemBatch>>, messages' = <<>>,
           \/ UNCHANGED <<system, closed>>
           \/ system' = <<>> /\ closed'
    PROVE  InboxStep
<1>0. Unwrap(<<>>) = <<>>
  BY DEF Unwrap
<1>1. Extracted(FALSE)' = Extracted(FALSE) /\ Extracted(TRUE)' = Extracted(TRUE)
  BY SenderQueues, Zenon
<1>2. User' = Extracted(FALSE) \o <<>>
  BY <1>0, <1>1, Zenon DEF User
<1>3. Lifecycle' = Lifecycle \/ Lifecycle' = Extracted(TRUE) \o <<>>
  BY <1>0, <1>1, Zenon DEF Lifecycle
<1>4. Extracted(FALSE) \o <<>> = Extracted(FALSE) /\ Extracted(TRUE) \o <<>> = Extracted(TRUE)
  BY QueueTypes, ConcatEmptySeq, Zenon
<1>5. Prefix(User', User)
  <2>1. Prefix(Extracted(FALSE), Extracted(FALSE) \o Unwrap(messages))
    BY QueueTypes, Prefixes, Zenon
  <2>2. QED BY <1>2, <1>4, <2>1, Zenon DEF User
<1>6. Prefix(Lifecycle', Lifecycle)
  <2>1. /\ Prefix(Extracted(TRUE), Extracted(TRUE) \o Unwrap(system))
        /\ Prefix(Lifecycle, Lifecycle)
    BY QueueTypes, Prefixes, Zenon
  <2>2. Prefix(Extracted(TRUE), Lifecycle)
    BY <2>1, Zenon DEF Lifecycle
  <2>3. QED BY <1>3, <1>4, <2>1, <2>2, Zenon
<1>7. closed => closed'
  BY Zenon
<1>8. QED BY <1>5, <1>6, <1>7, StepAbandons, Zenon

\* A message that joins a deque joins its queue.
LEMMA StepJoins ==
    ASSUME TypeOK, NEW m \in Message, NEW item \in Item, item.msg = m,
           ~closed, UNCHANGED <<closed, batch, systemBatch>>,
           IF IsUser(m) THEN messages' = Append(messages, item) /\ system' = system
                        ELSE system' = Append(system, item) /\ messages' = messages
    PROVE  InboxStep
<1>1. Extracted(FALSE)' = Extracted(FALSE) /\ Extracted(TRUE)' = Extracted(TRUE)
  BY SenderQueues, Zenon
<1>2. messages \in Seq(Item) /\ system \in Seq(Item)
  BY Zenon DEF TypeOK
<1>3. CASE IsUser(m)
  <2>1. Unwrap(messages') = Append(Unwrap(messages), m) /\ Unwrap(system') = Unwrap(system)
    BY <1>2, <1>3, UnwrapAppend, Zenon
  <2>2. User' = Extracted(FALSE) \o Append(Unwrap(messages), m) /\ Lifecycle' = Lifecycle
    BY <1>1, <2>1, Zenon DEF User, Lifecycle
  <2>3. User' = Append(User, m)
    BY <2>2, QueueTypes, JoinsEnd, ZenonT(60) DEF User
  <2>4. QED BY <1>3, <2>2, <2>3, StepAdmits, Zenon
<1>4. CASE ~IsUser(m)
  <2>1. Unwrap(system') = Append(Unwrap(system), m) /\ Unwrap(messages') = Unwrap(messages)
    BY <1>2, <1>4, UnwrapAppend, Zenon
  <2>2. Lifecycle' = Extracted(TRUE) \o Append(Unwrap(system), m) /\ User' = User
    BY <1>1, <2>1, Zenon DEF User, Lifecycle
  <2>3. Lifecycle' = Append(Lifecycle, m)
    BY <2>2, QueueTypes, JoinsEnd, ZenonT(60) DEF Lifecycle
  <2>4. QED BY <1>4, <2>2, <2>3, StepAdmits, Zenon
<1>5. QED BY <1>3, <1>4, Zenon

\* Every step of a sender is a step of the inbox.
LEMMA InboxThread ==
    ASSUME TypeOK, TypeOK', NEW t \in Threads, Tell(t) \/ ThreadStep(t)
    PROVE  InboxStep
<1> USE DEF mailboxVars, cellVars, dispatcherVars, actorVars, threadVars, workerVars,
            historyVars
<1>1. current[t] \in Message
  BY Zenon DEF TypeOK
<1>2. CASE EnqueueQueued(t) \/ EnqueueScheduled(t)
  <2>1. PICK item \in {Raw(current[t]), Entry(current[t])} :
           /\ ~closed /\ UNCHANGED <<closed, batch, systemBatch>>
           /\ IF IsUser(current[t])
                THEN messages' = Append(messages, item) /\ system' = system
                ELSE system' = Append(system, item) /\ messages' = messages
    <3>1. CASE EnqueueQueued(t)
      <4>1. /\ ~closed /\ UNCHANGED <<closed, batch, systemBatch>>
            /\ Put(current[t], Raw(current[t]))
        BY <3>1, Zenon DEF EnqueueQueued, Stopping
      <4>2. QED BY <4>1, Zenon DEF Put
    <3>2. CASE EnqueueScheduled(t)
      <4>1. /\ ~closed /\ UNCHANGED <<closed, batch, systemBatch>>
            /\ Put(current[t], Entry(current[t]))
        BY <3>2, Zenon DEF EnqueueScheduled, Stopping
      <4>2. QED BY <4>1, Zenon DEF Put
    <3>3. QED BY <1>2, <3>1, <3>2, Zenon
  <2>2. item \in Item /\ item.msg = current[t]
    <3>1. Raw(current[t]).msg = current[t] /\ Entry(current[t]).msg = current[t]
      BY Zenon DEF Raw, Entry
    <3>2. QED BY <1>1, <3>1, MessageType, Zenon
  <2>3. QED BY <1>1, <2>1, <2>2, StepJoins, Zenon
<1>3. CASE Rollback(t)
  <2>1. /\ UNCHANGED <<system, closed, batch, systemBatch>>
        /\ \/ messages' = messages
           \/ /\ \E i \in DOMAIN messages : messages[i] = Entry(current[t])
              /\ messages' = Without(messages, Entry(current[t]))
    BY <1>3, Zenon DEF Rollback
  <2>2. CASE messages' = messages
    BY <2>1, <2>2, StepStutters, Zenon
  <2>3. CASE /\ \E i \in DOMAIN messages : messages[i] = Entry(current[t])
             /\ messages' = Without(messages, Entry(current[t]))
    <3>0. messages \in Seq(Item)
      BY Zenon DEF TypeOK
    <3>1. TakenFrom(Unwrap(messages), Unwrap(messages'))
      BY <2>3, <3>0, UnwrapWithout, Zenon
    <3>2. Unwrap(messages) \in Seq(Message) /\ Extracted(FALSE) \in Seq(Message)
      BY QueueTypes, Zenon
    <3>3. TakenFrom(Extracted(FALSE) \o Unwrap(messages), Extracted(FALSE) \o Unwrap(messages'))
      BY <3>1, <3>2, TakenOut, Zenon
    <3>4. Extracted(FALSE)' = Extracted(FALSE) /\ Extracted(TRUE)' = Extracted(TRUE)
      BY <2>1, SenderQueues, Zenon
    <3>5. TakenFrom(User, User')
      BY <3>3, <3>4, Zenon DEF User
    <3>6. Lifecycle' = Lifecycle
      BY <2>1, <3>4, Zenon DEF Lifecycle
    <3>7. QED BY <2>1, <3>5, <3>6, StepWithdraws, Zenon
  <2>4. QED BY <2>1, <2>2, <2>3, Zenon
<1>4. CASE AbortStop(t) \/ AbortClose(t)
  <2>1. /\ messages' = <<>> /\ UNCHANGED <<batch, systemBatch>>
        /\ UNCHANGED <<system, closed>> \/ (system' = <<>> /\ closed')
    BY <1>4, Zenon DEF AbortStop, AbortClose, StopUserMessages, Close
  <2>2. QED BY <2>1, StepEmpties, Zenon
<1>5. CASE \/ Tell(t) \/ EnqueueStopping(t) \/ EnqueueFull(t) \/ Dispatch(t)
           \/ DispatchRefused(t) \/ Fallback(t) \/ FallbackFails(t) \/ AbortStart(t)
           \/ AbortCell(t)
  <2>1. UNCHANGED <<messages, system, batch, systemBatch, closed>>
    BY <1>5, Zenon DEF Tell, EnqueueStopping, EnqueueFull, Dispatch, DispatchRefused,
       Fallback, FallbackFails, AbortStart, AbortCell
  <2>2. QED BY <2>1, StepStutters, Zenon
<1>6. QED BY <1>2, <1>3, <1>4, <1>5, Zenon DEF ThreadStep

\* The worker that runs the mailbox holds what is extracted.
LEMMA RunningExtracts ==
    ASSUME TypeOK, OneInvocationAtATime, CapacityInv, NEW w \in Workers, wpc[w] \in RunPc,
           \A v \in Workers : v # w => batch'[v] = batch[v], NEW b
    PROVE  /\ Extracted(b) = IF systemBatch[w] = b THEN batch[w] ELSE <<>>
           /\ Extracted(b)' = IF systemBatch'[w] = b THEN batch'[w] ELSE <<>>
<1>1. \A v \in Workers : v # w => batch[v] = <<>>
  BY Zenon DEF CapacityInv, OneInvocationAtATime, WorkerRuns, BatchPc, RunPc
<1>2. \A v \in Workers : v # w => batch'[v] = <<>>
  BY <1>1, Zenon
<1>3. ExtractedFrom(batch, systemBatch, b) = IF systemBatch[w] = b THEN batch[w] ELSE <<>>
  BY <1>1, ExtractedAlone, ZenonT(60)
<1>4. ExtractedFrom(batch', systemBatch', b) = IF systemBatch'[w] = b THEN batch'[w] ELSE <<>>
  <2>1. PICK B, S : B = batch' /\ S = systemBatch'
    BY Zenon
  <2>2. \A v \in Workers : v # w => B[v] = <<>>
    BY <1>2, <2>1, Zenon
  <2>3. ExtractedFrom(B, S, b) = IF S[w] = b THEN B[w] ELSE <<>>
    BY <2>2, ExtractedAlone, ZenonT(60)
  <2>4. QED BY <2>1, <2>3, Zenon
<1>5. QED BY <1>3, <1>4, ExtractedIs, Zenon

\* A batch is taken from the front of its deque: the queues stay as they are.
LEMMA InboxTake ==
    ASSUME TypeOK, OneInvocationAtATime, CapacityInv, NEW w \in Workers, TakeBatch(w)
    PROVE  InboxStep
<1>1. wpc[w] = "take" /\ closed' = closed
  BY Zenon DEF TakeBatch
<1>2. batch[w] = <<>> /\ wpc[w] \in RunPc
  BY <1>1, Zenon DEF CapacityInv, BatchPc, RunPc
<1>3. messages \in Seq(Item) /\ system \in Seq(Item)
  BY Zenon DEF TypeOK
<1>4. /\ Unwrap(First(system)) \o Unwrap(Rest(system)) = Unwrap(system)
      /\ Unwrap(First(messages)) \o Unwrap(Rest(messages)) = Unwrap(messages)
      /\ <<>> \o Unwrap(system) = Unwrap(system)
      /\ <<>> \o Unwrap(messages) = Unwrap(messages)
  <2>1. /\ Unwrap(First(system)) \o Unwrap(Rest(system)) = Unwrap(system)
        /\ Unwrap(First(messages)) \o Unwrap(Rest(messages)) = Unwrap(messages)
    BY <1>3, UnwrapSplit, Zenon
  <2>2. <<>> \o Unwrap(system) = Unwrap(system) /\ <<>> \o Unwrap(messages) = Unwrap(messages)
    BY QueueTypes, ConcatEmptySeq, Zenon
  <2>3. QED BY <2>1, <2>2, Zenon
<1>5. CASE LifecycleFirst
  <2>1. /\ batch' = [batch EXCEPT ![w] = Unwrap(First(system))] /\ system' = Rest(system)
        /\ systemBatch' = [systemBatch EXCEPT ![w] = TRUE] /\ messages' = messages
    BY <1>5, Zenon DEF TakeBatch
  <2>2. /\ batch'[w] = Unwrap(First(system)) /\ systemBatch'[w] = TRUE
        /\ \A v \in Workers : v # w => batch'[v] = batch[v]
    BY <2>1, Zenon DEF TypeOK
  <2>3. /\ Extracted(TRUE) = <<>> /\ Extracted(TRUE)' = Unwrap(First(system))
        /\ Extracted(FALSE) = <<>> /\ Extracted(FALSE)' = <<>>
    BY <1>2, <2>2, RunningExtracts, Zenon
  <2>4. User' = User /\ Lifecycle' = Lifecycle
    BY <1>4, <2>1, <2>3, Zenon DEF User, Lifecycle
  <2>5. QED BY <1>1, <2>4, Zenon DEF InboxStep
<1>6. CASE ~LifecycleFirst
  <2>1. /\ batch' = [batch EXCEPT ![w] = Unwrap(First(messages))] /\ messages' = Rest(messages)
        /\ systemBatch' = [systemBatch EXCEPT ![w] = FALSE] /\ system' = system
    BY <1>6, Zenon DEF TakeBatch
  <2>2. /\ batch'[w] = Unwrap(First(messages)) /\ systemBatch'[w] = FALSE
        /\ \A v \in Workers : v # w => batch'[v] = batch[v]
    BY <2>1, Zenon DEF TypeOK
  <2>3. /\ Extracted(FALSE) = <<>> /\ Extracted(FALSE)' = Unwrap(First(messages))
        /\ Extracted(TRUE) = <<>> /\ Extracted(TRUE)' = <<>>
    BY <1>2, <2>2, RunningExtracts, Zenon
  <2>4. User' = User /\ Lifecycle' = Lifecycle
    BY <1>4, <2>1, <2>3, Zenon DEF User, Lifecycle
  <2>5. QED BY <1>1, <2>4, Zenon DEF InboxStep
<1>7. QED BY <1>5, <1>6, Zenon

\* The rest of a batch goes back where it came from, or is given up by a
\* mailbox that is closed.
LEMMA InboxRestore ==
    ASSUME TypeOK, TypeOK', OneInvocationAtATime, CapacityInv, StopInv,
           NEW w \in Workers, Restore(w)
    PROVE  InboxStep
<1>1. /\ wpc[w] \in {"restore", "restoreFailed"} /\ closed' = closed
      /\ batch' = [batch EXCEPT ![w] = <<>>] /\ systemBatch' = systemBatch
  BY Zenon DEF Restore
<1>2. wpc[w] \in RunPc
  BY <1>1, Zenon DEF RunPc
<1>3. /\ batch'[w] = <<>> /\ batch[w] \in Seq(Message) /\ systemBatch[w] \in BOOLEAN
      /\ \A v \in Workers : v # w => batch'[v] = batch[v]
  BY <1>1, Zenon DEF TypeOK
<1>4. messages \in Seq(Item) /\ system \in Seq(Item)
  BY Zenon DEF TypeOK
<1>5. /\ Extracted(FALSE) = IF systemBatch[w] = FALSE THEN batch[w] ELSE <<>>
      /\ Extracted(TRUE) = IF systemBatch[w] = TRUE THEN batch[w] ELSE <<>>
      /\ Extracted(FALSE)' = <<>> /\ Extracted(TRUE)' = <<>>
  BY <1>2, <1>3, RunningExtracts, Zenon
<1>6. /\ <<>> \o Unwrap(system) = Unwrap(system)
      /\ <<>> \o Unwrap(messages) = Unwrap(messages)
      /\ batch[w] \o Unwrap(messages) \in Seq(Message)
      /\ batch[w] \o Unwrap(system) \in Seq(Message)
  BY <1>3, QueueTypes, ConcatEmptySeq, ConcatProperties, Zenon
<1>7. CASE closed
  <2>1. messages = <<>> /\ system = <<>> /\ messages' = messages /\ system' = system
    BY <1>7, Zenon DEF StopInv, Restore
  <2>2. Unwrap(<<>>) = <<>> /\ <<>> \o <<>> = <<>>
    BY DEF Unwrap
  <2>3. User' = <<>> /\ Lifecycle' = <<>>
    BY <1>5, <2>1, <2>2, Zenon DEF User, Lifecycle
  <2>4. Prefix(<<>>, User) /\ Prefix(<<>>, Lifecycle)
    BY QueueTypes, Prefixes, Zenon
  <2>5. closed => closed'
    BY <1>1, Zenon
  <2>6. QED BY <2>3, <2>4, <2>5, StepAbandons, Zenon
<1>8. CASE ~closed /\ systemBatch[w]
  <2>1. messages' = messages /\ system' = Wrap(batch[w]) \o system
    BY <1>8, Zenon DEF Restore, PutBack
  <2>2. Unwrap(system') = batch[w] \o Unwrap(system)
    BY <1>3, <1>4, <2>1, UnwrapRestore, Zenon
  <2>3. Extracted(FALSE) = <<>> /\ Extracted(TRUE) = batch[w]
    BY <1>3, <1>5, <1>8, Zenon
  <2>4. <<>> \o (batch[w] \o Unwrap(system)) = batch[w] \o Unwrap(system)
    BY <1>6, ConcatEmptySeq, Zenon
  <2>5. User' = User /\ Lifecycle' = Lifecycle
    <3>1. User' = User
      BY <1>5, <2>1, <2>3, Zenon DEF User
    <3>2. Lifecycle' = <<>> \o Unwrap(system')
      BY <1>5, Zenon DEF Lifecycle
    <3>3. QED BY <2>2, <2>3, <2>4, <3>1, <3>2, Zenon DEF Lifecycle
  <2>6. QED BY <1>1, <2>5, Zenon DEF InboxStep
<1>9. CASE ~closed /\ ~systemBatch[w]
  <2>1. system' = system /\ messages' = Wrap(batch[w]) \o messages
    BY <1>9, Zenon DEF Restore, PutBack
  <2>2. Unwrap(messages') = batch[w] \o Unwrap(messages)
    BY <1>3, <1>4, <2>1, UnwrapRestore, Zenon
  <2>3. Extracted(TRUE) = <<>> /\ Extracted(FALSE) = batch[w]
    BY <1>3, <1>5, <1>9, Zenon
  <2>4. <<>> \o (batch[w] \o Unwrap(messages)) = batch[w] \o Unwrap(messages)
    BY <1>6, ConcatEmptySeq, Zenon
  <2>5. User' = User /\ Lifecycle' = Lifecycle
    <3>1. Lifecycle' = Lifecycle
      BY <1>5, <2>1, <2>3, Zenon DEF Lifecycle
    <3>2. User' = <<>> \o Unwrap(messages')
      BY <1>5, Zenon DEF User
    <3>3. QED BY <2>2, <2>3, <2>4, <3>1, <3>2, Zenon DEF User
  <2>6. QED BY <1>1, <2>5, Zenon DEF InboxStep
<1>10. QED BY <1>7, <1>8, <1>9, Zenon

\* The actor is invoked with the front of the batch, the front of its queue.
LEMMA InboxInvoke ==
    ASSUME TypeOK, OneInvocationAtATime, CapacityInv, NEW w \in Workers,
           InvokeUser(w) \/ InvokeSystem(w)
    PROVE  InboxStep
<1>1. /\ wpc[w] = "invoke" /\ batch[w] # <<>>
      /\ batch' = [batch EXCEPT ![w] = Tail(@)]
      /\ UNCHANGED <<messages, system, closed, systemBatch>>
  BY Zenon DEF InvokeUser, InvokeSystem, mailboxVars
<1>2. wpc[w] \in RunPc
  BY <1>1, Zenon DEF RunPc
<1>3. /\ batch'[w] = Tail(batch[w]) /\ batch[w] \in Seq(Message) /\ systemBatch[w] \in BOOLEAN
      /\ \A v \in Workers : v # w => batch'[v] = batch[v]
  BY <1>1, Zenon DEF TypeOK
<1>4. /\ Extracted(FALSE) = IF systemBatch[w] = FALSE THEN batch[w] ELSE <<>>
      /\ Extracted(TRUE) = IF systemBatch[w] = TRUE THEN batch[w] ELSE <<>>
      /\ Extracted(FALSE)' = IF systemBatch[w] = FALSE THEN Tail(batch[w]) ELSE <<>>
      /\ Extracted(TRUE)' = IF systemBatch[w] = TRUE THEN Tail(batch[w]) ELSE <<>>
  BY <1>1, <1>2, <1>3, RunningExtracts, Zenon
<1>5. /\ batch[w] \o Unwrap(messages) # <<>>
      /\ Tail(batch[w] \o Unwrap(messages)) = Tail(batch[w]) \o Unwrap(messages)
      /\ batch[w] \o Unwrap(system) # <<>>
      /\ Tail(batch[w] \o Unwrap(system)) = Tail(batch[w]) \o Unwrap(system)
  BY <1>1, <1>3, QueueTypes, LeavesFront, Zenon
<1>6. CASE systemBatch[w] = FALSE
  <2>1. Extracted(FALSE) = batch[w] /\ Extracted(FALSE)' = Tail(batch[w])
        /\ Extracted(TRUE)' = Extracted(TRUE)
    BY <1>4, <1>6, Zenon
  <2>2. User # <<>> /\ User' = Tail(User) /\ Lifecycle' = Lifecycle
    BY <1>1, <1>5, <2>1, Zenon DEF User, Lifecycle
  <2>3. QED BY <1>1, <2>2, StepInvokes, Zenon
<1>7. CASE systemBatch[w] = TRUE
  <2>1. Extracted(TRUE) = batch[w] /\ Extracted(TRUE)' = Tail(batch[w])
        /\ Extracted(FALSE)' = Extracted(FALSE)
    BY <1>4, <1>7, Zenon
  <2>2. Lifecycle # <<>> /\ Lifecycle' = Tail(Lifecycle) /\ User' = User
    BY <1>1, <1>5, <2>1, ZenonT(60) DEF User, Lifecycle
  <2>3. QED BY <1>1, <2>2, StepInvokes, Zenon
<1>8. QED BY <1>3, <1>6, <1>7, Zenon

\* A stopping actor gives up the rest of its batch, and nothing is behind it.
LEMMA InboxReturns ==
    ASSUME TypeOK, TypeOK', OneInvocationAtATime, CapacityInv, AbortInv, StopInv,
           NEW w \in Workers, BatchReturns(w)
    PROVE  InboxStep
<1>1. /\ wpc[w] = "invoke" /\ UNCHANGED <<messages, system, closed, systemBatch>>
      /\ batch[w] = <<>> \/ ~systemBatch[w]
      /\ \/ batch' = batch
         \/ actor \notin {"STARTING", "RUNNING", "FAILED"} /\ batch' = [batch EXCEPT ![w] = <<>>]
  BY Zenon DEF BatchReturns, mailboxVars
<1>2. CASE batch' = batch
  BY <1>1, <1>2, StepStutters, Zenon
<1>3. CASE batch' # batch
  <2>1. /\ actor \in Stops /\ batch[w] # <<>> /\ batch'[w] = <<>>
        /\ \A v \in Workers : v # w => batch'[v] = batch[v]
    BY <1>1, <1>3 DEF TypeOK, ActorState, Stops
  <2>2. wpc[w] \in RunPc /\ WorkerOwns(w) /\ WorkerRuns(w)
    BY <1>1, Zenon DEF RunPc, WorkerOwns, WorkerRuns
  <2>3. ~\E v \in Workers : wpc[v] \in {"stopCell", "stopMailbox"}
    BY <1>1, <2>2, Zenon DEF OneInvocationAtATime, WorkerRuns, RunPc
  <2>4. ~\E t \in Threads : tpc[t] = "abortStop"
    BY <2>2, Zenon DEF AbortInv, AbortPc
  <2>5. messages = <<>>
    BY <2>1, <2>3, <2>4, ZenonT(60) DEF StopInv, TypeOK
  <2>6. systemBatch[w] = FALSE
    BY <1>1, <2>1, Zenon DEF TypeOK
  <2>7. /\ Extracted(FALSE)' = <<>> /\ Extracted(TRUE)' = <<>> /\ Extracted(TRUE) = <<>>
    BY <1>1, <2>1, <2>2, <2>6, RunningExtracts, Zenon
  <2>8. Unwrap(<<>>) = <<>> /\ <<>> \o <<>> = <<>>
    BY DEF Unwrap
  <2>9. User' = <<>> /\ Lifecycle' = Lifecycle
    BY <1>1, <2>5, <2>7, <2>8, Zenon DEF User, Lifecycle
  <2>10. Prefix(<<>>, User) /\ Prefix(Lifecycle, Lifecycle)
    BY QueueTypes, Prefixes, Zenon
  <2>11. closed => closed'
    BY <1>1, Zenon
  <2>12. QED BY <2>9, <2>10, <2>11, StepAbandons, ZenonT(60)
<1>4. QED BY <1>2, <1>3, Zenon

\* Every step of a worker is a step of the inbox.
LEMMA InboxWorker ==
    ASSUME TypeOK, TypeOK', OneInvocationAtATime, CapacityInv, AbortInv, StopInv,
           NEW w \in Workers, WorkerStep(w)
    PROVE  InboxStep
<1> USE DEF mailboxVars, cellVars, dispatcherVars, actorVars, threadVars, workerVars,
            historyVars
<1>1. CASE TakeBatch(w)
  BY <1>1, InboxTake, Zenon
<1>2. CASE Restore(w)
  BY <1>2, InboxRestore, Zenon
<1>3. CASE InvokeUser(w) \/ InvokeSystem(w)
  BY <1>3, InboxInvoke, Zenon
<1>4. CASE BatchReturns(w)
  BY <1>4, InboxReturns, Zenon
<1>5. CASE StopMailbox(w) \/ CloseMailbox(w)
  <2>1. /\ messages' = <<>> /\ UNCHANGED <<batch, systemBatch>>
        /\ UNCHANGED <<system, closed>> \/ (system' = <<>> /\ closed')
    BY <1>5, Zenon DEF StopMailbox, CloseMailbox, StopUserMessages, Close
  <2>2. QED BY <2>1, StepEmpties, Zenon
<1>6. CASE SelfStop(w)
  <2>1. CASE closed
    <3>1. UNCHANGED <<messages, system, batch, systemBatch, closed>>
      BY <1>6, <2>1, Zenon DEF SelfStop
    <3>2. QED BY <3>1, StepStutters, Zenon
  <2>2. CASE ~closed
    <3>1. /\ UNCHANGED <<messages, batch, systemBatch, closed>>
          /\ system' = Append(system, Raw(OwnStop))
      BY <1>6, <2>2, Zenon DEF SelfStop
    <3>2. OwnStop \in Message /\ Raw(OwnStop) \in Item
      BY MessageType, Zenon
    <3>3. ~IsUser(OwnStop) /\ Raw(OwnStop).msg = OwnStop
      BY Zenon DEF IsUser, OwnStop, UserKinds, Raw
    <3>4. QED BY <2>2, <3>1, <3>2, <3>3, StepJoins, Zenon
  <2>3. QED BY <2>1, <2>2, Zenon
<1>7. CASE \/ TakeActivation(w) \/ Enter(w) \/ GiveUp(w) \/ StopCell(w) \/ CompleteStop(w)
           \/ CloseCell(w) \/ Recheck(w) \/ Redispatch(w) \/ RedispatchRefused(w)
           \/ RecoverLocked(w) \/ RecoverSystem(w) \/ Handoff(w) \/ Finish(w)
  <2>1. UNCHANGED <<messages, system, batch, systemBatch, closed>>
    BY <1>7, Zenon DEF TakeActivation, Enter, GiveUp, StopCell, CompleteStop, CloseCell,
       Recheck, Redispatch, RedispatchRefused, RecoverLocked, RecoverSystem, Handoff, Finish
  <2>2. QED BY <2>1, StepStutters, Zenon
<1>8. QED BY <1>1, <1>2, <1>3, <1>4, <1>5, <1>6, <1>7, ZenonT(60) DEF WorkerStep

\* The mailbox starts as an empty inbox.
LEMMA InboxStarts ==
    ASSUME Init
    PROVE  Abstract!InboxInit
<1>1. messages = <<>> /\ system = <<>> /\ closed = FALSE /\ \A w \in Workers : batch[w] = <<>>
  BY Zenon DEF Init
<1>2. ExtractedFrom(batch, systemBatch, FALSE) = <<>> /\ ExtractedFrom(batch, systemBatch, TRUE) = <<>>
  BY <1>1, Zenon DEF ExtractedFrom
<1>3. Extracted(FALSE) = <<>> /\ Extracted(TRUE) = <<>>
  BY <1>2, ExtractedIs, Zenon
<1>4. Unwrap(<<>>) = <<>> /\ <<>> \o <<>> = <<>>
  BY DEF Unwrap
<1>5. /\ Extracted(FALSE) \o Unwrap(messages) = <<>>
      /\ Extracted(TRUE) \o Unwrap(system) = <<>>
  BY <1>1, <1>3, <1>4, Zenon
<1>6. (~closed) = TRUE
  BY <1>1, Zenon
<1>7. QED BY <1>5, <1>6, Zenon DEF Abstract!InboxInit

\* DefaultMailbox is an inbox: whatever senders, workers, refused dispatches,
\* roll-backs, failures and stops do, admitted messages leave each of its two
\* queues in the order they joined it, each at most once; only a roll-back
\* takes one out of turn, its own, and only a stopping actor gives the newest
\* ones up.
THEOREM ImplementsInbox == Spec => InboxSpec
<1>1. Init => Abstract!InboxInit
  BY InboxStarts, Zenon
<1>2. /\ TypeOK /\ TypeOK' /\ OneInvocationAtATime /\ CapacityInv /\ AbortInv /\ StopInv
      /\ [Next]_vars
      => [Abstract!InboxNext]_(Abstract!inboxVars)
  <2>1. SUFFICES ASSUME TypeOK, TypeOK', OneInvocationAtATime, CapacityInv, AbortInv, StopInv,
                        [Next]_vars
                 PROVE  InboxStep
    <3>1. InboxStep => [Abstract!InboxNext]_(Abstract!inboxVars)
      <4>1. CASE Abstract!InboxNext
        BY <4>1, Zenon
      <4>2. CASE UNCHANGED <<User, Lifecycle, closed>>
        BY <4>2, Zenon DEF User, Lifecycle, Abstract!inboxVars
      <4>3. QED BY <4>1, <4>2, Zenon DEF InboxStep
    <3>2. QED BY <3>1, Zenon
  <2>2. CASE StopDispatcher \/ AbandonActivation \/ UNCHANGED vars
    <3>1. UNCHANGED <<messages, system, batch, systemBatch, closed>>
      BY <2>2, Zenon DEF StopDispatcher, AbandonActivation, vars, mailboxVars, workerVars
    <3>2. QED BY <3>1, StepStutters, ZenonT(60)
  <2>3. CASE \E t \in Threads : Tell(t) \/ ThreadStep(t)
    BY <2>1, <2>3, InboxThread, Zenon
  <2>4. CASE \E w \in Workers : WorkerStep(w)
    BY <2>1, <2>4, InboxWorker, Zenon
  <2>5. QED BY <2>1, <2>2, <2>3, <2>4, Zenon DEF Next
<1>3. QED
  BY <1>1, <1>2, TypeCorrect, SingleThreaded, CapacityInductive, StoppingCorrect, PTL
  DEF Spec, InboxSpec, Abstract!InboxSpec
=============================================================================
