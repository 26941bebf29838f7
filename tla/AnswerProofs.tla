---------------------------- MODULE AnswerProofs ----------------------------
(***************************************************************************)
(* What a sender was told comes true, for every instance of Mailbox.tla:   *)
(* where every user message is, by the answer its sender got.              *)
(***************************************************************************)
EXTENDS MailboxProofs

\* Where a user message is that was not turned away.
InBatch(m) == \E w \in Workers : m \in Range(batch[w])
Seen(m) == InBatch(m) \/ m \in MessagesOf(messages) \/ m \in invoked

\* A message whose activation is being published: it is in the deque at most
\* once, in its _Entry, and nowhere else.
Unsent(m) ==
    /\ ~InBatch(m) /\ m \notin invoked
    /\ \A i \in DOMAIN messages : messages[i].msg = m =>
          /\ messages[i] = Entry(m)
          /\ \A j \in DOMAIN messages : messages[j].msg = m => j = i

\* Lifecycle messages and user messages do not mix.
SystemInv ==
    /\ \A m \in MessagesOf(system) : ~IsUser(m)
    /\ \A w \in Workers : systemBatch[w] => \A m \in Range(batch[w]) : ~IsUser(m)

SendPc == {"enqueue", "dispatch", "rollback", "fallback"}

\* A user message on its way into the mailbox has no answer yet, and has not
\* been seen before it is queued nor after it was taken back; one that was not
\* sent yet has neither.
SentInv ==
    /\ \A t \in Threads : tpc[t] \in SendPc /\ IsUser(current[t]) =>
          /\ current[t].from = t /\ current[t].n = sent[t]
          /\ told[current[t]] = "nothing"
          /\ tpc[t] \in {"enqueue", "fallback"} => ~Seen(current[t])
          /\ tpc[t] \in {"dispatch", "rollback"} => Unsent(current[t])
    /\ \A m \in UserMessage : m.n > sent[m.from] => told[m] = "nothing" /\ ~Seen(m)

\* AnswerIsKept in these terms.
Answered ==
    \A m \in UserMessage :
       /\ told[m] = "accepted" => Seen(m) \/ m \in deadLetters \cup discarded
       /\ told[m] = "refused" => ~Seen(m)

\* What a deque holds are the messages a batch would extract from it.
LEMMA MessagesAre ==
    ASSUME NEW q \in Seq(Item)
    PROVE  MessagesOf(q) = Range(Unwrap(q))
<1>1. DOMAIN Unwrap(q) = DOMAIN q /\ \A i \in DOMAIN q : Unwrap(q)[i] = q[i].msg
  BY Zenon DEF Unwrap
<1>2. QED BY <1>1, Zenon DEF MessagesOf, Range

\* One message more.
LEMMA MessagesAppend ==
    ASSUME NEW q \in Seq(Item), NEW item \in Item
    PROVE  MessagesOf(Append(q, item)) = MessagesOf(q) \cup {item.msg}
<1>1. PICK n \in Nat, r \in Seq(Item) :
         /\ n = Len(q) /\ r = Append(q, item) /\ Len(r) = n + 1
         /\ \A i \in 1..n : r[i] = q[i]
         /\ r[n + 1] = item
  <2>1. Len(q) \in Nat
    BY LenProperties, Zenon
  <2>2. /\ Append(q, item) \in Seq(Item) /\ Len(Append(q, item)) = Len(q) + 1
        /\ \A i \in 1..Len(q) : Append(q, item)[i] = q[i]
        /\ Append(q, item)[Len(q) + 1] = item
    BY AppendProperties
  <2>3. QED BY <2>1, <2>2, Zenon
<1>2. DOMAIN q = 1..n /\ DOMAIN r = 1..n + 1 /\ 1..n + 1 = 1..n \cup {n + 1}
  BY <1>1, LenProperties
<1>3. MessagesOf(r) = MessagesOf(q) \cup {item.msg}
  <2>1. ASSUME NEW m PROVE m \in MessagesOf(r) <=> m \in MessagesOf(q) \/ m = item.msg
    BY <1>1, <1>2, ZenonT(60) DEF MessagesOf
  <2>2. QED BY <2>1, Zenon
<1>4. QED BY <1>1, <1>3, Zenon

\* One deque behind another.
LEMMA MessagesConcat ==
    ASSUME NEW p \in Seq(Item), NEW q \in Seq(Item)
    PROVE  MessagesOf(p \o q) = MessagesOf(p) \cup MessagesOf(q)
<1>1. p \o q \in Seq(Item)
  BY ConcatProperties, Zenon
<1>2. PICK u \in Seq(Message), v \in Seq(Message) :
         u = Unwrap(p) /\ v = Unwrap(q) /\ Unwrap(p \o q) = u \o v
  BY UnwrapConcat, UnwrapType, Zenon
<1>3. Range(u \o v) = Range(u) \cup Range(v)
  BY RangeConcatenation, ZenonT(60)
<1>4. QED BY <1>1, <1>2, <1>3, MessagesAre, Zenon

\* A batch and what it leaves behind.
LEMMA MessagesSplit ==
    ASSUME NEW q \in Seq(Item)
    PROVE  MessagesOf(q) = Range(Unwrap(First(q))) \cup MessagesOf(Rest(q))
<1>1. First(q) \in Seq(Item) /\ Rest(q) \in Seq(Item)
  BY FirstRestType, Zenon
<1>2. PICK f \in Seq(Message), r \in Seq(Message) : f = Unwrap(First(q)) /\ r = Unwrap(Rest(q))
  BY <1>1, UnwrapType, Zenon
<1>3. f \o r = Unwrap(q)
  BY <1>2, UnwrapSplit, Zenon
<1>4. Range(f \o r) = Range(f) \cup Range(r)
  BY RangeConcatenation, ZenonT(60)
<1>5. QED BY <1>1, <1>2, <1>3, <1>4, MessagesAre, Zenon

\* A rest that goes back.
LEMMA MessagesRestore ==
    ASSUME NEW ms \in Seq(Message), NEW q \in Seq(Item)
    PROVE  MessagesOf(Wrap(ms) \o q) = Range(ms) \cup MessagesOf(q)
<1>1. Wrap(ms) \o q \in Seq(Item)
  <2>1. Wrap(ms) \in Seq(Item)
    BY WrapType, Zenon
  <2>2. QED BY <2>1, ConcatProperties, Zenon
<1>2. MessagesOf(Wrap(ms) \o q) = Range(ms \o Unwrap(q))
  BY <1>1, MessagesAre, UnwrapRestore, Zenon
<1>3. Unwrap(q) \in Seq(Message)
  BY UnwrapType, Zenon
<1>4. Range(ms \o Unwrap(q)) = Range(ms) \cup Range(Unwrap(q))
  BY <1>3, RangeConcatenation, ZenonT(60)
<1>5. QED BY <1>2, <1>4, MessagesAre, Zenon

\* The message that is invoked, and the rest of its batch.
LEMMA HeadAndTail ==
    ASSUME NEW ms \in Seq(Message), ms # <<>>
    PROVE  Range(ms) = {Head(ms)} \cup Range(Tail(ms))
<1>1. PICK n \in Nat : n = Len(ms) /\ n # 0
  BY LenProperties, EmptySeq, Zenon
<1>2. PICK r \in Seq(Message) : r = Tail(ms) /\ Len(r) = n - 1 /\ \A i \in 1..n - 1 : r[i] = ms[i + 1]
  <2>1. /\ Tail(ms) \in Seq(Message) /\ Len(Tail(ms)) = Len(ms) - 1
        /\ \A i \in 1..Len(Tail(ms)) : Tail(ms)[i] = ms[i + 1]
    BY HeadTailProperties, Zenon
  <2>2. QED BY <1>1, <2>1, Zenon
<1>3. DOMAIN ms = 1..n /\ DOMAIN r = 1..n - 1 /\ Head(ms) = ms[1]
  BY <1>1, <1>2, LenProperties
<1>4. ASSUME NEW m PROVE m \in Range(ms) <=> m = ms[1] \/ m \in Range(r)
  <2>1. ASSUME m \in Range(ms) PROVE m = ms[1] \/ m \in Range(r)
    <3>1. PICK i \in 1..n : m = ms[i]
      BY <1>3, <2>1, Zenon DEF Range
    <3>2. CASE i = 1
      BY <3>1, <3>2, Zenon
    <3>3. CASE i # 1
      <4>1. i - 1 \in 1..n - 1 /\ (i - 1) + 1 = i
        BY <3>3
      <4>2. r[i - 1] = m
        BY <1>2, <3>1, <4>1, Zenon
      <4>3. QED BY <1>3, <4>1, <4>2, Zenon DEF Range
    <3>4. QED BY <3>2, <3>3, Zenon
  <2>2. ASSUME m = ms[1] \/ m \in Range(r) PROVE m \in Range(ms)
    <3>1. CASE m = ms[1]
      <4>1. 1 \in 1..n
        BY <1>1
      <4>2. QED BY <1>3, <3>1, <4>1, Zenon DEF Range
    <3>2. CASE m \in Range(r)
      <4>1. PICK i \in 1..n - 1 : m = r[i]
        BY <1>3, <3>2, Zenon DEF Range
      <4>2. i + 1 \in 1..n
        BY <1>1
      <4>3. QED BY <1>2, <1>3, <4>1, <4>2, Zenon DEF Range
    <3>3. QED BY <2>2, <3>1, <3>2, Zenon
  <2>3. QED BY <2>1, <2>2, Zenon
<1>5. QED BY <1>2, <1>3, <1>4, Zenon

\* An entry that is taken out, and whose message no other item holds, takes
\* its message with it and no other.
LEMMA MessagesWithout ==
    ASSUME NEW q \in Seq(Item), NEW e, \E i \in DOMAIN q : q[i] = e,
           \A i, j \in DOMAIN q : q[i].msg = e.msg /\ q[j].msg = e.msg => j = i
    PROVE  MessagesOf(Without(q, e)) = MessagesOf(q) \ {e.msg}
<1>1. PICK n \in Nat : n = Len(q) /\ DOMAIN q = 1..n
  BY LenProperties, Zenon
<1>2. PICK k \in 1..n : /\ q[k] = e
                        /\ Without(q, e) = SubSeq(q, 1, k - 1) \o SubSeq(q, k + 1, n)
  <2> DEFINE c == CHOOSE i \in DOMAIN q : q[i] = e
  <2>1. c \in DOMAIN q /\ q[c] = e
    BY Zenon
  <2>2. Without(q, e) = SubSeq(q, 1, c - 1) \o SubSeq(q, c + 1, Len(q))
    BY Zenon DEF Without
  <2> HIDE DEF c
  <2>3. QED BY <1>1, <2>1, <2>2, Zenon
<1>3. \A i \in 1..n : q[i] \in Item
  BY <1>1, ElementOfSeq, Zenon
<1>4. PICK f \in Seq(Item) : /\ f = SubSeq(q, 1, k - 1) /\ Len(f) = k - 1
                             /\ \A i \in 1..k - 1 : f[i] = q[i]
  <2>1. 1 \in Int /\ k - 1 \in Int /\ \A i \in 1..k - 1 : q[i] \in Item
    BY <1>3
  <2>2. /\ SubSeq(q, 1, k - 1) \in Seq(Item)
        /\ Len(SubSeq(q, 1, k - 1)) = IF 1 <= k - 1 THEN (k - 1) - 1 + 1 ELSE 0
        /\ \A i \in 1..(k - 1) - 1 + 1 : SubSeq(q, 1, k - 1)[i] = q[1 + i - 1]
    BY <2>1, SubSeqProperties
  <2>3. PICK f \in Seq(Item) : /\ f = SubSeq(q, 1, k - 1)
                               /\ Len(f) = IF 1 <= k - 1 THEN (k - 1) - 1 + 1 ELSE 0
                               /\ \A i \in 1..(k - 1) - 1 + 1 : f[i] = q[1 + i - 1]
    BY <2>2, Zenon
  <2>4. Len(f) = k - 1 /\ \A i \in 1..k - 1 : f[i] = q[i]
    BY <2>3
  <2>5. QED BY <2>3, <2>4, Zenon
<1>5. PICK r \in Seq(Item) : /\ r = SubSeq(q, k + 1, n) /\ Len(r) = n - k
                             /\ \A i \in 1..n - k : r[i] = q[k + i]
  <2>1. k + 1 \in Int /\ n \in Int /\ \A i \in k + 1..n : q[i] \in Item
    BY <1>3
  <2>2. /\ SubSeq(q, k + 1, n) \in Seq(Item)
        /\ Len(SubSeq(q, k + 1, n)) = IF k + 1 <= n THEN n - (k + 1) + 1 ELSE 0
        /\ \A i \in 1..n - (k + 1) + 1 : SubSeq(q, k + 1, n)[i] = q[(k + 1) + i - 1]
    BY <2>1, SubSeqProperties
  <2>3. PICK x \in Seq(Item) :
           /\ x = SubSeq(q, k + 1, n)
           /\ Len(x) = IF k + 1 <= n THEN n - (k + 1) + 1 ELSE 0
           /\ \A i \in 1..n - (k + 1) + 1 : x[i] = q[(k + 1) + i - 1]
    BY <2>2, Zenon
  <2>4. Len(x) = n - k
    BY <2>3
  <2>5. ASSUME NEW i \in 1..n - k PROVE x[i] = q[k + i]
    <3>1. i \in 1..n - (k + 1) + 1 /\ (k + 1) + i - 1 = k + i
      BY <1>1
    <3>2. QED BY <2>3, <3>1, Zenon
  <2>6. QED BY <2>3, <2>4, <2>5, Zenon
<1>9. MessagesOf(f \o r) = MessagesOf(f) \cup MessagesOf(r)
  BY MessagesConcat, Zenon
<1>10. DOMAIN f = 1..k - 1 /\ DOMAIN r = 1..n - k
  BY <1>4, <1>5, LenProperties, ZenonT(60)
<1>11. ASSUME NEW m
       PROVE  m \in MessagesOf(f) \cup MessagesOf(r) <=> m \in MessagesOf(q) /\ m # e.msg
  <2>1. ASSUME m \in MessagesOf(f) PROVE m \in MessagesOf(q) /\ m # e.msg
    <3>1. PICK i \in 1..k - 1 : m = f[i].msg
      BY <1>10, <2>1, Zenon DEF MessagesOf
    <3>2. i \in 1..n /\ i # k /\ m = q[i].msg
      BY <1>4, <3>1
    <3>3. QED BY <1>1, <1>2, <3>2, Zenon DEF MessagesOf
  <2>2. ASSUME m \in MessagesOf(r) PROVE m \in MessagesOf(q) /\ m # e.msg
    <3>1. PICK i \in 1..n - k : m = r[i].msg
      BY <1>10, <2>2, Zenon DEF MessagesOf
    <3>2. k + i \in 1..n /\ k + i # k /\ m = q[k + i].msg
      BY <1>5, <3>1, SMTT(45)
    <3>3. QED BY <1>1, <1>2, <3>2, Zenon DEF MessagesOf
  <2>3. ASSUME m \in MessagesOf(q), m # e.msg PROVE m \in MessagesOf(f) \cup MessagesOf(r)
    <3>1. PICK i \in 1..n : m = q[i].msg
      BY <1>1, <2>3, Zenon DEF MessagesOf
    <3>2. i # k
      BY <1>2, <2>3, <3>1, Zenon
    <3>3. CASE i < k
      <4>1. i \in 1..k - 1
        BY <3>3
      <4>2. QED BY <1>4, <1>10, <3>1, <4>1, Zenon DEF MessagesOf
    <3>4. CASE i > k
      <4>1. PICK j \in 1..n - k : k + j = i
        <5>1. i - k \in 1..n - k /\ k + (i - k) = i
          BY <3>4
        <5>2. QED BY <5>1, Zenon
      <4>2. r[j] = q[i]
        BY <1>5, <4>1, Zenon
      <4>3. QED BY <1>10, <3>1, <4>2, Zenon DEF MessagesOf
    <3>5. QED BY <3>2, <3>3, <3>4
  <2>4. QED BY <2>1, <2>2, <2>3, Zenon
<1>12. QED BY <1>2, <1>4, <1>5, <1>9, <1>11, ZenonT(60)


\* Nothing is in an empty deque, nor in an empty batch.
LEMMA NoMessages == MessagesOf(<<>>) = {} /\ Range(<<>>) = {}
BY DEF MessagesOf, Range

\* A sender puts a user message into the one deque and a lifecycle message
\* into the other.
LEMMA SystemThread ==
    ASSUME TypeOK, SystemInv, NEW t \in Threads, Tell(t) \/ ThreadStep(t)
    PROVE  SystemInv'
<1> USE DEF mailboxVars, cellVars, dispatcherVars, actorVars, threadVars, workerVars,
            historyVars
<1>1. ASSUME UNCHANGED <<batch, systemBatch>>, \A m \in MessagesOf(system') : ~IsUser(m)
      PROVE  SystemInv'
  BY <1>1, Zenon DEF SystemInv
<1>2. CASE EnqueueQueued(t) \/ EnqueueScheduled(t)
  <2>1. /\ UNCHANGED <<batch, systemBatch>>
        /\ \/ system' = system
           \/ ~IsUser(current[t]) /\ system' = Append(system, Raw(current[t]))
           \/ ~IsUser(current[t]) /\ system' = Append(system, Entry(current[t]))
    <3>1. CASE EnqueueQueued(t)
      BY <3>1, Zenon DEF EnqueueQueued, Put
    <3>2. CASE EnqueueScheduled(t)
      BY <3>2, Zenon DEF EnqueueScheduled, Put
    <3>3. QED BY <1>2, <3>1, <3>2, Zenon
  <2>2. Raw(current[t]) \in Item /\ Entry(current[t]) \in Item /\ system \in Seq(Item)
    BY MessageType, Zenon DEF TypeOK
  <2>3. Raw(current[t]).msg = current[t] /\ Entry(current[t]).msg = current[t]
    BY Zenon DEF Raw, Entry
  <2>4. \/ system' = system
        \/ ~IsUser(current[t]) /\ MessagesOf(system') = MessagesOf(system) \cup {current[t]}
    BY <2>1, <2>2, <2>3, MessagesAppend, Zenon
  <2>5. \A m \in MessagesOf(system') : ~IsUser(m)
    BY <2>4, Zenon DEF SystemInv
  <2>6. QED BY <1>1, <2>1, <2>5, Zenon
<1>3. CASE AbortClose(t)
  <2>1. system' = <<>> /\ UNCHANGED <<batch, systemBatch>>
    BY <1>3, Zenon DEF AbortClose, Close
  <2>2. QED BY <1>1, <2>1, NoMessages, Zenon
<1>4. CASE \/ Tell(t) \/ EnqueueStopping(t) \/ EnqueueFull(t) \/ Dispatch(t)
           \/ DispatchRefused(t) \/ Rollback(t) \/ Fallback(t) \/ FallbackFails(t)
           \/ AbortStart(t) \/ AbortStop(t) \/ AbortCell(t)
  <2>1. UNCHANGED <<system, batch, systemBatch>>
    BY <1>4, Zenon DEF Tell, EnqueueStopping, EnqueueFull, Dispatch, DispatchRefused, Rollback,
       Fallback, FallbackFails, AbortStart, AbortStop, StopUserMessages, AbortCell
  <2>2. QED BY <1>1, <2>1, Zenon DEF SystemInv
<1>5. QED BY <1>2, <1>3, <1>4, Zenon DEF ThreadStep

\* A worker takes a batch of the one or of the other, and puts it back there.
LEMMA SystemWorker ==
    ASSUME TypeOK, SystemInv, NEW w \in Workers, WorkerStep(w)
    PROVE  SystemInv'
<1> USE DEF mailboxVars, cellVars, dispatcherVars, actorVars, threadVars, workerVars,
            historyVars
<1>0. /\ system \in Seq(Item) /\ batch[w] \in Seq(Message) /\ w \in DOMAIN batch
      /\ w \in DOMAIN systemBatch
  BY Zenon DEF TypeOK
<1>1. ASSUME \A v \in Workers : v # w => batch'[v] = batch[v] /\ systemBatch'[v] = systemBatch[v],
             systemBatch'[w] => \A m \in Range(batch'[w]) : ~IsUser(m),
             \A m \in MessagesOf(system') : ~IsUser(m)
      PROVE  SystemInv'
  BY <1>1, Zenon DEF SystemInv
<1>2. CASE TakeBatch(w)
  <2>1. CASE LifecycleFirst
    <3>1. /\ batch' = [batch EXCEPT ![w] = Unwrap(First(system))]
          /\ system' = Rest(system) /\ systemBatch' = [systemBatch EXCEPT ![w] = TRUE]
      BY <1>2, <2>1, Zenon DEF TakeBatch
    <3>2. batch'[w] = Unwrap(First(system))
      BY <1>0, <3>1, Zenon
    <3>3. MessagesOf(system) = Range(batch'[w]) \cup MessagesOf(system')
      BY <1>0, <3>1, <3>2, MessagesSplit, Zenon
    <3>4. \A v \in Workers : v # w => batch'[v] = batch[v] /\ systemBatch'[v] = systemBatch[v]
      BY <3>1, Zenon DEF TypeOK
    <3>5. QED BY <1>1, <3>3, <3>4, Zenon DEF SystemInv
  <2>2. CASE ~LifecycleFirst
    <3>1. /\ batch' = [batch EXCEPT ![w] = Unwrap(First(messages))]
          /\ system' = system /\ systemBatch' = [systemBatch EXCEPT ![w] = FALSE]
      BY <1>2, <2>2, Zenon DEF TakeBatch
    <3>2. ~systemBatch'[w]
      BY <1>0, <3>1, Zenon
    <3>3. \A v \in Workers : v # w => batch'[v] = batch[v] /\ systemBatch'[v] = systemBatch[v]
      BY <3>1, Zenon DEF TypeOK
    <3>4. QED BY <1>1, <3>1, <3>2, <3>3, Zenon DEF SystemInv
  <2>3. QED BY <2>1, <2>2, Zenon
<1>3. CASE Restore(w)
  <2>1. /\ batch' = [batch EXCEPT ![w] = <<>>] /\ systemBatch' = systemBatch
        /\ system' = system \/ (systemBatch[w] /\ system' = Wrap(batch[w]) \o system)
    BY <1>3, Zenon DEF Restore, PutBack
  <2>2. batch'[w] = <<>> /\ \A v \in Workers : v # w => batch'[v] = batch[v]
    BY <1>0, <2>1, Zenon DEF TypeOK
  <2>3. \/ system' = system
        \/ systemBatch[w] /\ MessagesOf(system') = Range(batch[w]) \cup MessagesOf(system)
    BY <1>0, <2>1, MessagesRestore, Zenon
  <2>4. \A m \in MessagesOf(system') : ~IsUser(m)
    BY <2>3, Zenon DEF SystemInv
  <2>5. \A m \in Range(batch'[w]) : ~IsUser(m)
    BY <2>2, NoMessages, Zenon
  <2>6. QED BY <1>1, <2>1, <2>2, <2>4, <2>5, Zenon
<1>4. CASE InvokeUser(w) \/ InvokeSystem(w)
  <2>1. /\ batch[w] # <<>> /\ batch' = [batch EXCEPT ![w] = Tail(@)]
        /\ UNCHANGED <<system, systemBatch>>
    BY <1>4, Zenon DEF InvokeUser, InvokeSystem
  <2>2. batch'[w] = Tail(batch[w]) /\ \A v \in Workers : v # w => batch'[v] = batch[v]
    BY <1>0, <2>1, ZenonT(60) DEF TypeOK
  <2>3. \A m \in Range(batch'[w]) : m \in Range(batch[w])
    BY <1>0, <2>1, <2>2, HeadAndTail, Zenon
  <2>4. QED BY <1>1, <2>1, <2>2, <2>3, Zenon DEF SystemInv
<1>5. CASE BatchReturns(w)
  <2>1. /\ UNCHANGED <<system, systemBatch>>
        /\ batch' = batch \/ batch' = [batch EXCEPT ![w] = <<>>]
    BY <1>5, Zenon DEF BatchReturns
  <2>2. /\ batch'[w] = batch[w] \/ batch'[w] = <<>>
        /\ \A v \in Workers : v # w => batch'[v] = batch[v]
    BY <1>0, <2>1, ZenonT(60) DEF TypeOK
  <2>3. \A m \in Range(batch'[w]) : m \in Range(batch[w])
    BY <2>2, NoMessages, Zenon
  <2>4. QED BY <1>1, <2>1, <2>2, <2>3, Zenon DEF SystemInv
<1>6. CASE SelfStop(w)
  <2>1. /\ UNCHANGED <<batch, systemBatch>>
        /\ system' = system \/ system' = Append(system, Raw(OwnStop))
    BY <1>6, Zenon DEF SelfStop
  <2>2. Raw(OwnStop) \in Item
    BY MessageType, Zenon
  <2>3. Raw(OwnStop).msg = OwnStop /\ ~IsUser(OwnStop)
    BY Zenon DEF Raw, OwnStop, IsUser, UserKinds
  <2>4. system' = system \/ MessagesOf(system') = MessagesOf(system) \cup {OwnStop}
    BY <1>0, <2>1, <2>2, <2>3, MessagesAppend, Zenon
  <2>5. \A m \in MessagesOf(system') : m \in MessagesOf(system) \/ m = OwnStop
    BY <2>4, Zenon
  <2>6. \A m \in MessagesOf(system') : ~IsUser(m)
    BY <2>3, <2>5, Zenon DEF SystemInv
  <2>7. QED BY <1>1, <2>1, <2>6, Zenon DEF SystemInv
<1>7. CASE CloseMailbox(w)
  <2>1. UNCHANGED <<batch, systemBatch>> /\ system' = <<>>
    BY <1>7, Zenon DEF CloseMailbox, Close
  <2>2. QED BY <1>1, <2>1, NoMessages, Zenon DEF SystemInv
<1>8. CASE \/ TakeActivation(w) \/ Enter(w) \/ GiveUp(w) \/ StopCell(w) \/ CompleteStop(w)
           \/ StopMailbox(w)
           \/ CloseCell(w) \/ Recheck(w) \/ Redispatch(w) \/ RedispatchRefused(w)
           \/ RecoverLocked(w) \/ RecoverSystem(w) \/ Handoff(w) \/ Finish(w)
  <2>1. UNCHANGED <<system, batch, systemBatch>>
    BY <1>8, Zenon DEF TakeActivation, Enter, GiveUp, StopCell, CompleteStop, CloseCell,
       StopMailbox, StopUserMessages,
       Recheck, Redispatch, RedispatchRefused, RecoverLocked, RecoverSystem, Handoff, Finish
  <2>2. QED BY <1>1, <2>1, Zenon DEF SystemInv
<1>9. QED BY <1>2, <1>3, <1>4, <1>5, <1>6, <1>7, <1>8, ZenonT(60) DEF WorkerStep


\* A step that keeps the messages where they are and sends none.
LEMMA SettledStays ==
    ASSUME SentInv, Answered, UNCHANGED <<messages, batch, invoked, told, sent, discarded>>,
           deadLetters \subseteq deadLetters',
           \A u \in Threads : tpc'[u] \in SendPc => tpc'[u] = tpc[u] /\ current'[u] = current[u]
    PROVE  SentInv' /\ Answered'
<1>1. \A m : (Seen(m)' <=> Seen(m)) /\ (Unsent(m)' <=> Unsent(m))
  BY Zenon DEF Seen, Unsent, InBatch
<1>2. Answered'
  BY <1>1, Zenon DEF Answered
<1>3. SentInv'
  <2>1. ASSUME NEW m \in UserMessage, m.n > sent'[m.from]
        PROVE  told'[m] = "nothing" /\ ~Seen(m)'
    BY <1>1, <2>1, Zenon DEF SentInv
  <2>2. ASSUME NEW t \in Threads, tpc'[t] \in SendPc, IsUser(current'[t])
        PROVE  /\ current'[t].from = t /\ current'[t].n = sent'[t]
               /\ told'[current'[t]] = "nothing"
               /\ tpc'[t] \in {"enqueue", "fallback"} => ~Seen(current[t])'
               /\ tpc'[t] \in {"dispatch", "rollback"} => Unsent(current[t])'
    <3>1. tpc'[t] = tpc[t] /\ current'[t] = current[t]
      BY <2>2, Zenon
    <3>2. QED BY <1>1, <2>2, <3>1, ZenonT(60) DEF SentInv
  <2>3. QED BY <2>1, <2>2, Zenon DEF SentInv
<1>4. QED BY <1>2, <1>3, Zenon

\* A step that moves messages on while no thread is publishing an activation.
LEMMA SettledMoves ==
    ASSUME SentInv, Answered, UNCHANGED <<told, sent>>,
           deadLetters \subseteq deadLetters', discarded \subseteq discarded',
           \A u \in Threads : tpc'[u] \in SendPc => tpc'[u] = tpc[u] /\ current'[u] = current[u],
           \A u \in Threads : ~ThreadOwns(u),
           \A m \in UserMessage : Seen(m)' => Seen(m),
           \A m \in UserMessage : Seen(m) => Seen(m)' \/ m \in deadLetters' \cup discarded',
           TypeOK
    PROVE  SentInv' /\ Answered'
<1>1. Answered'
  BY Zenon DEF Answered
<1>2. SentInv'
  <2>1. ASSUME NEW m \in UserMessage, m.n > sent'[m.from]
        PROVE  told'[m] = "nothing" /\ ~Seen(m)'
    BY <2>1, Zenon DEF SentInv
  <2>2. ASSUME NEW t \in Threads, tpc'[t] \in SendPc, IsUser(current'[t])
        PROVE  /\ current'[t].from = t /\ current'[t].n = sent'[t]
               /\ told'[current'[t]] = "nothing"
               /\ tpc'[t] \in {"enqueue", "fallback"} => ~Seen(current[t])'
               /\ tpc'[t] \in {"dispatch", "rollback"} => Unsent(current[t])'
    <3>1. tpc'[t] = tpc[t] /\ current'[t] = current[t]
      BY <2>2, Zenon
    <3>2. tpc[t] = "enqueue"
      BY <2>2, <3>1, Zenon DEF ThreadOwns, SendPc
    <3>3. current[t] \in UserMessage
      BY <2>2, <3>1, MessageType, ZenonT(60) DEF TypeOK
    <3>4. /\ current[t].from = t /\ current[t].n = sent[t]
          /\ told[current[t]] = "nothing" /\ ~Seen(current[t])
      BY <2>2, <3>1, <3>2, Zenon DEF SentInv, SendPc
    <3>5. ~Seen(current[t])'
      BY <3>1, <3>3, <3>4, ZenonT(60)
    <3>6. tpc'[t] \notin {"dispatch", "rollback"}
      BY <3>1, <3>2, Zenon
    <3>7. QED BY <3>1, <3>4, <3>5, <3>6, Zenon
  <2>3. QED BY <2>1, <2>2, Zenon DEF SentInv
<1>3. QED BY <1>1, <1>2, Zenon


\* The send of one thread: what it does to its own message, and that it leaves
\* those of the other threads alone.
LEMMA SettledSend ==
    ASSUME TypeOK, SentInv, Answered, NEW t \in Threads, tpc[t] \in SendPc,
           UNCHANGED <<sent, current>>, \A u \in Threads : u # t => tpc'[u] = tpc[u],
           deadLetters \subseteq deadLetters', discarded \subseteq discarded',
           \A m \in UserMessage : m # current[t] =>
              told'[m] = told[m] /\ (Seen(m)' <=> Seen(m)),
           \A u \in Threads : u # t /\ IsUser(current[u]) /\ tpc[u] \in {"dispatch", "rollback"}
              => Unsent(current[u])',
           IsUser(current[t]) =>
              /\ tpc'[t] \in SendPc => told'[current[t]] = "nothing"
              /\ tpc'[t] \in {"enqueue", "fallback"} => ~Seen(current[t])'
              /\ tpc'[t] \in {"dispatch", "rollback"} => Unsent(current[t])'
              /\ told'[current[t]] = "accepted" => Seen(current[t])'
              /\ told'[current[t]] = "refused" => ~Seen(current[t])'
    PROVE  SentInv' /\ Answered'
<1>0. \A u \in Threads : IsUser(current[u]) => current[u] \in UserMessage
  BY MessageType, Zenon DEF TypeOK
<1>1. \A m \in UserMessage : m = current[t] => IsUser(current[t])
  BY Zenon DEF UserMessage
<1>2. Answered'
  <2>1. ASSUME NEW m \in UserMessage
        PROVE  /\ told'[m] = "accepted" => Seen(m)' \/ m \in deadLetters' \cup discarded'
               /\ told'[m] = "refused" => ~Seen(m)'
    <3>1. CASE m = current[t]
      <4>1. /\ told'[current[t]] = "accepted" => Seen(current[t])'
            /\ told'[current[t]] = "refused" => ~Seen(current[t])'
        BY <1>1, <3>1, Zenon
      <4>2. Seen(m)' <=> Seen(current[t])'
        BY <3>1, Zenon DEF Seen, InBatch
      <4>3. QED BY <3>1, <4>1, <4>2, Zenon
    <3>2. CASE m # current[t]
      BY <3>2, Zenon DEF Answered
    <3>3. QED BY <3>1, <3>2, Zenon
  <2>2. QED BY <2>1, Zenon DEF Answered
<1>3. SentInv'
  <2>1. ASSUME NEW m \in UserMessage, m.n > sent'[m.from]
        PROVE  told'[m] = "nothing" /\ ~Seen(m)'
    <3>1. m # current[t]
      <4>1. SUFFICES ASSUME m = current[t] PROVE FALSE
        BY Zenon
      <4>2. current[t].from = t /\ current[t].n = sent[t]
        BY <1>1, <4>1, Zenon DEF SentInv
      <4>3. sent[t] > sent[t] /\ sent[t] \in Nat
        BY <2>1, <4>1, <4>2, SMTT(45) DEF TypeOK
      <4>4. QED BY <4>3
    <3>2. QED BY <2>1, <3>1, Zenon DEF SentInv
  <2>2. ASSUME NEW u \in Threads, tpc'[u] \in SendPc, IsUser(current'[u])
        PROVE  /\ current'[u].from = u /\ current'[u].n = sent'[u]
               /\ told'[current'[u]] = "nothing"
               /\ tpc'[u] \in {"enqueue", "fallback"} => ~Seen(current[u])'
               /\ tpc'[u] \in {"dispatch", "rollback"} => Unsent(current[u])'
    <3>1. CASE u = t
      <4>1. IsUser(current[t]) /\ tpc'[t] \in SendPc
        BY <2>2, <3>1, Zenon
      <4>2. current[t].from = t /\ current[t].n = sent[t]
        BY <4>1, Zenon DEF SentInv
      <4>3. QED BY <3>1, <4>1, <4>2, Zenon
    <3>2. CASE u # t
      <4>1. tpc'[u] = tpc[u] /\ tpc[u] \in SendPc /\ IsUser(current[u])
        BY <2>2, <3>2, Zenon
      <4>2. /\ current[u].from = u /\ current[u].n = sent[u]
            /\ told[current[u]] = "nothing"
            /\ tpc[u] \in {"enqueue", "fallback"} => ~Seen(current[u])
        BY <4>1, Zenon DEF SentInv
      <4>3. current[u] # current[t]
        <5>1. IsUser(current[t]) => current[t].from = t
          BY Zenon DEF SentInv
        <5>2. QED BY <3>2, <4>1, <4>2, <5>1, Zenon
      <4>4. told'[current[u]] = "nothing" /\ (Seen(current[u])' <=> Seen(current[u]))
        <5>1. PICK m \in UserMessage : m = current[u]
          BY <1>0, <4>1, Zenon
        <5>2. told'[m] = told[m] /\ (Seen(m)' <=> Seen(m))
          BY <4>3, <5>1, Zenon
        <5>3. Seen(m)' <=> Seen(current[u])'
          BY <5>1, Zenon DEF Seen, InBatch
        <5>4. QED BY <4>2, <5>1, <5>2, <5>3, Zenon
      <4>5. QED BY <3>2, <4>1, <4>2, <4>4, Zenon
    <3>3. QED BY <3>1, <3>2, Zenon
  <2>3. QED BY <2>1, <2>2, Zenon DEF SentInv
<1>4. QED BY <1>2, <1>3, Zenon


\* What Report does to the answers.
LEMMA Reported ==
    ASSUME TypeOK, NEW t \in Threads, NEW what, Report(t, what)
    PROVE  /\ \A m \in UserMessage : m # current[t] => told'[m] = told[m]
           /\ IsUser(current[t]) => told'[current[t]] = what
<1>1. told \in [UserMessage -> {"nothing", "accepted", "refused", "returned"}]
  BY Zenon DEF TypeOK
<1>2. IsUser(current[t]) => current[t] \in UserMessage
  BY MessageType, Zenon DEF TypeOK
<1>3. QED BY <1>1, <1>2, Zenon DEF Report

\* A sender that is turned away, or gives up, and reports it.
LEMMA AnswerTurnedAway ==
    ASSUME TypeOK, SentInv, Answered, NEW t \in Threads, tpc[t] \in {"enqueue", "fallback"},
           NEW what \in {"refused", "returned"}, Report(t, what),
           UNCHANGED <<messages, batch, invoked, sent, current, discarded>>,
           deadLetters \subseteq deadLetters',
           \A u \in Threads : u # t => tpc'[u] = tpc[u], tpc'[t] \notin SendPc
    PROVE  SentInv' /\ Answered'
<1>1. tpc[t] \in SendPc /\ what # "accepted"
  BY Zenon DEF SendPc
<1>2. \A m : (Seen(m)' <=> Seen(m)) /\ (Unsent(m)' <=> Unsent(m))
  BY Zenon DEF Seen, Unsent, InBatch
<1>3. /\ \A m \in UserMessage : m # current[t] => told'[m] = told[m]
      /\ IsUser(current[t]) => told'[current[t]] = what
  BY Reported, Zenon
<1>4. IsUser(current[t]) => ~Seen(current[t])
  BY <1>1, Zenon DEF SentInv
<1>5. ASSUME NEW u \in Threads, IsUser(current[u]), tpc[u] \in {"dispatch", "rollback"}
      PROVE  Unsent(current[u])'
  <2>1. tpc[u] \in SendPc
    BY <1>5, Zenon DEF SendPc
  <2>2. Unsent(current[u])
    BY <1>5, <2>1, Zenon DEF SentInv
  <2>3. QED BY <2>2, Zenon DEF Unsent, InBatch
<1>6. IsUser(current[t]) => ~Seen(current[t])'
  BY <1>4, Zenon DEF Seen, InBatch
<1>7. tpc'[t] \notin {"enqueue", "fallback"} /\ tpc'[t] \notin {"dispatch", "rollback"}
  BY Zenon DEF SendPc
<1>8. IsUser(current[t]) =>
              /\ tpc'[t] \in SendPc => told'[current[t]] = "nothing"
              /\ tpc'[t] \in {"enqueue", "fallback"} => ~Seen(current[t])'
              /\ tpc'[t] \in {"dispatch", "rollback"} => Unsent(current[t])'
              /\ told'[current[t]] = "accepted" => Seen(current[t])'
              /\ told'[current[t]] = "refused" => ~Seen(current[t])'
  BY <1>1, <1>3, <1>6, <1>7, Zenon
<1>9. \A m \in UserMessage : m # current[t] => told'[m] = told[m] /\ (Seen(m)' <=> Seen(m))
  BY <1>2, <1>3, Zenon
<1>10. discarded \subseteq discarded' /\ UNCHANGED <<sent, current>>
  BY Zenon
<1>11. QED BY <1>1, <1>5, <1>8, <1>9, <1>10, SettledSend, ZenonT(60)

\* A new message: nobody has seen it, and it has no answer.
LEMMA AnswerTell ==
    ASSUME TypeOK, SentInv, Answered, NEW t \in Threads, Tell(t)
    PROVE  SentInv' /\ Answered'
<1> USE DEF mailboxVars, cellVars, dispatcherVars, actorVars, threadVars, workerVars,
            historyVars
<1>a. PICK k \in Traffic[t] :
         LET m == [from |-> t, n |-> sent[t] + 1, kind |-> k]
             refused == cellClosed \/ (IsUser(m) /\ ~cellAccepting)
         IN  /\ current' = [current EXCEPT ![t] = m]
             /\ tpc' = [tpc EXCEPT ![t] = IF refused THEN "idle" ELSE "enqueue"]
             /\ deadLetters' = IF refused /\ IsUser(m) THEN deadLetters \cup {m}
                                                      ELSE deadLetters
  BY Zenon DEF Tell
<1>b. PICK c : c = [from |-> t, n |-> sent[t] + 1, kind |-> k]
  BY Zenon
<1>c. PICK pc : pc = IF cellClosed \/ (IsUser(c) /\ ~cellAccepting)
                      THEN "idle" ELSE "enqueue"
  BY Zenon
<1>d. current' = [current EXCEPT ![t] = c] /\ tpc' = [tpc EXCEPT ![t] = pc]
  BY <1>a, <1>b, <1>c, Zenon
<1>e. deadLetters \subseteq deadLetters' /\ pc \in {"idle", "enqueue"}
  BY <1>a, <1>c, Zenon
<1>f. sent' = [sent EXCEPT ![t] = @ + 1] /\ sent[t] < MaxSends
      /\ UNCHANGED <<messages, batch, invoked, told, discarded>>
  BY Zenon DEF Tell
<1>1. /\ current' = [current EXCEPT ![t] = c] /\ tpc' = [tpc EXCEPT ![t] = pc]
      /\ pc \in {"idle", "enqueue"}
      /\ sent' = [sent EXCEPT ![t] = @ + 1]
      /\ UNCHANGED <<messages, batch, invoked, told, discarded>>
      /\ deadLetters \subseteq deadLetters'
  BY <1>d, <1>e, <1>f, ZenonT(60)
<1>2. /\ tpc'[t] = pc /\ current'[t] = c /\ sent'[t] = sent[t] + 1 /\ sent[t] \in Nat
      /\ \A u \in Threads : u # t =>
            tpc'[u] = tpc[u] /\ current'[u] = current[u] /\ sent'[u] = sent[u]
  BY <1>1 DEF TypeOK
<1>3. \A m : (Seen(m)' <=> Seen(m)) /\ (Unsent(m)' <=> Unsent(m))
  BY <1>1, Zenon DEF Seen, Unsent, InBatch
<1>4. Answered'
  BY <1>1, <1>3, Zenon DEF Answered
<1>5. c \in Message /\ c.from = t /\ c.n = sent[t] + 1
  <2>1. k \in Kinds
    BY MailboxAssumption, Zenon
  <2>2. sent[t] + 1 \in 1..MaxSends
    BY <1>2, <1>f, MailboxAssumption
  <2>3. QED BY <1>b, <2>1, <2>2, Zenon DEF Message
<1>6. SentInv'
  <2>1. ASSUME NEW m \in UserMessage, m.n > sent'[m.from]
        PROVE  told'[m] = "nothing" /\ ~Seen(m)'
    <3>1. m.n > sent[m.from]
      <4>1. m.from \in Threads /\ m.n \in Nat /\ sent[m.from] \in Nat
        BY DEF UserMessage, Message, TypeOK
      <4>2. QED BY <1>2, <2>1, <4>1, SMTT(45)
    <3>2. QED BY <1>1, <1>3, <3>1, ZenonT(60) DEF SentInv
  <2>2. ASSUME NEW u \in Threads, tpc'[u] \in SendPc, IsUser(current'[u])
        PROVE  /\ current'[u].from = u /\ current'[u].n = sent'[u]
               /\ told'[current'[u]] = "nothing"
               /\ tpc'[u] \in {"enqueue", "fallback"} => ~Seen(current[u])'
               /\ tpc'[u] \in {"dispatch", "rollback"} => Unsent(current[u])'
    <3>1. CASE u = t
      <4>1. current'[t] \in UserMessage /\ current'[t] = c
        BY <1>2, <1>5, <2>2, <3>1, MessageType, ZenonT(60)
      <4>2. c.n > sent[c.from]
        BY <1>2, <1>5
      <4>3. told[c] = "nothing" /\ ~Seen(c)
        BY <4>1, <4>2, ZenonT(60) DEF SentInv
      <4>4. ~Seen(current[t])'
        <5>1. ~Seen(c)'
          BY <1>3, <4>3, Zenon
        <5>2. QED BY <4>1, <5>1, Zenon DEF Seen, InBatch
      <4>5. tpc'[t] \notin {"dispatch", "rollback"}
        BY <1>1, <1>2, Zenon
      <4>6. QED BY <1>1, <1>2, <1>5, <3>1, <4>1, <4>3, <4>4, <4>5, ZenonT(60)
    <3>2. CASE u # t
      <4>1. tpc'[u] = tpc[u] /\ current'[u] = current[u] /\ sent'[u] = sent[u]
        BY <1>2, <3>2, Zenon
      <4>2. /\ current[u].from = u /\ current[u].n = sent[u]
            /\ told[current[u]] = "nothing"
            /\ tpc[u] \in {"enqueue", "fallback"} => ~Seen(current[u])
            /\ tpc[u] \in {"dispatch", "rollback"} => Unsent(current[u])
        BY <2>2, <4>1, Zenon DEF SentInv
      <4>3. PICK M : M = current[u] /\ M = current'[u]
        BY <4>1, Zenon
      <4>4. (Seen(M)' <=> Seen(M)) /\ (Unsent(M)' <=> Unsent(M))
        BY <1>3, Zenon
      <4>5. Seen(current[u])' <=> Seen(current[u])
        BY <4>3, <4>4, Zenon DEF Seen, InBatch
      <4>6. Unsent(current[u])' <=> Unsent(current[u])
        BY <4>3, <4>4, ZenonT(60) DEF Unsent, InBatch
      <4>7. QED BY <1>1, <4>1, <4>2, <4>5, <4>6, ZenonT(60)
    <3>3. QED BY <3>1, <3>2, Zenon
  <2>3. QED BY <2>1, <2>2, Zenon DEF SentInv
<1>7. QED BY <1>4, <1>6, Zenon


\* A message joins the deque.
LEMMA UnsentAppend ==
    ASSUME messages \in Seq(Item), NEW item \in Item, messages' = Append(messages, item),
           UNCHANGED <<batch, invoked>>, NEW m
    PROVE  /\ Unsent(m) /\ m # item.msg => Unsent(m)'
           /\ ~Seen(m) /\ item = Entry(m) => Unsent(m)'
<1>1. PICK n, q, r : /\ n \in Nat /\ q = messages /\ r = messages' /\ DOMAIN q = 1..n
                     /\ DOMAIN r = 1..n + 1
                     /\ \A i \in 1..n : r[i] = q[i]
                     /\ r[n + 1] = item
  <2>1. Len(messages) \in Nat /\ DOMAIN messages = 1..Len(messages)
    BY LenProperties, Zenon
  <2>2. /\ Append(messages, item) \in Seq(Item)
        /\ Len(Append(messages, item)) = Len(messages) + 1
        /\ \A i \in 1..Len(messages) : Append(messages, item)[i] = messages[i]
        /\ Append(messages, item)[Len(messages) + 1] = item
    BY AppendProperties
  <2>3. DOMAIN Append(messages, item) = 1..Len(messages) + 1
    BY <2>2, LenProperties, ZenonT(60)
  <2>4. QED BY <2>1, <2>2, <2>3, Zenon
<1>2. ASSUME Unsent(m), m # item.msg PROVE Unsent(m)'
  <2>1. ~InBatch(m)' /\ m \notin invoked'
    BY <1>2, Zenon DEF Unsent, InBatch
  <2>2. \A i \in 1..n : q[i].msg = m => q[i] = Entry(m) /\ \A j \in 1..n : q[j].msg = m => j = i
    BY <1>1, <1>2, Zenon DEF Unsent
  <2>3. \A i \in 1..n + 1 : r[i].msg = m => i \in 1..n
    BY <1>1, <1>2
  <2>4. \A i \in 1..n + 1 : r[i].msg = m =>
           r[i] = Entry(m) /\ \A j \in 1..n + 1 : r[j].msg = m => j = i
    BY <1>1, <2>2, <2>3, ZenonT(60)
  <2>5. QED BY <1>1, <2>1, <2>4, ZenonT(60) DEF Unsent
<1>3. ASSUME ~Seen(m), item = Entry(m) PROVE Unsent(m)'
  <2>1. ~InBatch(m)' /\ m \notin invoked'
    BY <1>3, Zenon DEF Seen, InBatch
  <2>2. \A i \in 1..n : q[i].msg # m
    BY <1>1, <1>3, Zenon DEF Seen, MessagesOf
  <2>3. \A i \in 1..n + 1 : r[i].msg = m => i = n + 1
    BY <1>1, <2>2
  <2>4. \A i \in 1..n + 1 : r[i].msg = m =>
           r[i] = Entry(m) /\ \A j \in 1..n + 1 : r[j].msg = m => j = i
    BY <1>1, <1>3, <2>3, ZenonT(60)
  <2>5. QED BY <1>1, <2>1, <2>4, ZenonT(60) DEF Unsent
<1>4. QED BY <1>2, <1>3, Zenon

\* A sender whose message is admitted.
LEMMA AnswerAdmitted ==
    ASSUME TypeOK, SentInv, Answered, NEW t \in Threads,
           EnqueueQueued(t) \/ EnqueueScheduled(t)
    PROVE  SentInv' /\ Answered'
<1> USE DEF mailboxVars, cellVars, dispatcherVars, actorVars, threadVars, workerVars,
            historyVars
<1>0. /\ messages \in Seq(Item) /\ t \in DOMAIN tpc /\ current[t] \in Message
      /\ told \in [UserMessage -> {"nothing", "accepted", "refused", "returned"}]
  BY Zenon DEF TypeOK
<1>a. PICK item, pc :
         /\ \/ pc = "idle" /\ item = Raw(current[t]) /\ EnqueueQueued(t)
            \/ pc = "dispatch" /\ item = Entry(current[t]) /\ EnqueueScheduled(t)
  BY Zenon
<1>1. /\ \/ pc = "idle" /\ item = Raw(current[t])
         \/ pc = "dispatch" /\ item = Entry(current[t])
      /\ Put(current[t], item) /\ tpc' = [tpc EXCEPT ![t] = pc]
      /\ pc = "idle" => Report(t, "accepted")
      /\ pc = "dispatch" => told' = told
  <2>1. CASE pc = "idle" /\ item = Raw(current[t]) /\ EnqueueQueued(t)
    BY <2>1, Zenon DEF EnqueueQueued
  <2>2. CASE pc = "dispatch" /\ item = Entry(current[t]) /\ EnqueueScheduled(t)
    BY <2>2, Zenon DEF EnqueueScheduled
  <2>3. QED BY <1>a, <2>1, <2>2, ZenonT(60)
<1>2. /\ tpc[t] = "enqueue"
      /\ UNCHANGED <<batch, invoked, sent, current, discarded, deadLetters>>
  BY Zenon DEF EnqueueQueued, EnqueueScheduled
<1>3. /\ tpc[t] \in SendPc /\ tpc[t] \in {"enqueue", "fallback"}
      /\ tpc'[t] = pc /\ \A u \in Threads : u # t => tpc'[u] = tpc[u]
  BY <1>0, <1>1, <1>2, ZenonT(60) DEF SendPc, TypeOK
<1>4. /\ \A m \in UserMessage : m # current[t] => told'[m] = told[m]
      /\ IsUser(current[t]) /\ pc = "idle" => told'[current[t]] = "accepted"
  BY <1>1, Reported, ZenonT(60)
<1>5. item \in Item /\ item.msg = current[t]
  <2>1. Raw(current[t]).msg = current[t] /\ Entry(current[t]).msg = current[t]
    BY Zenon DEF Raw, Entry
  <2>2. QED BY <1>0, <1>1, <2>1, MessageType, ZenonT(60)
<1>6. CASE IsUser(current[t])
  <2>1. messages' = Append(messages, item)
    BY <1>1, <1>6, Zenon DEF Put
  <2>2. MessagesOf(messages') = MessagesOf(messages) \cup {current[t]}
    BY <1>0, <1>5, <2>1, MessagesAppend, ZenonT(60)
  <2>3. PICK M : M = current[t] /\ M = current'[t]
    BY <1>2, Zenon
  <2>4. \A m : Seen(m)' <=> Seen(m) \/ m = M
    <3>1. \A m : m \in MessagesOf(messages') <=> m \in MessagesOf(messages) \/ m = M
      BY <2>2, <2>3, Zenon
    <3>2. QED BY <1>2, <3>1, Zenon DEF Seen, InBatch
  <2>5. Seen(current[t])'
    BY <2>3, <2>4, Zenon DEF Seen, InBatch
  <2>6. \A m \in UserMessage : m # current[t] => told'[m] = told[m] /\ (Seen(m)' <=> Seen(m))
    BY <1>4, <2>3, <2>4, ZenonT(60)
  <2>7. ASSUME NEW u \in Threads, u # t, IsUser(current[u]), tpc[u] \in {"dispatch", "rollback"}
        PROVE  Unsent(current[u])'
    <3>1. tpc[u] \in SendPc
      BY <2>7, Zenon DEF SendPc
    <3>2. Unsent(current[u]) /\ current[u].from = u /\ current[t].from = t
      BY <1>3, <1>6, <2>7, <3>1, ZenonT(60) DEF SentInv
    <3>3. PICK m : m = current[u] /\ m = current'[u]
      BY <1>2, Zenon
    <3>4. m # item.msg
      BY <1>5, <2>7, <3>2, <3>3, ZenonT(60)
    <3>5. Unsent(m)'
      BY <1>0, <1>2, <1>5, <2>1, <3>2, <3>3, <3>4, UnsentAppend, ZenonT(60)
    <3>6. QED BY <3>3, <3>5, Zenon DEF Unsent, InBatch
  <2>8. ~Seen(current[t]) /\ told[current[t]] = "nothing"
    BY <1>3, <1>6, Zenon DEF SentInv
  <2>9. pc = "dispatch" => Unsent(current[t])' /\ told'[current[t]] = "nothing"
    <3>1. ASSUME pc = "dispatch" PROVE Unsent(M)'
      <4>1. item = Entry(M)
        BY <1>1, <2>3, <3>1, Zenon
      <4>2. QED BY <1>0, <1>2, <1>5, <2>1, <2>3, <2>8, <4>1, UnsentAppend, ZenonT(60)
    <3>2. Unsent(M)' => Unsent(current[t])'
      BY <2>3, Zenon DEF Unsent, InBatch
    <3>3. QED BY <1>1, <2>8, <3>1, <3>2, ZenonT(60)
  <2>10. \/ pc = "idle" /\ told'[current[t]] = "accepted" /\ tpc'[t] = "idle"
         \/ pc = "dispatch" /\ told'[current[t]] = "nothing" /\ tpc'[t] = "dispatch"
    BY <1>1, <1>3, <1>4, <1>6, <2>9, ZenonT(60)
  <2>11. /\ tpc'[t] \in SendPc => told'[current[t]] = "nothing"
         /\ tpc'[t] \in {"enqueue", "fallback"} => ~Seen(current[t])'
         /\ tpc'[t] \in {"dispatch", "rollback"} => Unsent(current[t])'
         /\ told'[current[t]] = "accepted" => Seen(current[t])'
         /\ told'[current[t]] = "refused" => ~Seen(current[t])'
    <3>1. CASE pc = "idle"
      <4>1. told'[current[t]] = "accepted" /\ tpc'[t] = "idle"
        BY <2>10, <3>1, Zenon
      <4>2. QED BY <2>5, <4>1, Zenon DEF SendPc
    <3>2. CASE pc = "dispatch"
      <4>1. told'[current[t]] = "nothing" /\ tpc'[t] = "dispatch"
        BY <2>10, <3>2, Zenon
      <4>2. QED BY <2>5, <2>9, <3>2, <4>1, ZenonT(60) DEF SendPc
    <3>3. QED BY <1>1, <3>1, <3>2, Zenon
  <2>12. discarded \subseteq discarded' /\ deadLetters \subseteq deadLetters'
         /\ UNCHANGED <<sent, current>>
    BY <1>2, Zenon
  <2>13. QED BY <1>3, <2>6, <2>7, <2>11, <2>12, SettledSend, ZenonT(60)
<1>7. CASE ~IsUser(current[t])
  <2>1. UNCHANGED <<messages, told>>
    BY <1>1, <1>7, Zenon DEF Put, Report
  <2>2. \A m : (Seen(m)' <=> Seen(m)) /\ (Unsent(m)' <=> Unsent(m))
    BY <1>2, <2>1, Zenon DEF Seen, Unsent, InBatch
  <2>3. \A m \in UserMessage : m # current[t] => told'[m] = told[m] /\ (Seen(m)' <=> Seen(m))
    BY <2>1, <2>2, Zenon
  <2>4. ASSUME NEW u \in Threads, u # t, IsUser(current[u]), tpc[u] \in {"dispatch", "rollback"}
        PROVE  Unsent(current[u])'
    <3>1. tpc[u] \in SendPc
      BY <2>4, Zenon DEF SendPc
    <3>2. Unsent(current[u])
      BY <2>4, <3>1, Zenon DEF SentInv
    <3>3. QED BY <1>2, <2>1, <3>2, Zenon DEF Unsent, InBatch
  <2>5. discarded \subseteq discarded' /\ deadLetters \subseteq deadLetters'
         /\ UNCHANGED <<sent, current>>
    BY <1>2, Zenon
  <2>6. QED BY <1>3, <1>7, <2>3, <2>4, <2>5, SettledSend, ZenonT(60)
<1>8. QED BY <1>6, <1>7, Zenon


\* A sender whose activation the dispatcher takes, or refuses.
LEMMA AnswerDispatched ==
    ASSUME TypeOK, SchedulingInv, SentInv, Answered, NEW t \in Threads,
           Dispatch(t) \/ DispatchRefused(t)
    PROVE  SentInv' /\ Answered'
<1> USE DEF mailboxVars, cellVars, dispatcherVars, actorVars, threadVars, workerVars,
            historyVars
<1>1. /\ tpc[t] = "dispatch"
      /\ UNCHANGED <<messages, batch, invoked, sent, current, discarded, deadLetters>>
  BY Zenon DEF Dispatch, DispatchRefused
<1>2. /\ tpc[t] \in SendPc /\ tpc[t] \in {"dispatch", "rollback"}
      /\ \A u \in Threads : u # t => tpc'[u] = tpc[u]
      /\ Dispatch(t) => tpc'[t] = "idle"
      /\ DispatchRefused(t) => tpc'[t] = "rollback"
  BY <1>1, ZenonT(60) DEF SendPc, TypeOK, Dispatch, DispatchRefused
<1>3. \A m : (Seen(m)' <=> Seen(m)) /\ (Unsent(m)' <=> Unsent(m))
  BY <1>1, Zenon DEF Seen, Unsent, InBatch
<1>4. ASSUME NEW u \in Threads, IsUser(current[u]), tpc[u] \in {"dispatch", "rollback"}
      PROVE  Unsent(current[u])'
  <2>1. tpc[u] \in SendPc
    BY <1>4, Zenon DEF SendPc
  <2>2. Unsent(current[u])
    BY <1>4, <2>1, Zenon DEF SentInv
  <2>3. QED BY <1>1, <2>2, Zenon DEF Unsent, InBatch
<1>5. discarded \subseteq discarded' /\ deadLetters \subseteq deadLetters'
      /\ UNCHANGED <<sent, current>>
  BY <1>1, Zenon
<1>6. CASE Dispatch(t)
  <2>1. Report(t, "accepted") /\ up
    BY <1>6, Zenon DEF Dispatch
  <2>2. /\ \A m \in UserMessage : m # current[t] => told'[m] = told[m]
        /\ IsUser(current[t]) => told'[current[t]] = "accepted"
    BY <2>1, Reported, Zenon
  <2>3. ASSUME IsUser(current[t]) PROVE Seen(current[t])'
    <3>1. EntryQueued(t)
      BY <1>2, <2>1, ZenonT(60) DEF SchedulingInv
    <3>2. PICK i \in DOMAIN messages : messages[i] = Entry(current[t])
      BY <2>3, <3>1, Zenon DEF EntryQueued
    <3>3. messages[i].msg = current[t]
      BY <3>2 DEF Entry
    <3>4. Seen(current[t])
      BY <3>3, Zenon DEF Seen, MessagesOf
    <3>5. QED BY <1>1, <3>4, Zenon DEF Seen, InBatch
  <2>4. tpc'[t] \notin SendPc
    BY <1>2, <1>6, Zenon DEF SendPc
  <2>5. IsUser(current[t]) =>
              /\ tpc'[t] \in SendPc => told'[current[t]] = "nothing"
              /\ tpc'[t] \in {"enqueue", "fallback"} => ~Seen(current[t])'
              /\ tpc'[t] \in {"dispatch", "rollback"} => Unsent(current[t])'
              /\ told'[current[t]] = "accepted" => Seen(current[t])'
              /\ told'[current[t]] = "refused" => ~Seen(current[t])'
    <3>1. tpc'[t] \notin {"enqueue", "fallback"} /\ tpc'[t] \notin {"dispatch", "rollback"}
      BY <2>4, Zenon DEF SendPc
    <3>2. QED BY <2>2, <2>3, <2>4, <3>1, Zenon
  <2>6. \A m \in UserMessage : m # current[t] => told'[m] = told[m] /\ (Seen(m)' <=> Seen(m))
    BY <1>3, <2>2, Zenon
  <2>7. QED BY <1>2, <1>4, <1>5, <2>5, <2>6, SettledSend, ZenonT(60)
<1>7. CASE DispatchRefused(t)
  <2>1. told' = told /\ tpc'[t] = "rollback"
    BY <1>2, <1>7, Zenon DEF DispatchRefused
  <2>2. IsUser(current[t]) => told[current[t]] = "nothing"
    BY <1>2, Zenon DEF SentInv
  <2>3. IsUser(current[t]) =>
              /\ tpc'[t] \in SendPc => told'[current[t]] = "nothing"
              /\ tpc'[t] \in {"enqueue", "fallback"} => ~Seen(current[t])'
              /\ tpc'[t] \in {"dispatch", "rollback"} => Unsent(current[t])'
              /\ told'[current[t]] = "accepted" => Seen(current[t])'
              /\ told'[current[t]] = "refused" => ~Seen(current[t])'
    BY <1>2, <1>4, <2>1, <2>2, ZenonT(60)
  <2>4. \A m \in UserMessage : m # current[t] => told'[m] = told[m] /\ (Seen(m)' <=> Seen(m))
    BY <1>3, <2>1, ZenonT(60)
  <2>5. QED BY <1>2, <1>4, <1>5, <2>3, <2>4, SettledSend, ZenonT(60)
<1>8. QED BY <1>6, <1>7, Zenon

\* A sender that takes its message back: nobody has seen it, and nobody will.
LEMMA AnswerTakenBack ==
    ASSUME TypeOK, SchedulingInv, SentInv, Answered, NEW t \in Threads, Rollback(t)
    PROVE  SentInv' /\ Answered'
<1> USE DEF mailboxVars, cellVars, dispatcherVars, actorVars, threadVars, workerVars,
            historyVars
<1>0. messages \in Seq(Item) /\ current[t] \in Message
  BY Zenon DEF TypeOK
<1>1. /\ tpc[t] = "rollback" /\ UNCHANGED <<batch, invoked, sent, current, discarded>>
      /\ ~IsUser(current[t]) => messages' = messages
      /\ IsUser(current[t]) =>
            \/ /\ \E i \in DOMAIN messages : messages[i] = Entry(current[t])
               /\ messages' = Without(messages, Entry(current[t]))
            \/ /\ ~\E i \in DOMAIN messages : messages[i] = Entry(current[t])
               /\ messages' = messages
  BY Zenon DEF Rollback
<1>2. PICK pc : /\ tpc' = [tpc EXCEPT ![t] = pc]
                /\ \/ pc = "fallback" /\ UNCHANGED <<told, deadLetters>>
                   \/ pc = AfterRaise(t) /\ Refuse(t)
  BY Zenon DEF Rollback
<1>3. /\ \A m \in UserMessage : m # current[t] => told'[m] = told[m]
      /\ IsUser(current[t]) => told'[current[t]] = told[current[t]] \/
                               (told'[current[t]] = "refused" /\ pc # "fallback")
      /\ deadLetters \subseteq deadLetters'
      /\ pc \in {"fallback", "idle", "abort"}
  <2>1. CASE pc = "fallback" /\ UNCHANGED <<told, deadLetters>>
    BY <2>1, Zenon
  <2>2. CASE pc = AfterRaise(t) /\ Refuse(t)
    <3>1. Report(t, "refused")
      BY <2>2, Zenon DEF Refuse
    <3>2. deadLetters \subseteq deadLetters'
      BY <2>2, Zenon DEF Refuse
    <3>3. pc \in {"idle", "abort"}
      BY <2>2, Zenon DEF AfterRaise
    <3>4. pc # "fallback" /\ pc \in {"fallback", "idle", "abort"}
      BY <3>3, Zenon
    <3>5. QED BY <3>1, <3>2, <3>4, Reported, ZenonT(60)
  <2>3. QED BY <1>2, <2>1, <2>2, Zenon
<1>4. /\ tpc[t] \in SendPc /\ tpc[t] \in {"dispatch", "rollback"} /\ ThreadOwns(t)
      /\ tpc'[t] = pc
      /\ \A u \in Threads : u # t => tpc'[u] = tpc[u]
  BY <1>1, <1>2, ZenonT(60) DEF SendPc, TypeOK, ThreadOwns
<1>5. ASSUME NEW u \in Threads, u # t, tpc[u] \in {"dispatch", "rollback"}
      PROVE  FALSE
  <2>1. ThreadOwns(u)
    BY <1>5, Zenon DEF ThreadOwns
  <2>2. QED BY <1>4, <1>5, <2>1, ZenonT(60) DEF SchedulingInv, AtMostOneActivation
<1>6. deadLetters \subseteq deadLetters' /\ discarded \subseteq discarded'
      /\ UNCHANGED <<sent, current>>
  BY <1>1, <1>3, Zenon
<1>7. CASE IsUser(current[t])
  <2>1. Unsent(current[t]) /\ told[current[t]] = "nothing"
    BY <1>4, <1>7, Zenon DEF SentInv
  <2>2. PICK M : M = current[t] /\ M = current'[t]
    BY <1>1, Zenon
  <2>3. Entry(M).msg = M
    BY Zenon DEF Entry
  <2>4. \A i, j \in DOMAIN messages : messages[i].msg = Entry(M).msg /\ messages[j].msg = Entry(M).msg
           => j = i
    BY <2>1, <2>2, <2>3, Zenon DEF Unsent
  <2>5. MessagesOf(messages') = MessagesOf(messages) \ {M}
    <3>1. CASE /\ \E i \in DOMAIN messages : messages[i] = Entry(current[t])
               /\ messages' = Without(messages, Entry(current[t]))
      <4>1. \E i \in DOMAIN messages : messages[i] = Entry(M)
        BY <2>2, <3>1, Zenon
      <4>2. messages' = Without(messages, Entry(M))
        BY <2>2, <3>1, Zenon
      <4>3. QED BY <1>0, <2>3, <2>4, <4>1, <4>2, MessagesWithout, ZenonT(60)
    <3>2. CASE /\ ~\E i \in DOMAIN messages : messages[i] = Entry(current[t])
               /\ messages' = messages
      <4>1. \A i \in DOMAIN messages : messages[i].msg # M
        BY <2>1, <2>2, <3>2, Zenon DEF Unsent
      <4>2. M \notin MessagesOf(messages)
        BY <4>1, Zenon DEF MessagesOf
      <4>3. QED BY <3>2, <4>2, Zenon
    <3>3. QED BY <1>1, <1>7, <3>1, <3>2, ZenonT(60)
  <2>6. ~Seen(current[t])'
    <3>1. M \notin MessagesOf(messages')
      BY <2>5, Zenon
    <3>2. ~InBatch(M) /\ M \notin invoked
      BY <2>1, <2>2, Zenon DEF Unsent
    <3>3. QED BY <1>1, <2>2, <3>1, <3>2, ZenonT(60) DEF Seen, InBatch
  <2>7. \A m : m # M => (m \in MessagesOf(messages') <=> m \in MessagesOf(messages))
    BY <2>5, ZenonT(60)
  <2>8. \A m \in UserMessage : m # current[t] => told'[m] = told[m] /\ (Seen(m)' <=> Seen(m))
    BY <1>1, <1>3, <2>2, <2>7, ZenonT(60) DEF Seen, InBatch
  <2>9. /\ tpc'[t] \in SendPc => told'[current[t]] = "nothing"
        /\ tpc'[t] \in {"enqueue", "fallback"} => ~Seen(current[t])'
        /\ tpc'[t] \in {"dispatch", "rollback"} => Unsent(current[t])'
        /\ told'[current[t]] = "accepted" => Seen(current[t])'
        /\ told'[current[t]] = "refused" => ~Seen(current[t])'
    <3>1. told'[current[t]] \in {"nothing", "refused"}
          /\ (pc = "fallback" => told'[current[t]] = "nothing")
      BY <1>3, <1>7, <2>1, Zenon
    <3>2. tpc'[t] \notin {"dispatch", "rollback"} /\ (tpc'[t] \in SendPc => pc = "fallback")
      BY <1>3, <1>4, Zenon DEF SendPc
    <3>3. told'[current[t]] # "accepted"
      BY <3>1, Zenon
    <3>4. QED BY <2>6, <3>1, <3>2, <3>3, ZenonT(60)
  <2>10. QED BY <1>4, <1>5, <1>6, <2>8, <2>9, SettledSend, ZenonT(60)
<1>8. CASE ~IsUser(current[t])
  <2>1. messages' = messages
    BY <1>1, <1>8, Zenon
  <2>2. \A m \in UserMessage : m # current[t] => told'[m] = told[m] /\ (Seen(m)' <=> Seen(m))
    BY <1>1, <1>3, <2>1, Zenon DEF Seen, InBatch
  <2>3. QED BY <1>4, <1>5, <1>6, <1>8, <2>2, SettledSend, ZenonT(60)
<1>9. QED BY <1>7, <1>8, ZenonT(60)

\* A closing mailbox hands its user messages to the dead letters.
LEMMA AnswerClosing ==
    ASSUME TypeOK, StopInv, SentInv, Answered, \A u \in Threads : ~ThreadOwns(u),
           \/ StopUserMessages
           \/ Close /\ ~accepting /\ UNCHANGED deadLetters,
           UNCHANGED <<batch, invoked, told, sent, current, discarded>>,
           \A u \in Threads : tpc'[u] \in SendPc => tpc'[u] = tpc[u]
    PROVE  SentInv' /\ Answered'
<1>1. /\ messages' = <<>> /\ deadLetters \subseteq deadLetters'
      /\ MessagesOf(messages) \subseteq deadLetters'
  <2>1. CASE StopUserMessages
    BY <2>1, Zenon DEF StopUserMessages
  <2>2. CASE Close /\ ~accepting /\ UNCHANGED deadLetters
    <3>1. messages = <<>> /\ messages' = <<>>
      BY <2>2, Zenon DEF Close, StopInv
    <3>2. QED BY <2>2, <3>1, NoMessages, Zenon
  <2>3. QED BY <2>1, <2>2, Zenon
<1>2. MessagesOf(messages') = {}
  BY <1>1, NoMessages, Zenon
<1>3. \A m : Seen(m)' => Seen(m)
  BY <1>2, Zenon DEF Seen, InBatch
<1>4. \A m : Seen(m) => Seen(m)' \/ m \in deadLetters' \cup discarded'
  BY <1>1, Zenon DEF Seen, InBatch
<1>5. /\ UNCHANGED <<told, sent>> /\ discarded \subseteq discarded'
      /\ \A u \in Threads : tpc'[u] \in SendPc => tpc'[u] = tpc[u] /\ current'[u] = current[u]
  BY Zenon
<1>6. QED BY <1>1, <1>3, <1>4, <1>5, SettledMoves, ZenonT(60)

\* Every step of a sender keeps what senders were told.
LEMMA AnswerThread ==
    ASSUME TypeOK, SchedulingInv, AbortInv, StopInv, SentInv, Answered,
           NEW t \in Threads, Tell(t) \/ ThreadStep(t)
    PROVE  SentInv' /\ Answered'
<1> USE DEF mailboxVars, cellVars, dispatcherVars, actorVars, threadVars, workerVars,
            historyVars
<1>1. CASE Tell(t)
  BY <1>1, AnswerTell, Zenon
<1>2. CASE EnqueueStopping(t) \/ EnqueueFull(t) \/ Fallback(t) \/ FallbackFails(t)
  <2>1. /\ tpc[t] \in {"enqueue", "fallback"}
        /\ UNCHANGED <<messages, batch, invoked, sent, current, discarded>>
        /\ deadLetters \subseteq deadLetters'
    BY <1>2, Zenon DEF EnqueueStopping, EnqueueFull, Fallback, FallbackFails, Refuse
  <2>2. PICK pc \in {"idle", "abort"} : tpc' = [tpc EXCEPT ![t] = pc]
    <3>1. AfterRaise(t) \in {"idle", "abort"} /\ "idle" \in {"idle", "abort"}
      BY Zenon DEF AfterRaise
    <3>2. QED BY <1>2, <3>1, Zenon DEF EnqueueStopping, EnqueueFull, Fallback, FallbackFails
  <2>3. tpc'[t] \notin SendPc /\ \A u \in Threads : u # t => tpc'[u] = tpc[u]
    BY <2>2, ZenonT(60) DEF TypeOK, SendPc
  <2>4. PICK what \in {"refused", "returned"} : Report(t, what)
    <3>1. CASE EnqueueStopping(t)
      <4>1. Report(t, "refused") \/ Report(t, "returned")
        BY <3>1, Zenon DEF EnqueueStopping, Report
      <4>2. QED BY <4>1, Zenon
    <3>2. CASE EnqueueFull(t) \/ Fallback(t) \/ FallbackFails(t)
      BY <3>2, Zenon DEF EnqueueFull, Fallback, FallbackFails, Refuse
    <3>3. QED BY <1>2, <3>1, <3>2, Zenon
  <2>5. QED BY <2>1, <2>3, <2>4, AnswerTurnedAway, ZenonT(60)
<1>3. CASE EnqueueQueued(t) \/ EnqueueScheduled(t)
  BY <1>3, AnswerAdmitted, Zenon
<1>4. CASE Dispatch(t) \/ DispatchRefused(t)
  BY <1>4, AnswerDispatched, Zenon
<1>5. CASE Rollback(t)
  BY <1>5, AnswerTakenBack, Zenon
<1>6. CASE AbortStart(t) \/ AbortCell(t)
  <2>1. /\ UNCHANGED <<messages, batch, invoked, told, sent, discarded, deadLetters, current>>
        /\ \E pc \in {"abortStop", "abortClose"} : tpc' = [tpc EXCEPT ![t] = pc]
    BY <1>6, Zenon DEF AbortStart, AbortCell
  <2>2. \A u \in Threads : tpc'[u] \in SendPc => tpc'[u] = tpc[u] /\ current'[u] = current[u]
    BY <2>1, Zenon DEF TypeOK, SendPc
  <2>3. deadLetters \subseteq deadLetters'
    BY <2>1, Zenon
  <2>4. QED BY <2>1, <2>2, <2>3, SettledStays, ZenonT(60)
<1>7. CASE AbortStop(t) \/ AbortClose(t)
  <2>1. /\ tpc[t] \in {"abortStop", "abortClose"}
        /\ UNCHANGED <<batch, invoked, told, sent, current, discarded>>
        /\ \E pc \in {"idle", "abortCell"} : tpc' = [tpc EXCEPT ![t] = pc]
        /\ \/ StopUserMessages
           \/ tpc[t] = "abortClose" /\ Close /\ UNCHANGED deadLetters
    BY <1>7, Zenon DEF AbortStop, AbortClose
  <2>2. \A u \in Threads : tpc'[u] \in SendPc => tpc'[u] = tpc[u]
    BY <2>1, ZenonT(60) DEF TypeOK, SendPc
  <2>3. tpc[t] \in AbortPc /\ (tpc[t] = "abortClose" => tpc[t] \in {"abortCell", "abortClose"})
    BY <2>1, Zenon DEF AbortPc
  <2>4. \A u \in Threads : ~ThreadOwns(u)
    BY <2>3, Zenon DEF AbortInv
  <2>5. StopUserMessages \/ (Close /\ ~accepting /\ UNCHANGED deadLetters)
    BY <2>1, <2>3, Zenon DEF StopInv
  <2>6. QED BY <2>1, <2>2, <2>4, <2>5, AnswerClosing, ZenonT(60)
<1>8. QED BY <1>1, <1>2, <1>3, <1>4, <1>5, <1>6, <1>7, ZenonT(60) DEF ThreadStep


\* A worker that runs the mailbox moves messages about; nobody publishes then.
LEMMA WorkerMoves ==
    ASSUME TypeOK, SchedulingInv, SentInv, Answered, NEW w \in Workers, WorkerOwns(w),
           UNCHANGED <<told, sent, tpc, current>>,
           deadLetters \subseteq deadLetters', discarded \subseteq discarded',
           \A v \in Workers : v # w => batch'[v] = batch[v],
           \A m \in UserMessage :
              m \in Range(batch'[w]) \/ m \in MessagesOf(messages') \/ m \in invoked'
              => m \in Range(batch[w]) \/ m \in MessagesOf(messages) \/ m \in invoked,
           \A m \in UserMessage :
              m \in Range(batch[w]) \/ m \in MessagesOf(messages) \/ m \in invoked
              => \/ m \in Range(batch'[w]) \/ m \in MessagesOf(messages') \/ m \in invoked'
                 \/ m \in deadLetters' \cup discarded'
    PROVE  SentInv' /\ Answered'
<1>1. \A u \in Threads : ~ThreadOwns(u)
  BY Zenon DEF SchedulingInv, AtMostOneActivation
<1>2. \A m : /\ InBatch(m) <=> m \in Range(batch[w]) \/ \E v \in Workers : v # w /\ m \in Range(batch[v])
             /\ InBatch(m)' <=> m \in Range(batch'[w]) \/ \E v \in Workers : v # w /\ m \in Range(batch'[v])
  BY Zenon DEF InBatch
<1>3. \A m : (\E v \in Workers : v # w /\ m \in Range(batch'[v]))
             <=> (\E v \in Workers : v # w /\ m \in Range(batch[v]))
  BY Zenon
<1>4. \A m \in UserMessage : Seen(m)' => Seen(m)
  <2>1. TAKE m \in UserMessage
  <2>2. HAVE Seen(m)'
  <2>3. InBatch(m)' \/ m \in MessagesOf(messages') \/ m \in invoked'
    BY <2>2, Zenon DEF Seen
  <2>4. InBatch(m) \/ m \in MessagesOf(messages) \/ m \in invoked
    BY <1>2, <1>3, <2>3, Zenon
  <2>5. QED BY <2>4, Zenon DEF Seen
<1>5. \A m \in UserMessage : Seen(m) => Seen(m)' \/ m \in deadLetters' \cup discarded'
  <2>1. TAKE m \in UserMessage
  <2>2. HAVE Seen(m)
  <2>3. InBatch(m) \/ m \in MessagesOf(messages) \/ m \in invoked
    BY <2>2, Zenon DEF Seen
  <2>4. \/ InBatch(m)' \/ m \in MessagesOf(messages') \/ m \in invoked'
        \/ m \in deadLetters' \cup discarded'
    BY <1>2, <1>3, <2>3, Zenon
  <2>5. QED BY <2>4, Zenon DEF Seen
<1>6. /\ UNCHANGED <<told, sent>>
      /\ \A u \in Threads : tpc'[u] \in SendPc => tpc'[u] = tpc[u] /\ current'[u] = current[u]
  BY Zenon
<1>7. QED BY <1>1, <1>4, <1>5, <1>6, SettledMoves, ZenonT(60)

\* Every step of a worker keeps what senders were told.
LEMMA AnswerWorker ==
    ASSUME TypeOK, SchedulingInv, CapacityInv, StopInv, SystemInv, SentInv, Answered,
           NEW w \in Workers, WorkerStep(w)
    PROVE  SentInv' /\ Answered'
<1> USE DEF mailboxVars, cellVars, dispatcherVars, actorVars, threadVars, workerVars,
            historyVars
<1>0. /\ messages \in Seq(Item) /\ system \in Seq(Item) /\ batch[w] \in Seq(Message)
      /\ w \in DOMAIN batch
  BY Zenon DEF TypeOK
<1>a. \A m \in UserMessage : IsUser(m)
  BY Zenon DEF UserMessage
<1>1. ASSUME wpc[w] \in RunPc PROVE WorkerOwns(w)
  BY <1>1, Zenon DEF WorkerOwns
<1>2. CASE TakeBatch(w)
  <2>1. /\ wpc[w] = "take"
        /\ UNCHANGED <<told, sent, tpc, current, invoked, deadLetters, discarded>>
    BY <1>2, Zenon DEF TakeBatch
  <2>2. WorkerOwns(w) /\ deadLetters \subseteq deadLetters' /\ discarded \subseteq discarded'
    BY <1>1, <2>1, Zenon DEF RunPc
  <2>a. batch[w] = <<>>
    <3>1. wpc[w] \notin BatchPc
      BY <2>1, Zenon DEF BatchPc
    <3>2. QED BY <3>1, Zenon DEF CapacityInv
  <2>3. CASE LifecycleFirst
    <3>1. /\ batch' = [batch EXCEPT ![w] = Unwrap(First(system))] /\ messages' = messages
      BY <1>2, <2>3, Zenon DEF TakeBatch
    <3>2. batch'[w] = Unwrap(First(system)) /\ \A v \in Workers : v # w => batch'[v] = batch[v]
      BY <1>0, <3>1, ZenonT(60) DEF TypeOK
    <3>3. \A m \in Range(batch'[w]) : m \in MessagesOf(system)
      BY <1>0, <3>2, MessagesSplit, Zenon
    <3>4. \A m \in UserMessage : m \notin Range(batch'[w])
      BY <1>a, <3>3, Zenon DEF SystemInv
    <3>6. QED BY <2>1, <2>2, <2>a, <3>1, <3>2, <3>4, NoMessages, WorkerMoves, ZenonT(60)
  <2>4. CASE ~LifecycleFirst
    <3>1. /\ batch' = [batch EXCEPT ![w] = Unwrap(First(messages))] /\ messages' = Rest(messages)
      BY <1>2, <2>4, ZenonT(60) DEF TakeBatch
    <3>2. batch'[w] = Unwrap(First(messages)) /\ \A v \in Workers : v # w => batch'[v] = batch[v]
      BY <1>0, <3>1, ZenonT(60) DEF TypeOK
    <3>3. MessagesOf(messages) = Range(batch'[w]) \cup MessagesOf(messages')
      BY <1>0, <3>1, <3>2, MessagesSplit, ZenonT(60)
    <3>4. QED BY <2>1, <2>2, <2>a, <3>2, <3>3, NoMessages, WorkerMoves, ZenonT(60)
  <2>5. QED BY <2>3, <2>4, Zenon
<1>3. CASE Restore(w)
  <2>1. /\ batch' = [batch EXCEPT ![w] = <<>>]
        /\ UNCHANGED <<told, sent, tpc, current, invoked, deadLetters, discarded>>
        /\ wpc[w] \in {"restore", "restoreFailed"}
        /\ closed \/ systemBatch[w] => messages' = messages
        /\ ~closed /\ ~systemBatch[w] => messages' = Wrap(batch[w]) \o messages
    BY <1>3, Zenon DEF Restore, PutBack
  <2>2. WorkerOwns(w) /\ deadLetters \subseteq deadLetters' /\ discarded \subseteq discarded'
    BY <1>1, <2>1, ZenonT(60) DEF RunPc
  <2>3. batch'[w] = <<>> /\ \A v \in Workers : v # w => batch'[v] = batch[v]
    BY <1>0, <2>1, ZenonT(60) DEF TypeOK
  <2>4. CASE systemBatch[w]
    <3>1. \A m \in UserMessage : m \notin Range(batch[w])
      BY <1>a, <2>4, Zenon DEF SystemInv
    <3>2. QED BY <2>1, <2>2, <2>3, <2>4, <3>1, NoMessages, WorkerMoves, ZenonT(60)
  <2>5. CASE ~systemBatch[w] /\ closed
    <3>1. actor \in Stops
      BY <2>5, Zenon DEF StopInv
    <3>2. actor # "FAILED"
      BY <3>1, Zenon DEF Stops
    <3>3. wpc[w] # "restoreFailed"
      BY <2>5, <3>2, Zenon DEF StopInv
    <3>4. wpc[w] = "restore"
      BY <2>1, <3>3, Zenon
    <3>5. batch[w] = <<>>
      BY <2>5, <3>1, <3>4, Zenon DEF StopInv
    <3>6. QED BY <2>1, <2>2, <2>3, <2>5, <3>5, NoMessages, WorkerMoves, ZenonT(60)
  <2>6. CASE ~systemBatch[w] /\ ~closed
    <3>1. MessagesOf(messages') = Range(batch[w]) \cup MessagesOf(messages)
      BY <1>0, <2>1, <2>6, MessagesRestore, ZenonT(60)
    <3>2. QED BY <2>1, <2>2, <2>3, <3>1, NoMessages, WorkerMoves, ZenonT(60)
  <2>7. QED BY <2>4, <2>5, <2>6, ZenonT(60)
<1>4. CASE InvokeUser(w)
  <2>1. /\ wpc[w] = "invoke" /\ batch[w] # <<>> /\ batch' = [batch EXCEPT ![w] = Tail(@)]
        /\ invoked' = invoked \cup {Head(batch[w])}
        /\ UNCHANGED <<messages, told, sent, tpc, current, deadLetters, discarded>>
    BY <1>4, Zenon DEF InvokeUser
  <2>2. WorkerOwns(w) /\ deadLetters \subseteq deadLetters' /\ discarded \subseteq discarded'
    BY <1>1, <2>1, Zenon DEF RunPc
  <2>3. batch'[w] = Tail(batch[w]) /\ \A v \in Workers : v # w => batch'[v] = batch[v]
    BY <1>0, <2>1, ZenonT(60) DEF TypeOK
  <2>4. Range(batch[w]) = {Head(batch[w])} \cup Range(batch'[w])
    BY <1>0, <2>1, <2>3, HeadAndTail, ZenonT(60)
  <2>5. \A m : m \in Range(batch'[w]) \/ m \in invoked'
             <=> m \in Range(batch[w]) \/ m \in invoked
    BY <2>1, <2>4, Zenon
  <2>6. QED BY <2>1, <2>2, <2>3, <2>5, WorkerMoves, ZenonT(60)
<1>5. CASE InvokeSystem(w)
  <2>1. /\ wpc[w] = "invoke" /\ batch[w] # <<>> /\ batch' = [batch EXCEPT ![w] = Tail(@)]
        /\ systemBatch[w]
        /\ UNCHANGED <<messages, told, sent, tpc, current, invoked, deadLetters, discarded>>
    BY <1>5, Zenon DEF InvokeSystem
  <2>2. WorkerOwns(w) /\ deadLetters \subseteq deadLetters' /\ discarded \subseteq discarded'
    BY <1>1, <2>1, ZenonT(60) DEF RunPc
  <2>3. batch'[w] = Tail(batch[w]) /\ \A v \in Workers : v # w => batch'[v] = batch[v]
    BY <1>0, <2>1, ZenonT(60) DEF TypeOK
  <2>4. Range(batch[w]) = {Head(batch[w])} \cup Range(batch'[w])
    BY <1>0, <2>1, <2>3, HeadAndTail, ZenonT(60)
  <2>5. \A m \in UserMessage : m \notin Range(batch[w]) /\ m \notin Range(batch'[w])
    BY <1>a, <2>1, <2>4, ZenonT(60) DEF SystemInv
  <2>6. QED BY <2>1, <2>2, <2>3, <2>5, WorkerMoves, ZenonT(60)
<1>6. CASE BatchReturns(w)
  <2>1. /\ wpc[w] = "invoke"
        /\ UNCHANGED <<messages, told, sent, tpc, current, invoked, deadLetters>>
        /\ \/ UNCHANGED <<batch, discarded>>
           \/ /\ batch' = [batch EXCEPT ![w] = <<>>]
              /\ discarded' = discarded \cup {batch[w][i] : i \in DOMAIN batch[w]}
    BY <1>6, Zenon DEF BatchReturns
  <2>2. WorkerOwns(w) /\ deadLetters \subseteq deadLetters' /\ discarded \subseteq discarded'
    BY <1>1, <2>1, Zenon DEF RunPc
  <2>3. CASE UNCHANGED <<batch, discarded>>
    BY <2>1, <2>2, <2>3, WorkerMoves, ZenonT(60)
  <2>4. CASE /\ batch' = [batch EXCEPT ![w] = <<>>]
             /\ discarded' = discarded \cup {batch[w][i] : i \in DOMAIN batch[w]}
    <3>1. batch'[w] = <<>> /\ \A v \in Workers : v # w => batch'[v] = batch[v]
      BY <1>0, <2>4, ZenonT(60) DEF TypeOK
    <3>2. \A m \in Range(batch[w]) : m \in discarded'
      BY <2>4, Zenon DEF Range
    <3>3. QED BY <2>1, <2>2, <3>1, <3>2, NoMessages, WorkerMoves, ZenonT(60)
  <2>5. QED BY <2>1, <2>3, <2>4, ZenonT(60)
<1>7. CASE StopMailbox(w) \/ CloseMailbox(w)
  <2>1. /\ wpc[w] \in {"stopMailbox", "closeMailbox"}
        /\ \/ StopUserMessages
           \/ wpc[w] = "closeMailbox" /\ Close /\ UNCHANGED deadLetters
        /\ UNCHANGED <<batch, invoked, told, sent, current, discarded, tpc>>
    BY <1>7, Zenon DEF StopMailbox, CloseMailbox
  <2>2. WorkerOwns(w)
    BY <1>1, <2>1, ZenonT(60) DEF RunPc
  <2>3. \A u \in Threads : ~ThreadOwns(u)
    BY <2>2, ZenonT(60) DEF SchedulingInv, AtMostOneActivation
  <2>4. wpc[w] = "closeMailbox" => ~accepting
    BY Zenon DEF StopInv
  <2>5. QED BY <2>1, <2>3, <2>4, AnswerClosing, ZenonT(60)
<1>8. CASE \/ TakeActivation(w) \/ Enter(w) \/ GiveUp(w) \/ SelfStop(w) \/ StopCell(w)
           \/ CompleteStop(w) \/ CloseCell(w) \/ Recheck(w) \/ Redispatch(w)
           \/ RedispatchRefused(w)
           \/ RecoverLocked(w) \/ RecoverSystem(w) \/ Handoff(w) \/ Finish(w)
  <2>1. UNCHANGED <<messages, batch, invoked, told, sent, discarded, deadLetters, tpc, current>>
    BY <1>8, Zenon DEF TakeActivation, Enter, GiveUp, SelfStop, StopCell, CompleteStop,
       CloseCell,
       Recheck, Redispatch, RedispatchRefused, RecoverLocked, RecoverSystem, Handoff, Finish
  <2>2. QED BY <2>1, SettledStays, Zenon
<1>9. QED BY <1>2, <1>3, <1>4, <1>5, <1>6, <1>7, <1>8, ZenonT(60) DEF WorkerStep

\* Nothing was sent yet.
LEMMA AnswerInit == Init => SystemInv /\ SentInv /\ Answered
<1> SUFFICES ASSUME Init PROVE SystemInv /\ SentInv /\ Answered
  BY Zenon
<1>1. /\ messages = <<>> /\ system = <<>> /\ invoked = {}
      /\ \A w \in Workers : batch[w] = <<>>
      /\ \A m \in UserMessage : told[m] = "nothing"
      /\ \A t \in Threads : current[t] = PreStart
  BY Zenon DEF Init, NoMessage
<1>2. \A m : ~Seen(m)
  BY <1>1, NoMessages, Zenon DEF Seen, InBatch
<1>3. ~IsUser(PreStart)
  BY Zenon DEF IsUser, PreStart, UserKinds
<1>4. SystemInv
  BY <1>1, NoMessages, ZenonT(60) DEF SystemInv
<1>5. SentInv
  BY <1>1, <1>2, <1>3, Zenon DEF SentInv
<1>6. Answered
  BY <1>1, <1>2, Zenon DEF Answered
<1>7. QED BY <1>4, <1>5, <1>6, Zenon

\* The invariant says what AnswerIsKept promises.
LEMMA AnsweredIsKept == Answered => AnswerIsKept
<1>1. \A m : InBatch(m) <=> \E w \in Workers : \E i \in DOMAIN batch[w] : batch[w][i] = m
  BY Zenon DEF InBatch, Range
<1>2. QED BY <1>1, Zenon DEF Answered, AnswerIsKept, Seen

\* AnswerIsKept: an accepted user message is pending, was invoked, became a dead
\* letter or was given up by a stopping actor; a refused one is never seen, for
\* any number of senders, workers and messages, whatever the dispatcher refuses.
THEOREM AnswersKept == Spec => []AnswerIsKept
<1> DEFINE A == SystemInv /\ SentInv /\ Answered
<1>1. Init => A
  BY AnswerInit, Zenon
<1>2. TypeOK /\ SchedulingInv /\ CapacityInv /\ AbortInv /\ StopInv /\ A /\ [Next]_vars => A'
  <2> SUFFICES ASSUME TypeOK, SchedulingInv, CapacityInv, AbortInv, StopInv, A, [Next]_vars
               PROVE  A'
    BY Zenon
  <2> USE DEF mailboxVars, cellVars, dispatcherVars, actorVars, threadVars, workerVars,
              historyVars
  <2>1. ASSUME NEW t \in Threads, Tell(t) \/ ThreadStep(t) PROVE A'
    BY <2>1, SystemThread, AnswerThread, Zenon
  <2>2. ASSUME NEW w \in Workers, WorkerStep(w) PROVE A'
    BY <2>2, SystemWorker, AnswerWorker, Zenon
  <2>3. CASE StopDispatcher \/ AbandonActivation \/ UNCHANGED vars
    <3>1. UNCHANGED <<messages, system, batch, systemBatch, invoked, told, sent, discarded,
                      deadLetters, tpc, current>>
      BY <2>3, Zenon DEF StopDispatcher, AbandonActivation, vars
    <3>2. SystemInv'
      BY <3>1, Zenon DEF SystemInv
    <3>3. QED BY <3>1, <3>2, SettledStays, ZenonT(60)
  <2>4. QED BY <2>1, <2>2, <2>3, Zenon DEF Next
<1>3. A => AnswerIsKept
  BY AnsweredIsKept, Zenon
<1>4. QED BY <1>1, <1>2, <1>3, TypeCorrect, SchedulingCorrect, CapacityInductive,
             StoppingCorrect, PTL DEF Spec
=============================================================================
