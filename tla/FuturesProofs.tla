--------------------------- MODULE FuturesProofs ---------------------------
(***************************************************************************)
(* Proofs that the callbacks of RuntimeFuture run one at a time per        *)
(* future, at most once, and are not forgotten (see Futures).              *)
(***************************************************************************)
EXTENDS Futures, TLAPS

\* The type invariant is kept.
LEMMA TypeStep == ASSUME WellFormed, TypeOK, OnceInv, [Next]_vars PROVE TypeOK'
<1> USE DEF WellFormed, TypeOK, Agents, executorVars, futureVars, agentVars, Goto, Of, Runs
<1>1. ASSUME Close PROVE TypeOK'
  <2>1. Sentinels \in Seq(Futures \cup {Stop})  BY DEF Sentinels
  <2>2. queue \o Sentinels \in Seq(Futures \cup {Stop})  BY <2>1
  <2> QED BY <1>1, <2>2 DEF Close
<1>2. ASSUME NEW t \in Threads, NEW f \in Futures, Settle(t, f) PROVE TypeOK'
  BY <1>2 DEF Settle, Labels
<1>3. ASSUME NEW t \in Threads, Invoke(t) PROVE TypeOK'
  BY <1>3 DEF Invoke, Labels
<1>4. ASSUME NEW t \in Threads, Invoked(t) PROVE TypeOK'
  BY <1>4 DEF Invoked, Labels
<1>5. ASSUME NEW t \in Threads, Submit(t) PROVE TypeOK'
  BY <1>5 DEF Submit, Labels
<1>6. ASSUME NEW t \in Threads, SubmitInline(t) PROVE TypeOK'
  BY <1>6 DEF SubmitInline, Labels
<1>7. ASSUME NEW t \in Threads, NEW c \in Callbacks, RunInternal(t, c) PROVE TypeOK'
  BY <1>7 DEF RunInternal, Labels
<1>8. ASSUME NEW t \in Threads, NEW c \in Callbacks, Register(t, c) PROVE TypeOK'
  BY <1>8 DEF Register, Labels
<1>9. ASSUME NEW t \in Threads, NEW c \in Callbacks, RegisterInternalLate(t, c) PROVE TypeOK'
  BY <1>9 DEF RegisterInternalLate, Labels
<1>10. ASSUME NEW t \in Threads, NEW c \in Callbacks, RegisterLate(t, c) PROVE TypeOK'
  <2>1. /\ draining' \in SUBSET Futures /\ job' \in [Agents -> Futures]
        /\ pc' \in [Agents -> Labels]
    <3>1. FutureOf[c] \in Futures  OBVIOUS
    <3>2. CASE FutureOf[c] \notin draining  BY <1>10, <3>1, <3>2 DEF RegisterLate, Labels
    <3>3. CASE FutureOf[c] \in draining  BY <1>10, <3>3 DEF RegisterLate
    <3> QED BY <3>2, <3>3
  <2>2. pending' \in SUBSET Callbacks /\ registered' \in SUBSET Callbacks
    BY <1>10 DEF RegisterLate
  <2> QED BY <1>10, <2>1, <2>2 DEF RegisterLate
<1>11. ASSUME NEW w \in Workers, Take(w) PROVE TypeOK'
  <2>1. Tail(queue) \in Seq(Futures \cup {Stop}) /\ Head(queue) \in Futures \cup {Stop}
    BY <1>11 DEF Take
  <2>2. job' \in [Agents -> Futures] /\ pc' \in [Agents -> Labels]
    <3>1. CASE Head(queue) = Stop  BY <1>11, <3>1, Zenon DEF Take, Labels
    <3>2. CASE Head(queue) # Stop
      <4>1. Head(queue) \in Futures  BY <2>1, <3>2
      <4>2. pc' = [pc EXCEPT ![w] = "drain"] /\ job' = [job EXCEPT ![w] = Head(queue)]
        BY <1>11, <3>2 DEF Take
      <4> QED BY <4>1, <4>2 DEF Labels
    <3> QED BY <3>1, <3>2
  <2> QED BY <1>11, <2>1, <2>2 DEF Take
<1>12. ASSUME NEW a \in Agents, Drained(a) PROVE TypeOK'
  BY <1>12 DEF Drained, Labels
<1>13. ASSUME NEW a \in Agents, Return(a) PROVE TypeOK'
  <2>1. calling[a] \in Callbacks  BY <1>13 DEF Return, OnceInv
  <2>2. runs' \in [Callbacks -> Nat]  BY <1>13, <2>1 DEF Return
  <2>3. calling' \in [Agents -> Callbacks \cup {Nothing}] /\ pc' \in [Agents -> Labels]
    BY <1>13 DEF Return, Labels
  <2> QED BY <1>13, <2>2, <2>3 DEF Return
<1>14. ASSUME NEW a \in Agents, NEW c \in Callbacks, Pop(a, c) PROVE TypeOK'
  BY <1>14 DEF Pop, Labels
<1>15. ASSUME UNCHANGED vars PROVE TypeOK'
  BY <1>15 DEF vars
<1> QED BY <1>1, <1>2, <1>3, <1>4, <1>5, <1>6, <1>7, <1>8, <1>9, <1>10, <1>11, <1>12, <1>13, <1>14, <1>15, Zenon DEF Next

\* A callback is in one place at a time, and leaves the last one when it runs.
LEMMA OnceStep == ASSUME WellFormed, TypeOK, OnceInv, [Next]_vars PROVE OnceInv'
<1> USE DEF WellFormed, TypeOK, OnceInv, Agents, executorVars, futureVars, agentVars, Goto, Of, Runs
<1>1. ASSUME Close PROVE OnceInv'
  BY <1>1 DEF Close, Early
<1>2. ASSUME NEW t \in Threads, NEW f \in Futures, Settle(t, f) PROVE OnceInv'
  BY <1>2 DEF Settle, Early
<1>3. ASSUME NEW t \in Threads, Invoke(t) PROVE OnceInv'
  BY <1>3 DEF Invoke, Early
<1>4. ASSUME NEW t \in Threads, Invoked(t) PROVE OnceInv'
  BY <1>4 DEF Invoked, Early
<1>5. ASSUME NEW t \in Threads, Submit(t) PROVE OnceInv'
  BY <1>5 DEF Submit, Early
<1>6. ASSUME NEW t \in Threads, SubmitInline(t) PROVE OnceInv'
  BY <1>6 DEF SubmitInline, Early
<1>7. ASSUME NEW t \in Threads, NEW c \in Callbacks, RunInternal(t, c) PROVE OnceInv'
  BY <1>7 DEF RunInternal, Early
<1>8. ASSUME NEW t \in Threads, NEW c \in Callbacks, Register(t, c) PROVE OnceInv'
  BY <1>8 DEF Register, Early
<1>9. ASSUME NEW t \in Threads, NEW c \in Callbacks, RegisterInternalLate(t, c) PROVE OnceInv'
  BY <1>9 DEF RegisterInternalLate, Early
<1>10. ASSUME NEW t \in Threads, NEW c \in Callbacks, RegisterLate(t, c) PROVE OnceInv'
  BY <1>10 DEF RegisterLate, Early
<1>11. ASSUME NEW w \in Workers, Take(w) PROVE OnceInv'
  BY <1>11 DEF Take, Early
<1>12. ASSUME NEW a \in Agents, Drained(a) PROVE OnceInv'
  BY <1>12 DEF Drained, Early
<1>13. ASSUME NEW a \in Agents, Return(a) PROVE OnceInv'
  BY <1>13 DEF Return, Early
<1>14. ASSUME NEW a \in Agents, NEW c \in Callbacks, Pop(a, c) PROVE OnceInv'
  BY <1>14 DEF Pop, Early
<1>15. ASSUME UNCHANGED vars PROVE OnceInv'
  BY <1>15 DEF vars
<1> QED BY <1>1, <1>2, <1>3, <1>4, <1>5, <1>6, <1>7, <1>8, <1>9, <1>10, <1>11, <1>12, <1>13, <1>14, <1>15, Zenon DEF Next

\* Sentinels stay at the end of the queue, and a worker exits behind the last job.
LEMMA QueueStep == ASSUME WellFormed, TypeOK, QueueInv, [Next]_vars PROVE QueueInv'
<1> USE DEF WellFormed, TypeOK, QueueInv, Agents, executorVars, futureVars, agentVars, Goto, Of, Runs
<1>1. ASSUME Close PROVE QueueInv'
  BY <1>1 DEF Close, Sentinels
<1>2. ASSUME NEW t \in Threads, NEW f \in Futures, Settle(t, f) PROVE QueueInv'
  BY <1>2 DEF Settle, Sentinels
<1>3. ASSUME NEW t \in Threads, Invoke(t) PROVE QueueInv'
  BY <1>3 DEF Invoke, Sentinels
<1>4. ASSUME NEW t \in Threads, Invoked(t) PROVE QueueInv'
  BY <1>4 DEF Invoked, Sentinels
<1>5. ASSUME NEW t \in Threads, Submit(t) PROVE QueueInv'
  BY <1>5 DEF Submit, Sentinels
<1>6. ASSUME NEW t \in Threads, SubmitInline(t) PROVE QueueInv'
  BY <1>6 DEF SubmitInline, Sentinels
<1>7. ASSUME NEW t \in Threads, NEW c \in Callbacks, RunInternal(t, c) PROVE QueueInv'
  BY <1>7 DEF RunInternal, Sentinels
<1>8. ASSUME NEW t \in Threads, NEW c \in Callbacks, Register(t, c) PROVE QueueInv'
  BY <1>8 DEF Register, Sentinels
<1>9. ASSUME NEW t \in Threads, NEW c \in Callbacks, RegisterInternalLate(t, c) PROVE QueueInv'
  BY <1>9 DEF RegisterInternalLate, Sentinels
<1>10. ASSUME NEW t \in Threads, NEW c \in Callbacks, RegisterLate(t, c) PROVE QueueInv'
  BY <1>10 DEF RegisterLate, Sentinels
<1>11. ASSUME NEW w \in Workers, Take(w) PROVE QueueInv'
  BY <1>11 DEF Take, Sentinels
<1>12. ASSUME NEW a \in Agents, Drained(a) PROVE QueueInv'
  BY <1>12 DEF Drained, Sentinels
<1>13. ASSUME NEW a \in Agents, Return(a) PROVE QueueInv'
  BY <1>13 DEF Return, Sentinels
<1>14. ASSUME NEW a \in Agents, NEW c \in Callbacks, Pop(a, c) PROVE QueueInv'
  BY <1>14 DEF Pop, Sentinels
<1>15. ASSUME UNCHANGED vars PROVE QueueInv'
  BY <1>15 DEF vars
<1> QED BY <1>1, <1>2, <1>3, <1>4, <1>5, <1>6, <1>7, <1>8, <1>9, <1>10, <1>11, <1>12, <1>13, <1>14, <1>15, Zenon DEF Next

\* A future that is draining has one drain, carried by a thread or queued.
LEMMA DrainStep ==
    ASSUME WellFormed, TypeOK, OnceInv, DrainInv, [Next]_vars PROVE DrainInv'
<1> USE DEF DrainInv, CarriedOnce, QueuedOnce, CarriedNotQueued, ActiveIsMarked, MarkedIsActive, OwedIsMarked
<1> USE DEF WellFormed, TypeOK, Carries, Agents, executorVars, futureVars, agentVars, Goto, Of, Runs
<1>1. ASSUME Close PROVE DrainInv'
  <2> DEFINE q == queue \o Sentinels
  <2>1. Sentinels \in Seq({Stop})  BY DEF Sentinels
  <2>2. /\ DOMAIN queue = 1 .. Len(queue) /\ DOMAIN q = 1 .. Len(queue) + Len(Sentinels)
        /\ \A i \in DOMAIN queue : q[i] = queue[i]
        /\ \A i \in DOMAIN q : i \notin DOMAIN queue => q[i] = Stop
    BY <2>1
  <2>3. DOMAIN queue \subseteq DOMAIN q  BY <2>1, <2>2
  <2>4. queue' = q  BY <1>1 DEF Close
  <2> HIDE DEF q
  <2> QED BY <1>1, <2>2, <2>3, <2>4, SMTT(45) DEF Close
<1>2. ASSUME NEW t \in Threads, NEW f \in Futures, Settle(t, f) PROVE DrainInv'
  BY <1>2, Zenon DEF Settle
<1>3. ASSUME NEW t \in Threads, Invoke(t) PROVE DrainInv'
  <2> DEFINE f == job[t]
             start == Owed(f) # {} /\ f \notin draining
  <2>1. f \in Futures /\ ~Carries(t)  BY <1>3 DEF Invoke
  <2>2. /\ job' = job /\ queue' = queue
        /\ draining' = IF start THEN draining \cup {f} ELSE draining
    BY <1>3 DEF Invoke
  <2>3. \A a \in Agents : Carries(a)' <=> Carries(a) \/ (a = t /\ start)
    BY <1>3, Zenon DEF Invoke
  <2>4. \A c \in pending' : c \in pending \/ (FutureOf[c] = f /\ Owed(f) # {})
    BY <1>3 DEF Invoke, Owed
  <2> HIDE DEF start, f
  <2>5. \A c \in pending' : FutureOf[c] \in draining'  BY <2>2, <2>4 DEF start
  <2>6. start => f \notin draining  BY DEF start
  <2> USE DEF f
  <2>11. CarriedOnce'  BY <2>1, <2>2, <2>3, <2>6, SMTT(45)
  <2>12. QueuedOnce'  BY <2>2
  <2>13. CarriedNotQueued'  BY <2>2, <2>3, <2>6
  <2>14. ActiveIsMarked'  BY <2>2, <2>3
  <2>15. MarkedIsActive'  BY <2>2, <2>3, SMTT(45)
  <2>16. OwedIsMarked'  BY <2>5, SMTT(45)
  <2> QED BY <2>11, <2>12, <2>13, <2>14, <2>15, <2>16, SMTT(45)
<1>4. ASSUME NEW t \in Threads, Invoked(t) PROVE DrainInv'
  BY <1>4, SMTT(45) DEF Invoked
<1>5. ASSUME NEW t \in Threads, Submit(t) PROVE DrainInv'
  <2>1. /\ DOMAIN queue = 1 .. Len(queue) /\ DOMAIN queue' = 1 .. Len(queue) + 1
        /\ \A i \in DOMAIN queue : queue'[i] = queue[i]
        /\ queue'[Len(queue) + 1] = job[t]
    BY <1>5, SMTT(45) DEF Submit
  <2>2. job' = job /\ draining' = draining /\ pending' = pending /\ Carries(t)
    BY <1>5 DEF Submit
  <2>3. \A a \in Agents : Carries(a)' <=> Carries(a) /\ a # t  BY <1>5 DEF Submit
  <2> HIDE DEF Carries
  <2>4. \A i \in DOMAIN queue' : i \in DOMAIN queue \/ i = Len(queue) + 1  BY <2>1, SMTT(45)
  <2>5. \A i \in DOMAIN queue : i \in DOMAIN queue' /\ i # Len(queue) + 1  BY <2>1, SMTT(45)
  <2>6. Len(queue) + 1 \in DOMAIN queue'  BY <2>1, SMTT(45)
  <2>11. CarriedOnce'  BY <2>2, <2>3
  <2>12. QueuedOnce'  BY <2>1, <2>2, <2>4, SMTT(45)
  <2>13. CarriedNotQueued'  BY <2>1, <2>2, <2>3, <2>4, SMTT(45)
  <2>14. ActiveIsMarked'  BY <2>1, <2>2, <2>3, <2>4, SMTT(45)
  <2>15. MarkedIsActive'  BY <2>1, <2>2, <2>3, <2>4, <2>5, <2>6, ZenonT(60)
  <2>16. OwedIsMarked'  BY <2>2
  <2> QED BY <2>11, <2>12, <2>13, <2>14, <2>15, <2>16, SMTT(45)
<1>6. ASSUME NEW t \in Threads, SubmitInline(t) PROVE DrainInv'
  BY <1>6, SMTT(45) DEF SubmitInline
<1>7. ASSUME NEW t \in Threads, NEW c \in Callbacks, RunInternal(t, c) PROVE DrainInv'
  BY <1>7, SMTT(45) DEF RunInternal
<1>8. ASSUME NEW t \in Threads, NEW c \in Callbacks, Register(t, c) PROVE DrainInv'
  BY <1>8, SMTT(45) DEF Register
<1>9. ASSUME NEW t \in Threads, NEW c \in Callbacks, RegisterInternalLate(t, c) PROVE DrainInv'
  BY <1>9, SMTT(45) DEF RegisterInternalLate
<1>10. ASSUME NEW t \in Threads, NEW c \in Callbacks, RegisterLate(t, c) PROVE DrainInv'
  <2> DEFINE f == FutureOf[c]
  <2>1. f \in Futures /\ ~Carries(t)  BY <1>10, SMTT(45) DEF RegisterLate
  <2>2. queue' = queue /\ pending' = pending \cup {c}  BY <1>10, SMTT(45) DEF RegisterLate
  <2>3. CASE f \notin draining
    <3>1. draining' = draining \cup {f} /\ job' = [job EXCEPT ![t] = f]
      BY <1>10, <2>3, SMTT(45) DEF RegisterLate
    <3>2. \A a \in Agents : Carries(a)' <=> Carries(a) \/ a = t
      BY <1>10, <2>3, SMTT(45) DEF RegisterLate
    <3> HIDE DEF Carries
    <3> QED BY <2>1, <2>2, <2>3, <3>1, <3>2, SMTT(45)
  <2>4. CASE f \in draining
    <3>1. draining' = draining /\ job' = job /\ pc' = pc /\ starts' = starts
      BY <1>10, <2>4, SMTT(45) DEF RegisterLate
    <3> QED BY <2>2, <2>4, <3>1, SMTT(45)
  <2> QED BY <2>3, <2>4, SMTT(45)
<1>11. ASSUME NEW w \in Workers, Take(w) PROVE DrainInv'
  <2>1. /\ DOMAIN queue = 1 .. Len(queue) /\ DOMAIN queue' = 1 .. Len(queue) - 1
        /\ \A i \in DOMAIN queue' : queue'[i] = queue[i + 1]
        /\ Len(queue) > 0 /\ Len(queue) \in Nat /\ Head(queue) = queue[1]
    BY <1>11, SMTT(45) DEF Take
  <2>2. \A i \in DOMAIN queue' : i + 1 \in DOMAIN queue /\ i + 1 # 1  BY <2>1, SMTT(45)
  <2>3. \A i \in DOMAIN queue : i = 1 \/ (i - 1 \in DOMAIN queue' /\ queue'[i - 1] = queue[i])
    BY <2>1, SMTT(45)
  <2>4. 1 \in DOMAIN queue  BY <2>1, SMTT(45)
  <2>5. draining' = draining /\ pending' = pending /\ starts' = starts /\ ~Carries(w)
    BY <1>11, SMTT(45) DEF Take
  <2>6. CASE Head(queue) = Stop
    <3>1. job' = job /\ pc' = [pc EXCEPT ![w] = "exited"]  BY <1>11, <2>6 DEF Take
    <3>2. \A a \in Agents : Carries(a)' <=> Carries(a)  BY <2>5, <3>1
    <3> HIDE DEF Carries
    <3>11. CarriedOnce'  BY <3>1, <3>2
    <3>12. QueuedOnce'  BY <2>1, <2>2, SMTT(45)
    <3>13. CarriedNotQueued'  BY <2>1, <2>2, <3>1, <3>2, SMTT(45)
    <3>14. ActiveIsMarked'  BY <2>1, <2>2, <2>5, <3>1, <3>2, SMTT(45)
    <3>15. MarkedIsActive'
      <4>1. \A f \in draining : f # queue[1]  BY <2>1, <2>6, SMTT(45)
      <4>2. \A f \in draining, i \in DOMAIN queue :
               queue[i] = f => i - 1 \in DOMAIN queue' /\ queue'[i - 1] = f
        BY <2>3, <4>1, SMTT(45)
      <4> QED BY <2>5, <3>1, <3>2, <4>2, SMTT(45)
    <3>16. OwedIsMarked'  BY <2>5, SMTT(45)
    <3> QED BY <3>11, <3>12, <3>13, <3>14, <3>15, <3>16, SMTT(45)
  <2>7. CASE Head(queue) # Stop
    <3>1. job' = [job EXCEPT ![w] = Head(queue)] /\ pc' = [pc EXCEPT ![w] = "drain"]
      BY <1>11, <2>7, SMTT(45) DEF Take
    <3>2. \A a \in Agents : Carries(a)' <=> Carries(a) \/ a = w  BY <2>5, <3>1, SMTT(45)
    <3>3. job'[w] = queue[1] /\ \A a \in Agents : a # w => job'[a] = job[a]
      BY <2>1, <3>1, SMTT(45)
    <3>4. queue[1] \in draining  BY <2>1, <2>4, <2>7, SMTT(45)
    <3> HIDE DEF Carries
    <3>11. CarriedOnce'  BY <2>1, <2>4, <2>5, <3>2, <3>3, SMTT(45)
    <3>12. QueuedOnce'  BY <2>1, <2>2, SMTT(45)
    <3>13. CarriedNotQueued'
      <4>1. \A i \in DOMAIN queue' : queue'[i] # queue[1]
        <5>1. \A j \in DOMAIN queue : j # 1 => queue[j] # queue[1]  BY <2>1, <2>4, <2>7, SMTT(45)
        <5> QED BY <2>1, <2>2, <5>1, SMTT(45)
      <4>2. \A a \in Agents, i \in DOMAIN queue' : Carries(a) => queue'[i] # job[a]
        BY <2>1, <2>2, SMTT(45)
      <4> QED BY <2>5, <3>2, <3>3, <4>1, <4>2, SMTT(45)
    <3>14. ActiveIsMarked'  BY <2>1, <2>2, <2>5, <3>2, <3>3, <3>4, ZenonT(60)
    <3>15. MarkedIsActive'
      <4> SUFFICES ASSUME NEW f \in draining'
                   PROVE (\E a \in Agents : Carries(a)' /\ job'[a] = f)
                         \/ \E i \in DOMAIN queue' : queue'[i] = f
        BY SMTT(45)
      <4>1. CASE f = queue[1]  BY <3>2, <3>3, <4>1, SMTT(45)
      <4>2. CASE \E a \in Agents : Carries(a) /\ job[a] = f
        BY <2>5, <3>2, <3>3, <4>2, SMTT(45)
      <4>3. CASE \E i \in DOMAIN queue : i # 1 /\ queue[i] = f  BY <2>3, <4>3, SMTT(45)
      <4> QED BY <2>5, <4>1, <4>2, <4>3, SMTT(45)
    <3>16. OwedIsMarked'  BY <2>5
    <3> QED BY <3>11, <3>12, <3>13, <3>14, <3>15, <3>16, SMTT(45)
  <2> QED BY <2>6, <2>7, SMTT(45)
<1>12. ASSUME NEW a \in Agents, Drained(a) PROVE DrainInv'
  BY <1>12, SMTT(45) DEF Drained
<1>13. ASSUME NEW a \in Agents, Return(a) PROVE DrainInv'
  BY <1>13, SMTT(45) DEF Return
<1>14. ASSUME NEW a \in Agents, NEW c \in Callbacks, Pop(a, c) PROVE DrainInv'
  BY <1>14, SMTT(45) DEF Pop
<1>15. ASSUME UNCHANGED vars PROVE DrainInv'
  BY <1>15, SMTT(45) DEF vars
<1> QED BY <1>1, <1>2, <1>3, <1>4, <1>5, <1>6, <1>7, <1>8, <1>9, <1>10, <1>11, <1>12, <1>13, <1>14, <1>15, Zenon DEF Next

-----------------------------------------------------------------------------
IInv == TypeOK /\ OnceInv /\ QueueInv /\ DrainInv

\* A future with no callbacks, and an executor with no thread.
LEMMA Initial == ASSUME WellFormed, Init PROVE IInv
<1> USE DEF WellFormed, Init, Agents
<1>1. TypeOK
  <2>1. pc \in [Agents -> Labels]  BY DEF Labels
  <2>2. queue \in Seq(Futures \cup {Stop})  OBVIOUS
  <2>3. /\ todo \in [Agents -> SUBSET Callbacks] /\ starts \in [Agents -> BOOLEAN]
        /\ calling \in [Agents -> Callbacks \cup {Nothing}] /\ runs \in [Callbacks -> Nat]
    OBVIOUS
  <2> QED BY <2>1, <2>2, <2>3, Zenon DEF TypeOK
<1>2. OnceInv  BY DEF OnceInv
<1>3. QueueInv  BY DEF QueueInv
<1>4. DrainInv  BY DEF DrainInv, Carries, CarriedOnce, QueuedOnce, CarriedNotQueued, ActiveIsMarked, MarkedIsActive, OwedIsMarked
<1> QED BY <1>1, <1>2, <1>3, <1>4 DEF IInv

\* The conjunction is an inductive invariant.
LEMMA Invariant == ASSUME WellFormed PROVE Spec => []IInv
<1>1. Init => IInv  BY Initial
<1>2. IInv /\ [Next]_vars => IInv'
  BY TypeStep, OnceStep, QueueStep, DrainStep DEF IInv
<1> QED BY <1>1, <1>2, PTL DEF Spec

\* Whatever the number of workers and threads, the callbacks of one future never
\* run on two threads at once (_callback_draining).
THEOREM SerialCallbacks == ASSUME WellFormed PROVE Spec => []Serial
<1>1. IInv => Serial  BY DEF IInv, DrainInv, CarriedOnce, Serial, Carries
<1> QED BY <1>1, Invariant, PTL

\* No callback runs twice, however add_done_callback races _invoke_callbacks.
THEOREM CallbacksRunOnce == ASSUME WellFormed PROVE Spec => []RunOnce
<1>1. IInv => RunOnce  BY DEF IInv, OnceInv, RunOnce
<1> QED BY <1>1, Invariant, PTL

\* An owed callback is being drained, or its drain is queued before every
\* sentinel, so that a worker still takes it although close() was called.
THEOREM CallbacksNotForgotten == ASSUME WellFormed PROVE Spec => []NothingForgotten
<1>1. ASSUME IInv PROVE NothingForgotten
  <2> SUFFICES ASSUME NEW c \in pending PROVE
        \/ \E a \in Agents : Carries(a) /\ job[a] = FutureOf[c]
        \/ /\ \E i \in DOMAIN queue : queue[i] = FutureOf[c]
           /\ \A w \in Workers : pc[w] \notin {"off", "exited"}
    BY DEF NothingForgotten
  <2>1. FutureOf[c] \in draining /\ FutureOf[c] # Stop
    BY <1>1 DEF IInv, DrainInv, OwedIsMarked, TypeOK, WellFormed
  <2>2. CASE \E i \in DOMAIN queue : queue[i] = FutureOf[c]
    <3>1. \A w \in Workers : pc[w] # "exited"
      BY <1>1, <2>1, <2>2 DEF IInv, QueueInv
    <3>2. queue # <<>>  BY <2>2
    <3>3. \A w \in Workers : pc[w] # "off"  BY <1>1, <3>2 DEF IInv, QueueInv
    <3> QED BY <2>2, <3>1, <3>3, SMTT(45)
  <2> QED BY <1>1, <2>1, <2>2, SMTT(45) DEF IInv, DrainInv, MarkedIsActive
<1> QED BY <1>1, Invariant, PTL
=============================================================================
