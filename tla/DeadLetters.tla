---------------------------- MODULE DeadLetters ----------------------------
(***************************************************************************)
(* The broker of dead letters (src/movie/actor/dead_letter.py): a replay   *)
(* window of bounded size that publishers never wait for, and              *)
(* subscriptions that read it at their own pace and count what they        *)
(* missed.  A letter is its sequence number; every operation is one        *)
(* critical section of the broker's lock.                                  *)
(***************************************************************************)
EXTENDS Integers, FiniteSets, TLAPS

CONSTANTS
    Capacity,          \* _capacity, the length of _entries
    MaxSubscriptions,  \* _max_subscriptions
    Subscriptions      \* the subscriptions that are ever made

Positive == Capacity \in Nat \ {0}

VARIABLES
    next,      \* _next_sequence
    closed,    \* _closed
    open,      \* _subscriptions
    ended,     \* the subscriptions that were closed
    cursor,    \* cursor[s]: _cursor
    dropped,   \* dropped[s]: _dropped
    origin,    \* origin[s]: the cursor s began with
    received   \* received[s]: how many letters s was given

subscriptionVars == <<open, ended, cursor, dropped, origin, received>>
vars == <<next, closed, subscriptionVars>>

Init ==
    /\ next = 0 /\ closed = FALSE
    /\ open = {} /\ ended = {}
    /\ cursor = [s \in Subscriptions |-> 0]
    /\ dropped = [s \in Subscriptions |-> 0]
    /\ origin = [s \in Subscriptions |-> 0]
    /\ received = [s \in Subscriptions |-> 0]

\* The oldest letter that _entries still holds, if it holds any.
FirstSequence == IF next > Capacity THEN next - Capacity ELSE 0

Publish ==
    /\ ~closed
    /\ next' = next + 1
    /\ UNCHANGED <<closed, subscriptionVars>>

Subscribe(s) ==
    /\ ~closed
    /\ Cardinality(open) < MaxSubscriptions
    /\ s \notin open \cup ended
    /\ open' = open \cup {s}
    /\ cursor' = [cursor EXCEPT ![s] = next]
    /\ origin' = [origin EXCEPT ![s] = next]
    /\ UNCHANGED <<next, closed, ended, dropped, received>>

Close ==
    /\ closed' = TRUE
    /\ UNCHANGED <<next, subscriptionVars>>

\* _advance_cursor: what has left the window is counted and skipped.
Advanced(s) == IF cursor[s] < FirstSequence THEN FirstSequence ELSE cursor[s]
Missed(s) == dropped[s] + (Advanced(s) - cursor[s])

\* The closed broker is still read to the end of the window.
Poll(s) ==
    /\ s \in open
    /\ IF Advanced(s) < next
         THEN /\ cursor' = [cursor EXCEPT ![s] = Advanced(s) + 1]
              /\ received' = [received EXCEPT ![s] = @ + 1]
         ELSE /\ cursor' = [cursor EXCEPT ![s] = Advanced(s)]
              /\ UNCHANGED received
    /\ dropped' = [dropped EXCEPT ![s] = Missed(s)]
    /\ UNCHANGED <<next, closed, open, ended, origin>>

\* dropped_count, also of a subscription that was closed.
DroppedCount(s) ==
    /\ s \in open \cup ended
    /\ cursor' = [cursor EXCEPT ![s] = Advanced(s)]
    /\ dropped' = [dropped EXCEPT ![s] = Missed(s)]
    /\ UNCHANGED <<next, closed, open, ended, origin, received>>

Unsubscribe(s) ==
    /\ s \in open
    /\ open' = open \ {s} /\ ended' = ended \cup {s}
    /\ UNCHANGED <<next, closed, cursor, dropped, origin, received>>

Next ==
    \/ Publish \/ Close
    \/ \E s \in Subscriptions :
          Subscribe(s) \/ Poll(s) \/ DroppedCount(s) \/ Unsubscribe(s)

Spec == Init /\ [][Next]_vars

-----------------------------------------------------------------------------
TypeOK ==
    /\ next \in Nat /\ closed \in BOOLEAN
    /\ open \subseteq Subscriptions /\ ended \subseteq Subscriptions
    /\ {cursor, dropped, origin, received} \subseteq [Subscriptions -> Nat]

\* A subscription is given each letter at most once and skips none silently: its
\* cursor is accounted for by what it was given and by what it counts as dropped.
Accounted ==
    \A s \in Subscriptions :
        origin[s] + received[s] + dropped[s] = cursor[s] /\ cursor[s] <= next

\* dropped_count is exact when it is read: of what was published since the
\* subscription began, all that was neither given nor dropped is in the window.
CountIsExact ==
    [][\A s \in Subscriptions :
          DroppedCount(s) =>
              next - (origin[s] + received[s] + dropped'[s]) <= Capacity]_vars

Untouched ==
    \A s \in Subscriptions \ (open \cup ended) : dropped[s] = 0 /\ received[s] = 0

IInv == TypeOK /\ Accounted /\ Untouched

\* The window does not start after its end, and no subscription is ahead of it.
LEMMA WindowBounds ==
    ASSUME Positive, TypeOK, NEW s \in Subscriptions, cursor[s] <= next
    PROVE  /\ FirstSequence \in Nat /\ FirstSequence <= next
           /\ next - FirstSequence <= Capacity
           /\ Advanced(s) \in Nat
           /\ cursor[s] <= Advanced(s) /\ FirstSequence <= Advanced(s)
           /\ Advanced(s) <= next
<1>1. next \in Nat /\ Capacity \in Nat /\ cursor[s] \in Nat
  BY DEF Positive, TypeOK
<1> QED
  BY <1>1 DEF FirstSequence, Advanced

\* A broker that has published nothing owes nobody anything.
LEMMA Initial == Init => IInv
<1> SUFFICES ASSUME Init PROVE IInv
  OBVIOUS
<1>1. /\ cursor \in [Subscriptions -> Nat] /\ dropped \in [Subscriptions -> Nat]
      /\ origin \in [Subscriptions -> Nat] /\ received \in [Subscriptions -> Nat]
  BY DEF Init
<1>2. TypeOK
  BY <1>1 DEF Init, TypeOK
<1>3. Accounted
  BY DEF Init, Accounted
<1>4. Untouched
  BY DEF Init, Untouched
<1> QED
  BY <1>2, <1>3, <1>4 DEF IInv

\* Publishing, polling, counting and closing keep every cursor accounted for.
LEMMA Inductive ==
    ASSUME Positive, IInv, [Next]_vars
    PROVE  IInv'
<1> USE DEF IInv, TypeOK, Accounted, Untouched
<1>1. CASE Publish
  BY <1>1 DEF Publish, subscriptionVars
<1>2. CASE Close
  BY <1>2 DEF Close, subscriptionVars
<1>3. ASSUME NEW s \in Subscriptions, Subscribe(s)
      PROVE  IInv'
  <2>1. /\ cursor' = [cursor EXCEPT ![s] = next] /\ origin' = [origin EXCEPT ![s] = next]
        /\ UNCHANGED <<next, closed, ended, dropped, received>>
        /\ open' = open \cup {s} /\ s \notin open \cup ended
    BY <1>3 DEF Subscribe
  <2>2. TypeOK'
    BY <2>1
  <2>3. Accounted'
    BY <2>1
  <2>4. Untouched'
    BY <2>1
  <2> QED
    BY <2>2, <2>3, <2>4
<1>4. ASSUME NEW s \in Subscriptions, Poll(s)
      PROVE  IInv'
  <2>1. Advanced(s) \in Nat /\ cursor[s] <= Advanced(s) /\ Advanced(s) <= next
    BY WindowBounds
  <2>2. Missed(s) \in Nat /\ Missed(s) = dropped[s] + (Advanced(s) - cursor[s])
    BY <2>1 DEF Missed
  <2>3. /\ dropped' = [dropped EXCEPT ![s] = Missed(s)] /\ s \in open
        /\ UNCHANGED <<next, closed, open, ended, origin>>
    BY <1>4 DEF Poll
  <2>4. CASE Advanced(s) < next
    <3>1. /\ cursor' = [cursor EXCEPT ![s] = Advanced(s) + 1]
          /\ received' = [received EXCEPT ![s] = @ + 1]
      BY <1>4, <2>4 DEF Poll
    <3> QED
      BY <2>1, <2>2, <2>3, <2>4, <3>1
  <2>5. CASE ~(Advanced(s) < next)
    <3>1. cursor' = [cursor EXCEPT ![s] = Advanced(s)] /\ UNCHANGED received
      BY <1>4, <2>5 DEF Poll
    <3> QED
      BY <2>1, <2>2, <2>3, <3>1
  <2> QED
    BY <2>4, <2>5
<1>5. ASSUME NEW s \in Subscriptions, DroppedCount(s)
      PROVE  IInv'
  <2>1. Advanced(s) \in Nat /\ cursor[s] <= Advanced(s) /\ Advanced(s) <= next
    BY WindowBounds
  <2>2. Missed(s) \in Nat /\ Missed(s) = dropped[s] + (Advanced(s) - cursor[s])
    BY <2>1 DEF Missed
  <2>3. /\ dropped' = [dropped EXCEPT ![s] = Missed(s)] /\ s \in open \cup ended
        /\ cursor' = [cursor EXCEPT ![s] = Advanced(s)]
        /\ UNCHANGED <<next, closed, open, ended, origin, received>>
    BY <1>5 DEF DroppedCount
  <2> QED
    BY <2>1, <2>2, <2>3
<1>6. ASSUME NEW s \in Subscriptions, Unsubscribe(s)
      PROVE  IInv'
  BY <1>6 DEF Unsubscribe
<1>7. CASE UNCHANGED vars
  BY <1>7 DEF vars, subscriptionVars
<1> QED
  BY <1>1, <1>2, <1>3, <1>4, <1>5, <1>6, <1>7 DEF Next

\* Every cursor is accounted for, for every capacity and any number of
\* publishers and subscriptions.
THEOREM LettersAccounted ==
    ASSUME Positive
    PROVE  Spec => []Accounted
<1>1. Init => IInv
  BY Initial
<1>2. IInv /\ [Next]_vars => IInv'
  BY Inductive
<1>3. IInv => Accounted
  BY DEF IInv
<1> QED
  BY <1>1, <1>2, <1>3, PTL DEF Spec

\* The count a subscriber reads is exact.
THEOREM DroppedCountExact ==
    ASSUME Positive
    PROVE  Spec => CountIsExact
<1>1. Init => IInv
  BY Initial
<1>2. IInv /\ [Next]_vars => IInv'
  BY Inductive
<1> DEFINE Exact == \A s \in Subscriptions :
             DroppedCount(s) => next - (origin[s] + received[s] + dropped'[s]) <= Capacity
<1>3. IInv => Exact
  <2> SUFFICES ASSUME IInv, NEW s \in Subscriptions, DroppedCount(s)
               PROVE  next - (origin[s] + received[s] + dropped'[s]) <= Capacity
    OBVIOUS
  <2>1. /\ cursor[s] <= next /\ next \in Nat /\ Capacity \in Nat
        /\ origin[s] + received[s] + dropped[s] = cursor[s]
        /\ origin[s] \in Nat /\ received[s] \in Nat /\ dropped[s] \in Nat
        /\ cursor[s] \in Nat /\ dropped \in [Subscriptions -> Nat]
    BY DEF IInv, TypeOK, Accounted, Positive
  <2>2. /\ FirstSequence \in Nat /\ Advanced(s) \in Nat
        /\ next - FirstSequence <= Capacity /\ FirstSequence <= Advanced(s)
    BY <2>1, WindowBounds DEF IInv
  <2>3. dropped'[s] = dropped[s] + (Advanced(s) - cursor[s])
    BY <2>1 DEF DroppedCount, Missed
  <2> QED
    BY <2>1, <2>2, <2>3
<1> QED
  BY <1>1, <1>2, <1>3, PTL DEF Spec, CountIsExact
=============================================================================
