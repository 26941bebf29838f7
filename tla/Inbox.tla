-------------------------------- MODULE Inbox --------------------------------
(***************************************************************************)
(* What an actor's mailbox promises, without locks, batches, activations   *)
(* or dispatchers: two first-in first-out queues, of user messages and of  *)
(* lifecycle messages, from which the actor is handed one message at a     *)
(* time.  Mailbox.tla implements it (Mailbox!InboxSpec).                   *)
(***************************************************************************)
EXTENDS Naturals, Sequences

CONSTANTS Message, Priority   \* all messages; the lifecycle ones among them

VARIABLES user,        \* admitted user messages, not yet invoked
          lifecycle,   \* admitted lifecycle messages, not yet invoked
          open         \* new messages are admitted

inboxVars == <<user, lifecycle, open>>

InboxInit == user = <<>> /\ lifecycle = <<>> /\ open = TRUE

\* A message joins the end of its queue.
Admit(m) ==
    /\ open
    /\ IF m \in Priority
         THEN lifecycle' = Append(lifecycle, m) /\ UNCHANGED user
         ELSE user' = Append(user, m) /\ UNCHANGED lifecycle
    /\ UNCHANGED open

\* A send that could not be scheduled takes its own message back, wherever it
\* has got to; a lifecycle message is never taken back.
Withdraw(i) ==
    /\ user' = SubSeq(user, 1, i - 1) \o SubSeq(user, i + 1, Len(user))
    /\ UNCHANGED <<lifecycle, open>>

\* The actor is invoked with the oldest message of a queue.
InvokeNext ==
    \/ user # <<>> /\ user' = Tail(user) /\ UNCHANGED <<lifecycle, open>>
    \/ lifecycle # <<>> /\ lifecycle' = Tail(lifecycle) /\ UNCHANGED <<user, open>>

\* A stopping actor gives up the newest messages; what it keeps stays in order.
Abandon ==
    /\ \E k \in 0..Len(user) : user' = SubSeq(user, 1, k)
    /\ \E k \in 0..Len(lifecycle) : lifecycle' = SubSeq(lifecycle, 1, k)
    /\ open' \in {open, FALSE}

InboxNext ==
    \/ \E m \in Message : Admit(m)
    \/ \E i \in DOMAIN user : Withdraw(i)
    \/ InvokeNext
    \/ Abandon

InboxSpec == InboxInit /\ [][InboxNext]_inboxVars
==============================================================================
