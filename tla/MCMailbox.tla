----------------------------- MODULE MCMailbox -----------------------------
(* An instance of Mailbox: two sending threads and two workers.             *)
EXTENDS Mailbox, TLC

CONSTANTS spawner, t1, w1, w2

\* Both threads compete for the last place, one of them as a remoting thread;
\* the spawner also supervises.
MixedTraffic == (spawner :> {"tell", "Stop", "Restart", "Resume"}) @@ (t1 :> {"tell", "remote"})

WorkerSymmetry == Permutations({w1, w2})
=============================================================================
