---------------------------- MODULE MCWorkerPool ----------------------------
(* Instances of WorkerPool: two workers and up to two mailboxes.          *)
EXTENDS WorkerPool, TLC

CONSTANTS a, b

MailboxSymmetry == Permutations(Mailboxes)
=============================================================================
