---------------------------- MODULE MCActorTree ----------------------------
(* Instances of ActorTree: a guardian, an actor and its children.            *)
EXTENDS ActorTree, TLC

CONSTANTS root, parent, c, d, none

TreeParent == [a \in Actors |-> CASE a = root -> none [] a = parent -> root [] OTHER -> parent]

\* d is spawned under the name c had.
SharedPath == [a \in Actors |-> IF a = d THEN c ELSE a]
=============================================================================
