----------------------------- MODULE MCCluster -----------------------------
(***************************************************************************)
(* A small cluster: a coordinator and a system that joins, leaves or fails *)
(* and joins again as another incarnation while its predecessor may still  *)
(* be a member.                                                            *)
(***************************************************************************)
EXTENDS Cluster

CONSTANTS seed, a1, a2

Members == {a1, a2}
Names == [i \in {seed, a1, a2} |-> IF i = seed THEN seed ELSE a1]

\* Two control messages wait at a member, in either order.
ReorderingQueues == [i \in {seed, a1, a2} |-> IF i = seed THEN 1 ELSE 2]
SingleSlots == [i \in {seed, a1, a2} |-> 1]

OneHeartbeat == [i \in Members |-> IF i = a1 THEN 1 ELSE 0]
NoHeartbeats == [i \in Members |-> 0]

============================================================================
