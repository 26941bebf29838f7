---------------------------- MODULE MCProjection ----------------------------
(* An at-least-once and an exactly-once projection over two entities, of   *)
(* which the first wants one.                                              *)
EXTENDS Projection

CONSTANTS pid1, pid2, r1, r2

TwoPids == {pid1, pid2}
TwoRunners == {r1, r2}
WantedOf == [r \in TwoRunners |-> IF r = r1 THEN {pid1} ELSE {pid1, pid2}]
ModesOf == [r \in TwoRunners |-> IF r = r1 THEN {"at-least-once"} ELSE {"exactly-once"}]
Initials == {Null, 1}
============================================================================
