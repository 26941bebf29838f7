--------------------------- MODULE MCDurableState ---------------------------
(* Two actors of one persistence id and three commands: one operation with *)
(* two contents, and a delete.                                             *)
EXTENDS DurableState

CONSTANTS pid1, a1, a2, op1, op2, content1, content2

OnePid == {pid1}
TwoActors == {a1, a2}
SamePid == [a \in TwoActors |-> pid1]
ClientCommands ==
    {[operation |-> op1, content |-> content1, stop |-> FALSE],
     [operation |-> op1, content |-> content2, stop |-> FALSE],
     [operation |-> op2, content |-> Deleted, stop |-> TRUE]}
============================================================================
