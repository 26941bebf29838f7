------------------------ MODULE MCExtensionRegistry ------------------------
(* Instances of ExtensionRegistry: two extensions that may need each other. *)
EXTENDS ExtensionRegistry

CONSTANTS one, two, t1, t2, nobody

\* The factory of either may look the other up, and so may the first's start().
Factories == [k \in Keys |-> Keys \ {k}]
Starts == [k \in Keys |-> IF k = one THEN Keys \ {k} ELSE {}]

\* One thread comes back for more.
Lookups == [t \in Threads |-> IF t = t1 THEN 2 ELSE 1]
=============================================================================
