---------------------------- MODULE MCRemoting -----------------------------
(***************************************************************************)
(* Instances of Remoting: two systems that connect to each other at the    *)
(* same time, and a system whose peer is restarted.                        *)
(***************************************************************************)
EXTENDS Remoting, TLC

CONSTANTS a, b, b2

Names == a :> "alpha" @@ b :> "beta" @@ b2 :> "beta"
NamesOfTwo == a :> "alpha" @@ b :> "beta"
Uids == a :> 2 @@ b :> 1 @@ b2 :> 3
UidsOfTwo == a :> 1 @@ b :> 2
Restarted == a :> 1 @@ b :> 1 @@ b2 :> 2
NotRestarted == a :> 1 @@ b :> 1

RestartedConnects == 1 :> a @@ 2 :> b2
One == {1}
OneConnects == 1 :> a
Two == {1, 2}

FromAlpha == 1 :> a @@ 2 :> a
ToBeta == 1 :> b @@ 2 :> b

============================================================================
