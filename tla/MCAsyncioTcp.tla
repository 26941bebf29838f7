--------------------------- MODULE MCAsyncioTcp ----------------------------
(***************************************************************************)
(* Instances of AsyncioTcp: records moving both ways over one connection,  *)
(* and a connection that is closed from several sides at once.             *)
(***************************************************************************)
EXTENDS AsyncioTcp, TLC

CONSTANTS w1, w2, t1, t2

TwoAndOne == "control" :> 2 @@ "lane" :> 1
OneRecord == "control" :> 1
Handshake == <<"HELLO", "ACCEPT", "MESSAGE", "MESSAGE", "GOAWAY">>
NoFrame == <<>>

============================================================================
