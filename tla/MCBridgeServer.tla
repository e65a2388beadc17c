--------------------------- MODULE MCBridgeServer ---------------------------
(* Instance of BridgeServer for TLC: two calls.                            *)
EXTENDS BridgeServer

MCClients == {"c1", "c2"}
MCWanted  == [c \in MCClients |-> IF c = "c2" THEN "check" ELSE "hook"]
=============================================================================
