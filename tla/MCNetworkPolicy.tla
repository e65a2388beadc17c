--------------------------- MODULE MCNetworkPolicy ---------------------------
(* Instance of NetworkPolicy for TLC: two requests for one host of a plugin  *)
(* (both may be prompting at once), one for a host of another plugin.        *)
EXTENDS NetworkPolicy

MCConns  == {"c1", "c2", "c3"}
MCKeys   == {"p:a", "q:b"}
MCKeyOf  == [c \in MCConns |-> IF c = "c3" THEN "q:b" ELSE "p:a"]
MCScopes == {{"p:a"}, MCKeys}
=============================================================================
