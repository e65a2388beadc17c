--------------------------- MODULE MCRegistryCache ---------------------------
(* Instance of RegistryCache for TLC: two registries, of which the first     *)
(* takes the plugin into its index after a while.                             *)
EXTENDS RegistryCache, TLC

MCSources   == <<"own", "official">>
MCPublished == << [x |-> 0], [x |-> 2], [x |-> 1] >>
MCFirst     == [s \in {"own", "official"} |-> IF s = "own" THEN 1 ELSE 3]
MCLast      == [s \in {"own", "official"} |-> IF s = "own" THEN 2 ELSE 3]
MCCachePath == [s \in {"own", "official"} |-> s]
Symmetry    == Permutations(Procs)
=============================================================================
