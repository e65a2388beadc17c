--------------------------- MODULE MCPluginService ---------------------------
(* Small instances of PluginService. *)
EXTENDS PluginService

CONSTANTS p1, p2, p3, skill, wasm, oci

MCTier == [n \in Plugins |-> CASE n = skill -> "skill" [] n = wasm -> "wasm" [] OTHER -> "oci"]

\* What is fetched for the module may call itself the skill; one release of it has a module of
\* another name than plugin.wasm, or two lists of exports.
MCNamed == [n \in Plugins |-> IF n = wasm THEN {wasm, skill} \cap Plugins ELSE {n}]
MCDrifting == {<<wasm, 2>>}

Ask(verb, n) == [verb |-> verb, name |-> n]

Single == {Ask(verb, n) : verb \in {"install", "uninstall"}, n \in Plugins}
Multiple == {Ask(verb, skill) : verb \in {"update", "fix"}}

\* At most one of the commands goes through several plugins; the OCI plugin meets only its
\* own commands and a repair.
MCRequests ==
  {r \in [Ops -> Single \cup Multiple] :
     /\ r[p1] \in Single \/ r[p2] \in Single
     /\ r[p1].name = oci => r[p2] = Ask("fix", skill) \/ r[p2].name = oci
     /\ r[p2].name = oci => r[p1].name = oci}

\* One op after the other.
InTurn == [p \in Ops |-> Ops \cap CASE p = p1 -> {} [] p = p2 -> {p1} [] OTHER -> {p1, p2}]

ASSUME OpsAreInTurn == OneAtATime

\* A new project, and one with a skill and a module.
NewOrUsed == {NoEntries, [n \in Plugins |-> IF n = oci THEN 0 ELSE 1]}
=============================================================================
