--------------------------- MODULE AtomicInstall ---------------------------
(***************************************************************************)
(* What orchestrator.Install and orchestrator.Uninstall promise: to every  *)
(* process that finds the home lock free, each call has happened at once.  *)
(* An install that succeeded put every path in place; one that failed and  *)
(* rolled back left no path it made; only a call that says so, or one that *)
(* was killed, leaves part of its work behind.  Orchestrator is shown to   *)
(* implement this.                                                         *)
(*                                                                         *)
(* A path is absent, "new" (what this build installs) or "old" (anything   *)
(* else: an earlier build's tree, or part of one).                         *)
(***************************************************************************)
CONSTANTS
  Procs,         \* the processes, one call each
  Paths,         \* what the components own
  Irreversible   \* the paths whose mutation carries no Reverse

VARIABLES
  store,    \* the paths, as whoever takes the lock finds them
  answer    \* what each process was told

vars == <<store, answer>>

Contents == {"absent", "old", "new"}
Results == {"ok", "rolled_back", "manual", "removed", "partly", "refused", "killed"}
Calls == {"install", "force", "dry", "uninstall"}
Open == [call |-> "none", result |-> "none"]
Answers == {Open} \cup [call : Calls, result : Results]

Init ==
  /\ store \in [Paths -> Contents]
  /\ answer = [p \in Procs |-> Open]

Tell(p, call, result) ==
  /\ answer[p] = Open
  /\ answer' = [answer EXCEPT ![p] = [call |-> call, result |-> result]]

\* Nothing on disk says that the call was ever made.
NoEffect(p, call, result) == Tell(p, call, result) /\ UNCHANGED store

Succeed(p, call) ==
  /\ call \in {"install", "force"}
  /\ Tell(p, call, "ok")
  /\ store' = [x \in Paths |-> "new"]

\* What a path may have become when its mutation, if it had one, was undone.  Undoing is
\* removing: a path that was replaced does not come back.
Undone(x, call, now) ==
  \/ now = store[x]
  \/ now = "absent" /\ (store[x] = "old" \/ call = "force")
  \/ now = "new" /\ x \in Irreversible

RollBack(p, call) ==
  /\ call \in {"install", "force"}
  /\ Tell(p, call, "rolled_back")
  /\ store' \in [Paths -> Contents]
  /\ \A x \in Paths : Undone(x, call, store'[x])

\* Part of the work stays, and the answer says that it needs a hand; or the process died.
\* Even so a path that was up to date is not touched unless the call was forced.
LeaveBehind(p, call, result) ==
  /\ call \in {"install", "force"}
  /\ result \in {"manual", "killed"}
  /\ Tell(p, call, result)
  /\ store' \in [Paths -> Contents]
  /\ \A x \in Paths : store[x] = "new" /\ call = "install" => store'[x] = "new"

Remove(p) ==
  /\ Tell(p, "uninstall", "removed")
  /\ store' = [x \in Paths |-> "absent"]

RemovePart(p, result) ==
  /\ result \in {"partly", "killed"}
  /\ Tell(p, "uninstall", result)
  /\ store' \in [Paths -> Contents]
  /\ \A x \in Paths : store'[x] \in {store[x], "absent"} \cup (IF store[x] = "new" THEN {"old"} ELSE {})

Next ==
  \E p \in Procs, call \in Calls, result \in Results :
    \/ NoEffect(p, call, result) /\ (call = "dry" \/ result = "refused")
    \/ Succeed(p, call)
    \/ RollBack(p, call)
    \/ LeaveBehind(p, call, result)
    \/ Remove(p)
    \/ RemovePart(p, result)

Spec == Init /\ [][Next]_vars

=============================================================================
