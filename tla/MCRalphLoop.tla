---------------------------- MODULE MCRalphLoop ----------------------------
(* Small instances of RalphLoop. *)
EXTENDS RalphLoop

CONSTANTS l1, l2

Task1 == <<1, 0>>
Task2 == <<2, 0>>

Cmd(kind, id) == [kind |-> kind, id |-> id, title |-> "new", prio |-> "medium", stamp |-> "sha"]

MCCommands ==
  {Cmd("done", Task1), Cmd("skip", Task2), Cmd("reset", Task1), Cmd("enqueue", Task1)}

\* The second task waits for the first.
Chain ==
  RecalculateProgress([NewAutoPRD EXCEPT !.tasks =
    [id \in {Task1, Task2} |->
       IF id = Task1 THEN NewTask("old", "low")
       ELSE [NewTask("old", "critical") EXCEPT !.deps = {Task1}]]])

\* Two tasks wait for one whose row prd.Load could not read and dropped.
Stuck ==
  RecalculateProgress([NewAutoPRD EXCEPT !.tasks =
    [id \in {Task1, Task2, <<3, 0>>} |->
       IF id = Task1 THEN NewTask("old", "low")
       ELSE [NewTask("old", "critical") EXCEPT !.deps = {<<9, 0>>}]]])
ChainOnly == {Chain}
ChainAndStuck == {Chain, Stuck}

ASSUME RunsAreInTurn == OneAtATime /\ \A d \in InitialDocs : Iterations(d) = 0

\* The second run resumes the queue the first one left.
Resume == [l \in Loops |-> IF l = l2 THEN Loops \cap {l1} ELSE {}]
Three == [l \in Loops |-> 3]
TwoThenOne == [l \in Loops |-> IF l = l1 THEN 2 ELSE 1]

\* The defaults with two plugins, of which one checks the run directory and, before the
\* default, the result, and one has an opinion on every iteration; context.extra, which only
\* warns, always fails.
MCRegistry ==
  LET defaults == SetConfig(RegisterDefaults(NewRegistry), "quality.check", TRUE, "checker" :> 50)
      plugin(r, name, may, by) == RegisterWithOrder(r, name, may, "plugin", by, 200)
      checked == plugin(plugin(defaults, "before:loop", {"done", "error"}, "checker"),
                        "quality.check", {"done", "error"}, "checker")
      planned == plugin(checked, "iteration.gate", Results, "planner")
  IN  Replace(planned, "context.extra", {"error"})
=============================================================================
