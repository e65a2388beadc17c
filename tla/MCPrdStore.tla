----------------------------- MODULE MCPrdStore -----------------------------
(* Small instances of PrdStore. *)
EXTENDS PrdStore

CONSTANTS c1, c2, c3, init, pilot, record

Task1 == <<1, 0>>
Task2 == <<2, 0>>

Cmd(kind, id) == [kind |-> kind, id |-> id, title |-> "new", prio |-> "medium", stamp |-> "sha"]

\* `task add 2` asks for the id enqueue would pick next.
MCRequests ==
  {r \in [Clients -> {Cmd("done", Task1), Cmd("skip", Task1), Cmd("reset", Task1),
                      Cmd("enqueue", Task1), Cmd("add", Task2)}] :
     /\ r[c1].kind \in {"done", "enqueue"}
     /\ r[c2].kind \in {"enqueue", "reset", "add"}
     /\ r[c3].kind = IF r[c1].kind = "done" THEN "skip" ELSE "enqueue"}

\* One command, racing the loop.
OneDone == [Clients -> {Cmd("done", Task1)}]

OneTask ==
  RecalculateProgress([NewAutoPRD EXCEPT !.tasks = [id \in {Task1} |-> NewTask("old", "high")]])

\* A fresh directory: run init, then run pilot, and then the commands.
MCJob == [s \in Savers |-> CASE s = init -> "init" [] s = pilot -> "pilot" [] OTHER -> "record"]
NoQueue == {<<>>, <<OneTask>>}
\* run init --prd: a queue with a task of its own.
MCNewQueue == [s \in Savers |-> OneTask]
HasQueue == {<<OneTask>>}

\* The documented use of the loop: the agent's commands run while the loop waits for the
\* agent, and the loop saves its bookkeeping after the agent has exited.  The third
\* command belongs to the next iteration.
AgentPhases ==
  [p \in Procs |->
     Procs \cap CASE p = c3 -> {c1, c2, init, pilot, record}
                  [] p = record -> {c1, c2, init, pilot}
                  [] p = init -> {}
                  [] p = pilot -> {init}
                  [] OTHER -> {init, pilot}]

ASSUME PhasesAreSerialised == After = AgentPhases => Serialised /\ NewQueueFirst

\* A command typed in another terminal is not ordered with the loop.
Unordered == [p \in Procs |-> {}]
=============================================================================
