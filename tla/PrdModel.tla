------------------------------ MODULE PrdModel ------------------------------
(***************************************************************************)
(* The in-memory task queue of a Ralph run: AutoPRD of                      *)
(* src/internal/methodology/ralph/prd/model.go and the commands that       *)
(* src/internal/commands/run_mutations.go applies to it.                   *)
(*                                                                         *)
(* A document is a record [tasks, prog].  tasks maps a task id to its      *)
(* record; the slice order of the Go type is immaterial because findTask   *)
(* looks ids up and GetNextTask sorts.  An id is <<head, sub>>: "3" is     *)
(* <<3, 0>>, "3.2" is <<3, 2>>, and an id whose head is not an integer has *)
(* head 0.  stamp stands for the triple completed_at, commit_sha,          *)
(* iteration, which the code always sets and clears together.              *)
(***************************************************************************)
EXTENDS Integers, FiniteSets
LOCAL INSTANCE Sequences

Statuses == {"pending", "in_progress", "completed", "skipped", "blocked"}
LoopStatuses == {"not_started", "running", "paused", "completed", "failed"}

\* <<head, sub>>, see above.
Ids == Nat \X Nat

NoStamp == "no stamp"

NewTask(title, prio) ==
  [title |-> title, status |-> "pending", prio |-> prio, deps |-> {}, stamp |-> NoStamp]

NewProgress ==
  [total |-> 0, completed |-> 0, currentIteration |-> 0, totalIterationsRun |-> 0,
   status |-> "not_started", discovery |-> 0, impl |-> 0]

\* What `run init` without --prd and `run pilot` start from: no tasks at all.
NoTasks == [id \in {} |-> NewTask("none", "medium")]
NewAutoPRD == [tasks |-> NoTasks, prog |-> NewProgress]

WithStatus(p, s) == {id \in DOMAIN p.tasks : p.tasks[id].status = s}

CountPendingTasks(p) == Cardinality(WithStatus(p, "pending"))

\* The rollup Save refreshes.  Nothing ever takes the status back from completed.
RecalculateProgress(p) ==
  LET total == Cardinality(DOMAIN p.tasks)
      completed == Cardinality(WithStatus(p, "completed"))
      status == IF total > 0 /\ completed = total THEN "completed" ELSE p.prog.status
  IN  [p EXCEPT !.prog = [@ EXCEPT !.total = total, !.completed = completed, !.status = status]]

\* A new queue as it is saved.
FreshPRD == RecalculateProgress(NewAutoPRD)

\* Nested ids count with their head, ids with no integer head count as 0.
NextAvailableID(p) ==
  LET heads == {0} \cup {id[1] : id \in DOMAIN p.tasks}
  IN  <<1 + CHOOSE max \in heads : \A n \in heads : max >= n, 0>>

-----------------------------------------------------------------------------
(* GetNextTask: open dependencies hold a task back, then priority, then id. *)

PriorityRank(prio) ==
  CASE prio = "critical" -> 0 [] prio = "high" -> 1 [] prio = "low" -> 3 [] OTHER -> 2

\* Mutant: whatever is not completed is open.
AvailableUnlessCompleted(p) ==
  LET done == WithStatus(p, "completed")
  IN  {id \in DOMAIN p.tasks \ done : p.tasks[id].deps \subseteq done}

AvailableTasks(p) ==
  LET done == WithStatus(p, "completed") \cup WithStatus(p, "skipped")
  IN  {id \in WithStatus(p, "pending") : p.tasks[id].deps \subseteq done}

\* Ids compare as strings: "10" < "2" and "1" < "1.1".  Digits of 0..99; the dot
\* sorts before every digit.
Digits(n) == IF n < 10 THEN <<n>> ELSE <<n \div 10, n % 10>>
IdKey(id) == Digits(id[1]) \o (IF id[2] = 0 THEN <<>> ELSE <<-1>> \o Digits(id[2]))
StringBefore(s, t) ==
  \E k \in DOMAIN t :
    /\ k <= Len(s) + 1 /\ \A j \in 1 .. k - 1 : s[j] = t[j]
    /\ k > Len(s) \/ s[k] < t[k]

RunsBefore(p, a, b) ==
  LET ra == PriorityRank(p.tasks[a].prio)
      rb == PriorityRank(p.tasks[b].prio)
  IN  ra < rb \/ (ra = rb /\ StringBefore(IdKey(a), IdKey(b)))

\* The set holding the task GetNextTask returns; empty where it returns nil.
GetNextTask(p) ==
  {a \in AvailableTasks(p) : \A b \in AvailableTasks(p) \ {a} : RunsBefore(p, a, b)}

-----------------------------------------------------------------------------
(* The mutations.  cmd is a record [kind, id, title, prio, stamp]; `task add` *)
(* has no priority flag and always passes medium.                          *)

Kinds == {"done", "skip", "reset", "enqueue", "add"}

\* The id the command is about: enqueue picks its own.
TargetID(p, cmd) == IF cmd.kind = "enqueue" THEN NextAvailableID(p) ELSE cmd.id

\* Mutant: AddTask takes an id that is in use.
AcceptsDuplicates(p, cmd) ==
  cmd.kind \in {"done", "skip", "reset"} => cmd.id \in DOMAIN p.tasks

\* CompleteTask, SkipTask and ResetTask need the task, AddTask refuses a duplicate.
Accepts(p, cmd) ==
  IF cmd.kind \in {"done", "skip", "reset"}
  THEN cmd.id \in DOMAIN p.tasks
  ELSE TargetID(p, cmd) \notin DOMAIN p.tasks

CompleteTask(t, stamp) == [t EXCEPT !.status = "completed", !.stamp = stamp]
SkipTask(t) == [t EXCEPT !.status = "skipped"]
ResetTask(t) == [t EXCEPT !.status = "pending", !.stamp = NoStamp]

\* The tasks after fn(p) in mutate.
MutatedTasks(p, cmd) ==
  LET target == TargetID(p, cmd)
      set(t) == [p.tasks EXCEPT ![target] = t]
  IN  CASE cmd.kind = "done"  -> set(CompleteTask(p.tasks[target], cmd.stamp))
        [] cmd.kind = "skip"  -> set(SkipTask(p.tasks[target]))
        [] cmd.kind = "reset" -> set(ResetTask(p.tasks[target]))
        [] OTHER -> [id \in DOMAIN p.tasks \cup {target} |->
                       IF id = target THEN NewTask(cmd.title, cmd.prio) ELSE p.tasks[id]]

\* Mutant: Save does not refresh the rollup.
MutatedStaleProgress(p, cmd) == [p EXCEPT !.tasks = MutatedTasks(p, cmd)]

\* The document mutate saves: fn(p) followed by Save's recalculation.
Mutated(p, cmd) == RecalculateProgress([p EXCEPT !.tasks = MutatedTasks(p, cmd)])

-----------------------------------------------------------------------------
(* What recordIterationProgress of ralph/loop.go saves after an iteration.  *)

\* Mutant: a discovery also counts as an implementation.
RecordedProgressBoth(prog, iter, iterType) ==
  [prog EXCEPT !.currentIteration = iter,
               !.totalIterationsRun = iter,
               !.status = IF @ = "not_started" THEN "running" ELSE @,
               !.discovery = IF iterType = "discovery" THEN @ + 1 ELSE @,
               !.impl = @ + 1]

RecordedProgress(prog, iter, iterType) ==
  LET count(type) == IF iterType = type THEN 1 ELSE 0
  IN  [prog EXCEPT !.currentIteration = iter,
                   !.totalIterationsRun = iter,
                   !.status = IF @ = "not_started" THEN "running" ELSE @,
                   !.discovery = @ + count("discovery"),
                   !.impl = @ + 1 - count("discovery")]

Recorded(p, iter, iterType) ==
  RecalculateProgress([p EXCEPT !.prog = RecordedProgress(@, iter, iterType)])

\* How many iterations the rollup has counted.
Iterations(p) == p.prog.discovery + p.prog.impl

\* A document: finitely many tasks with statuses of the schema, and the rollup of exactly
\* these tasks.
IsDocument(p) ==
  /\ p = [tasks |-> p.tasks, prog |-> p.prog]
  /\ IsFiniteSet(DOMAIN p.tasks)
  /\ \A id \in DOMAIN p.tasks :
       /\ DOMAIN p.tasks[id] = DOMAIN NewTask("", "medium")
       /\ p.tasks[id].status \in Statuses
  /\ p.prog \in [total : Nat, completed : Nat, currentIteration : Nat,
                 totalIterationsRun : Nat, status : LoopStatuses, discovery : Nat, impl : Nat]
  /\ p.prog.total = Cardinality(DOMAIN p.tasks)
  /\ p.prog.completed = Cardinality(WithStatus(p, "completed"))
=============================================================================
