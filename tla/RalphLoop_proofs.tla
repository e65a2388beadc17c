-------------------------- MODULE RalphLoop_proofs --------------------------
(***************************************************************************)
(* What holds of RalphLoop for any number of runs, caps, limits, commands  *)
(* and registries of hooks: its types, that every queue in a file or in a  *)
(* hand is a document, the iteration cap, the stop on a streak of          *)
(* failures, and that an agent told to implement has a task.  What a run   *)
(* counts is tied to the agents it has had (CountInv, StreakInv), stage by *)
(* stage.                                                                  *)
(*                                                                         *)
(* Then what several runs do to one queue: its rollup counts no more       *)
(* iterations than agents have come back (CountsInv, for any overlap), and *)
(* what commands have settled stays settled in every copy of the queue     *)
(* that may still be saved (WorkInv, for any overlap).                     *)
(***************************************************************************)
EXTENDS RalphLoop, PrdModel_proofs

RunFields == {"iter", "type", "task", "fails", "last", "saving"}

\* Before the agent of an iteration comes back, and after.
Ahead  == {"iteration.gate", "context", "invoke", "agent"}
Behind == {"reload", "check", "record", "save"}
Going  == {"start", "before:loop"} \cup Ahead \cup Behind

CountInv(l) ==
  /\ outcomes[l] \in Seq({"ok", "failed"})
  /\ Len(outcomes[l]) <= MaxIterations[l]
  /\ pc[l] \in {"start", "before:loop"} => Len(outcomes[l]) = 0 /\ run[l].iter = 0 /\ run[l].fails = 0
  /\ pc[l] \in Ahead  => run[l].iter = Len(outcomes[l]) + 1
  /\ pc[l] \in Behind => run[l].iter = Len(outcomes[l])

StreakInv(l) ==
  LET n == Len(outcomes[l])
      f == run[l].fails
  IN  /\ pc[l] \in Going =>
           /\ f <= n
           /\ \A j \in n - f + 1 .. n : outcomes[l][j] = "failed"
           /\ f < n => outcomes[l][n - f] = "ok"
      /\ \A k \in DOMAIN outcomes[l] : Streak(l, k) => k = n /\ pc[l] = "ended"
      /\ exit[l] = "failures" => pc[l] = "ended" /\ Streak(l, n)

TaskInv(l) ==
  pc[l] \in {"context", "invoke", "agent"} /\ run[l].type = "implementation" => run[l].task # {}

RunType(l) ==
  /\ run[l] = [iter |-> run[l].iter, type |-> run[l].type, task |-> run[l].task,
               fails |-> run[l].fails, last |-> run[l].last, saving |-> run[l].saving]
  /\ run[l].iter \in 0 .. MaxIterations[l] /\ run[l].last \in 0 .. MaxIterations[l]
  /\ run[l].fails \in 0 .. MaxConsecFails - 1
  /\ run[l].type \in IterationTypes
  /\ IsDocument(run[l].saving)

LoopInv(l) == RunType(l) /\ CountInv(l) /\ StreakInv(l) /\ TaskInv(l)

Frame ==
  /\ IsDocument(doc) /\ pilot \in PilotModes /\ agents \subseteq Loops
  /\ cli = <<>> \/ cli = <<cli[1]>>
  /\ \A k \in DOMAIN cli : IsDocument(cli[k].doc)
  /\ pc \in [Loops -> Stages]
  /\ run = [l \in Loops |-> run[l]]
  /\ exit = [l \in Loops |-> exit[l]]
  /\ outcomes = [l \in Loops |-> outcomes[l]]

Inv == Frame /\ \A l \in Loops : LoopInv(l)

-----------------------------------------------------------------------------
(* The operators of the model.                                             *)

LEMMA Constants ==
  /\ \A l \in Loops : MaxIterations[l] \in Nat /\ MaxIterations[l] >= 1
  /\ MaxConsecFails \in Nat /\ MaxConsecFails >= 1
BY LoopAssumption

\* The stages, and which follows which when no hook ends the run.
LEMMA StageTable ==
  /\ DOMAIN HooksOf = {"before:loop", "context", "check", "after:loop"}
  /\ NextStage["before:loop"] = "reload" /\ NextStage["context"] = "invoke"
  /\ NextStage["check"] = "record" /\ NextStage["after:loop"] = "ended"
BY DEF HooksOf, NextStage

LEMMA StagesAre ==
  Stages = {"before:loop", "context", "check", "after:loop", "start", "reload", "iteration.gate",
            "invoke", "agent", "record", "save", "ended", "killed"}
BY StageTable DEF Stages

LEMMA EmptyIsDocument == IsDocument(NewAutoPRD)
<1>1. /\ NewAutoPRD.tasks = NoTasks /\ NewAutoPRD.prog = NewProgress
      /\ NewAutoPRD = [tasks |-> NewAutoPRD.tasks, prog |-> NewAutoPRD.prog]
  BY DEF NewAutoPRD
<1>2. DOMAIN NoTasks = {}
  BY DEF NoTasks
<1>3. IsFiniteSet({}) /\ Cardinality({}) = 0
  BY FS_EmptySet
<1>4. WithStatus(NewAutoPRD, "completed") = {}
  BY <1>1, <1>2 DEF WithStatus
<1>5. /\ NewProgress \in [total : Nat, completed : Nat, currentIteration : Nat,
                          totalIterationsRun : Nat, status : LoopStatuses, discovery : Nat, impl : Nat]
      /\ NewProgress.total = 0 /\ NewProgress.completed = 0
  BY DEF NewProgress, LoopStatuses
<1> QED
  BY <1>1, <1>2, <1>3, <1>4, <1>5 DEF IsDocument

\* A gate answers with a type or not at all.
LEMMA GateAnswers ==
  ASSUME NEW l, NEW out \in GateRuns(l)
  PROVE  out.answer \in IterationTypes \cup {""}
<1>1. PICK does : out = Run(Registry, "iteration.gate", {}, does)
  BY DEF GateRuns, GateOutcomes
<1> QED
  BY <1>1 DEF Run

-----------------------------------------------------------------------------
(* The steps of one run leave the others as they are.                      *)

\* What the invariant reads of a run.
Same(l) ==
  pc'[l] = pc[l] /\ run'[l] = run[l] /\ exit'[l] = exit[l] /\ outcomes'[l] = outcomes[l]

LEMMA SameKeeps ==
  ASSUME NEW l, LoopInv(l), Same(l)
  PROVE  LoopInv(l)'
<1>1. RunType(l)'
  BY DEF LoopInv, RunType, Same
<1>2. CountInv(l)' /\ TaskInv(l)'
  BY DEF LoopInv, CountInv, TaskInv, Same
<1>3. StreakInv(l)'
  BY DEF LoopInv, StreakInv, Streak, Same
<1> QED
  BY <1>1, <1>2, <1>3 DEF LoopInv

\* A step of the loop that changes neither queue nor history.
LEMMA Stepped ==
  ASSUME Inv, NEW l \in Loops, LoopInv(l)',
         IsDocument(doc'), pilot' = pilot, cli' = cli, agents' \subseteq Loops,
         NEW label \in Stages, NEW r, NEW why, NEW past,
         pc' = [pc EXCEPT ![l] = label], run' = [run EXCEPT ![l] = r],
         exit' = [exit EXCEPT ![l] = why], outcomes' = [outcomes EXCEPT ![l] = past]
  PROVE  Inv'
<1>1. Frame'
  BY DEF Inv, Frame
<1>2. \A m \in Loops \ {l} : Same(m)
  BY DEF Inv, Frame, Same
<1> QED
  BY <1>1, <1>2, SameKeeps DEF Inv

\* The values a step leaves: Stepped in the terms of Continue and Leave.
LEMMA Continued ==
  ASSUME Inv, NEW l \in Loops, NEW label, NEW r, Continue(l, label, r), outcomes' = outcomes
  PROVE  /\ pc' = [pc EXCEPT ![l] = label] /\ run' = [run EXCEPT ![l] = r]
         /\ exit' = [exit EXCEPT ![l] = exit[l]] /\ outcomes' = [outcomes EXCEPT ![l] = outcomes[l]]
         /\ pc'[l] = label /\ run'[l] = r /\ exit'[l] = exit[l] /\ outcomes'[l] = outcomes[l]
BY DEF Continue, Goto, Inv, Frame

LEMMA Left ==
  ASSUME Inv, NEW l \in Loops, NEW label, NEW why, Leave(l, label, why), outcomes' = outcomes
  PROVE  /\ pc' = [pc EXCEPT ![l] = label] /\ run' = [run EXCEPT ![l] = FreshRun]
         /\ exit' = [exit EXCEPT ![l] = why] /\ outcomes' = [outcomes EXCEPT ![l] = outcomes[l]]
         /\ pc'[l] = label /\ run'[l] = FreshRun /\ exit'[l] = why /\ outcomes'[l] = outcomes[l]
BY DEF Leave, Goto, Inv, Frame

LEMMA FreshType ==
  /\ FreshRun = [iter |-> FreshRun.iter, type |-> FreshRun.type, task |-> FreshRun.task,
                 fails |-> FreshRun.fails, last |-> FreshRun.last, saving |-> FreshRun.saving]
  /\ FreshRun.iter = 0 /\ FreshRun.last = 0 /\ FreshRun.fails = 0
  /\ FreshRun.type \in IterationTypes /\ IsDocument(FreshRun.saving)
  /\ 0 \in 0 .. MaxConsecFails - 1 /\ \A l \in Loops : 0 \in 0 .. MaxIterations[l]
BY EmptyIsDocument, Constants DEF FreshRun, IterationTypes

\* A run may be left at any stage, for any reason but failures.
LEMMA LeaveKeeps ==
  ASSUME Inv, NEW l \in Loops, NEW label \in {"after:loop", "ended", "killed"}, NEW why,
         Leave(l, label, why), outcomes' = outcomes, why # "failures", pc[l] # "ended",
         IsDocument(doc'), pilot' = pilot, cli' = cli, agents' \subseteq Loops
  PROVE  Inv'
<1>1. /\ pc'[l] = label /\ run'[l] = FreshRun /\ exit'[l] = why /\ outcomes'[l] = outcomes[l]
      /\ LoopInv(l) /\ label \in Stages
  BY Left, StagesAre DEF Inv
<1>2. RunType(l)'
  BY <1>1, FreshType DEF RunType
<1>3. CountInv(l)' /\ TaskInv(l)'
  BY <1>1 DEF LoopInv, CountInv, TaskInv, Ahead, Behind
<1>4. StreakInv(l)'
  BY <1>1 DEF LoopInv, StreakInv, Streak, Going, Ahead, Behind
<1> QED
  BY <1>1, <1>2, <1>3, <1>4, Left, Stepped DEF LoopInv

\* Going on keeps the streak if it keeps the count of it.
LEMMA OnwardKeeps ==
  ASSUME Inv, NEW l \in Loops, NEW label \in Stages, NEW r, Continue(l, label, r),
         outcomes' = outcomes, pc[l] # "ended", pc[l] \in Going \/ label = "ended",
         RunType(l)', CountInv(l)', TaskInv(l)', r.fails = run[l].fails,
         IsDocument(doc'), pilot' = pilot, cli' = cli, agents' \subseteq Loops
  PROVE  Inv'
<1>1. /\ pc'[l] = label /\ run'[l] = r /\ exit'[l] = exit[l] /\ outcomes'[l] = outcomes[l]
      /\ LoopInv(l)
  BY Continued DEF Inv
<1>2. StreakInv(l)'
  BY <1>1 DEF LoopInv, StreakInv, Streak, Going, Ahead, Behind
<1> QED
  BY <1>1, <1>2, Continued, Stepped DEF LoopInv

-----------------------------------------------------------------------------
(* The stages of a run.                                                    *)

THEOREM Initially == Init => Inv
<1> SUFFICES ASSUME Init PROVE Inv
  OBVIOUS
<1>1. Frame
  BY DocsAssumption, StagesAre DEF Init, Frame
<1>2. ASSUME NEW l \in Loops PROVE LoopInv(l)
  <2>1. pc[l] = "start" /\ run[l] = FreshRun /\ exit[l] = "none" /\ outcomes[l] = <<>>
    BY DEF Init
  <2>2. <<>> \in Seq({"ok", "failed"}) /\ Len(<<>>) = 0 /\ DOMAIN <<>> = {}
    OBVIOUS
  <2>3. RunType(l)
    BY <2>1, FreshType DEF RunType
  <2>4. CountInv(l) /\ TaskInv(l)
    BY <2>1, <2>2, FreshType, Constants DEF CountInv, TaskInv, Ahead, Behind
  <2>5. StreakInv(l)
    BY <2>1, <2>2, FreshType, Constants DEF StreakInv, Streak
  <2> QED
    BY <2>3, <2>4, <2>5 DEF LoopInv
<1> QED
  BY <1>1, <1>2 DEF Inv

LEMMA StartKeeps ==
  ASSUME Inv, NEW l \in Loops, Start(l)
  PROVE  Inv'
<1>1. /\ pc[l] = "start" /\ LoopInv(l) /\ IsDocument(doc') /\ pilot' = pilot /\ cli' = cli
      /\ agents' \subseteq Loops /\ outcomes' = outcomes
  BY DEF Start, queueVars, Inv, Frame
<1>2. CASE Stop(l, "nothing to do")
  BY <1>1, <1>2, LeaveKeeps DEF Stop
<1>3. CASE Continue(l, "before:loop", FreshRun)
  <2>1. pc'[l] = "before:loop" /\ run'[l] = FreshRun /\ outcomes'[l] = outcomes[l]
    BY <1>1, <1>3, Continued
  <2>2. RunType(l)' /\ FreshRun.fails = run[l].fails
    BY <1>1, <2>1, FreshType DEF RunType, LoopInv, CountInv
  <2>3. CountInv(l)' /\ TaskInv(l)'
    BY <1>1, <2>1, FreshType DEF LoopInv, CountInv, TaskInv, Ahead, Behind
  <2> QED
    BY <1>1, <1>3, <2>2, <2>3, OnwardKeeps, StagesAre DEF Going
<1> QED
  BY <1>2, <1>3 DEF Start

LEMMA RunHooksKeeps ==
  ASSUME Inv, NEW l \in Loops, RunHooks(l)
  PROVE  Inv'
<1>1. /\ pc[l] \in {"before:loop", "context", "check", "after:loop"}
      /\ LoopInv(l) /\ IsDocument(doc') /\ pilot' = pilot /\ cli' = cli
      /\ agents' \subseteq Loops /\ outcomes' = outcomes
  BY StageTable DEF RunHooks, queueVars, Inv, Frame
<1>2. CASE Stop(l, "hook")
  BY <1>1, <1>2, LeaveKeeps DEF Stop
<1>3. CASE Continue(l, NextStage[pc[l]], run[l])
  <2>1. pc'[l] = NextStage[pc[l]] /\ run'[l] = run[l] /\ outcomes'[l] = outcomes[l]
    BY <1>1, <1>3, Continued
  <2>2. RunType(l)'
    BY <1>1, <2>1 DEF RunType, LoopInv
  <2>3. CountInv(l)' /\ TaskInv(l)'
    BY <1>1, <2>1, StageTable DEF LoopInv, CountInv, TaskInv, Ahead, Behind
  <2>4. NextStage[pc[l]] \in Stages /\ (pc[l] \in Going \/ NextStage[pc[l]] = "ended")
    BY <1>1, StageTable, StagesAre DEF Going, Ahead, Behind
  <2> QED
    BY <1>1, <1>3, <2>2, <2>3, <2>4, OnwardKeeps
<1> QED
  BY <1>2, <1>3 DEF RunHooks

LEMMA CapReachedKeeps ==
  ASSUME Inv, NEW l \in Loops, CapReached(l)
  PROVE  Inv'
<1>1. /\ pc[l] = "reload" /\ IsDocument(doc') /\ pilot' = pilot /\ cli' = cli
      /\ agents' \subseteq Loops /\ outcomes' = outcomes
  BY DEF CapReached, queueVars, Inv, Frame
<1> QED
  BY <1>1, LeaveKeeps DEF CapReached

LEMMA ReloadKeeps ==
  ASSUME Inv, NEW l \in Loops, Reload(l)
  PROVE  Inv'
<1>1. /\ pc[l] = "reload" /\ LoopInv(l) /\ IsDocument(doc') /\ pilot' = pilot /\ cli' = cli
      /\ agents' \subseteq Loops /\ outcomes' = outcomes /\ run[l].iter < MaxIterations[l]
  BY DEF Reload, queueVars, Inv, Frame
<1>2. CASE Stop(l, "reload failed")
  BY <1>1, <1>2, LeaveKeeps DEF Stop
<1> DEFINE r == Iteration(l, run[l].iter + 1)
<1>3. CASE Continue(l, "iteration.gate", r)
  <2>1. pc'[l] = "iteration.gate" /\ run'[l] = r /\ outcomes'[l] = outcomes[l]
    BY <1>1, <1>3, Continued
  <2>2. /\ r.iter = run[l].iter + 1 /\ r.last = run[l].last /\ r.fails = run[l].fails
        /\ r.saving = run[l].saving /\ r.type \in IterationTypes
        /\ r = [iter |-> r.iter, type |-> r.type, task |-> r.task,
                fails |-> r.fails, last |-> r.last, saving |-> r.saving]
    <3> DEFINE task == GetNextTask(doc)
               type == TypeOf(pilot /\ ShouldRunDiscovery(doc, run[l].iter + 1, run[l].last))
    <3>1. r = [run[l] EXCEPT !.iter = run[l].iter + 1, !.task = task, !.type = type]
      BY DEF Iteration
    <3>2. type \in IterationTypes
      BY DEF TypeOf, IterationTypes
    <3> HIDE DEF task, type, r
    <3> QED
      BY <1>1, <3>1, <3>2 DEF LoopInv, RunType
  <2> HIDE DEF r
  <2>3. run[l].iter \in Nat /\ run[l].iter + 1 \in 0 .. MaxIterations[l]
    BY <1>1, Constants DEF LoopInv, RunType
  <2>4. RunType(l)'
    BY <1>1, <2>1, <2>2, <2>3 DEF RunType, LoopInv
  <2>5. CountInv(l)' /\ TaskInv(l)'
    BY <1>1, <2>1, <2>2, <2>3 DEF LoopInv, CountInv, TaskInv, Ahead, Behind
  <2> QED
    BY <1>1, <1>3, <2>2, <2>4, <2>5, OnwardKeeps, StagesAre DEF Going, Behind
<1> QED
  BY <1>2, <1>3 DEF Reload

LEMMA GateKeeps ==
  ASSUME Inv, NEW l \in Loops, Gate(l)
  PROVE  Inv'
<1>1. /\ pc[l] = "iteration.gate" /\ LoopInv(l) /\ IsDocument(doc') /\ pilot' = pilot /\ cli' = cli
      /\ agents' \subseteq Loops /\ outcomes' = outcomes
  BY DEF Gate, queueVars, Inv, Frame
<1>2. PICK out \in GateRuns(l) :
        \/ Stop(l, "hook")
        \/ Leave(l, "after:loop", "queue empty")
        \/ /\ run[l].task # {} \/ TypeAfter(l, out) # "implementation"
           /\ Continue(l, "context", [run[l] EXCEPT !.type = TypeAfter(l, out)])
  BY DEF Gate
<1>3. CASE Stop(l, "hook") \/ Leave(l, "after:loop", "queue empty")
  BY <1>1, <1>3, LeaveKeeps DEF Stop
<1> DEFINE r == [run[l] EXCEPT !.type = TypeAfter(l, out)]
<1>4. CASE (run[l].task # {} \/ TypeAfter(l, out) # "implementation") /\ Continue(l, "context", r)
  <2>1. pc'[l] = "context" /\ run'[l] = r /\ outcomes'[l] = outcomes[l]
    BY <1>1, <1>4, Continued
  <2>2. TypeAfter(l, out) \in IterationTypes
    BY <1>1, GateAnswers DEF TypeAfter, LoopInv, RunType
  <2>3. /\ r.iter = run[l].iter /\ r.last = run[l].last /\ r.fails = run[l].fails
        /\ r.saving = run[l].saving /\ r.type = TypeAfter(l, out) /\ r.task = run[l].task
        /\ r = [iter |-> r.iter, type |-> r.type, task |-> r.task,
                fails |-> r.fails, last |-> r.last, saving |-> r.saving]
    BY <1>1 DEF LoopInv, RunType
  <2> HIDE DEF r
  <2>4. RunType(l)'
    BY <1>1, <2>1, <2>2, <2>3 DEF RunType, LoopInv
  <2>5. CountInv(l)' /\ TaskInv(l)'
    BY <1>1, <1>4, <2>1, <2>3 DEF LoopInv, CountInv, TaskInv, Ahead, Behind
  <2> QED
    BY <1>1, <1>4, <2>3, <2>4, <2>5, OnwardKeeps, StagesAre DEF Going, Ahead
<1> QED
  BY <1>2, <1>3, <1>4

LEMMA InvokeAgentKeeps ==
  ASSUME Inv, NEW l \in Loops, InvokeAgent(l)
  PROVE  Inv'
<1>1. /\ pc[l] = "invoke" /\ LoopInv(l) /\ IsDocument(doc') /\ pilot' = pilot /\ cli' = cli
      /\ agents' \subseteq Loops /\ outcomes' = outcomes
  BY DEF InvokeAgent, queueVars, Inv, Frame
<1>2. CASE Stop(l, "render failed") \/ Stop(l, "hook")
  BY <1>1, <1>2, LeaveKeeps DEF Stop
<1>3. CASE Continue(l, "agent", run[l])
  <2>1. pc'[l] = "agent" /\ run'[l] = run[l] /\ outcomes'[l] = outcomes[l]
    BY <1>1, <1>3, Continued
  <2>2. RunType(l)' /\ CountInv(l)' /\ TaskInv(l)'
    BY <1>1, <2>1 DEF RunType, LoopInv, CountInv, TaskInv, Ahead, Behind
  <2> QED
    BY <1>1, <1>3, <2>2, OnwardKeeps, StagesAre DEF Going, Ahead
<1> QED
  BY <1>2, <1>3 DEF InvokeAgent

LEMMA RecordKeeps ==
  ASSUME Inv, NEW l \in Loops, RecordLoad(l) \/ RecordSave(l)
  PROVE  Inv'
<1>1. /\ pc[l] \in {"record", "save"} /\ LoopInv(l) /\ pilot' = pilot /\ cli' = cli
      /\ agents' \subseteq Loops /\ outcomes' = outcomes
  BY DEF RecordLoad, RecordSave, queueVars, Inv, Frame
<1>2. IsDocument(doc')
  <2>1. run[l].iter \in Nat
    BY <1>1, Constants DEF LoopInv, RunType
  <2>2. IsDocument(Recorded(run[l].saving, run[l].iter, run[l].type))
    BY <1>1, <2>1, RecordedIsDocument DEF LoopInv, RunType
  <2> QED
    BY <2>2 DEF RecordLoad, RecordSave, queueVars, Inv, Frame
<1> DEFINE loaded == [run[l] EXCEPT !.saving = doc]
<1>3. CASE Continue(l, "save", loaded)
  <2>1. pc'[l] = "save" /\ run'[l] = loaded /\ outcomes'[l] = outcomes[l]
    BY <1>1, <1>3, Continued
  <2>2. /\ loaded.iter = run[l].iter /\ loaded.last = run[l].last /\ loaded.fails = run[l].fails
        /\ loaded.saving = doc /\ loaded.type = run[l].type
        /\ loaded = [iter |-> loaded.iter, type |-> loaded.type, task |-> loaded.task,
                     fails |-> loaded.fails, last |-> loaded.last, saving |-> loaded.saving]
    BY <1>1 DEF LoopInv, RunType
  <2> HIDE DEF loaded
  <2>3. RunType(l)'
    BY <1>1, <2>1, <2>2 DEF RunType, LoopInv, Inv, Frame
  <2>4. CountInv(l)' /\ TaskInv(l)'
    BY <1>1, <2>1, <2>2 DEF LoopInv, CountInv, TaskInv, Ahead, Behind
  <2> QED
    BY <1>1, <1>2, <1>3, <2>2, <2>3, <2>4, OnwardKeeps, StagesAre DEF Going, Behind
<1> DEFINE r == [FreshRun EXCEPT !.iter = run[l].iter, !.fails = run[l].fails,
                   !.last = IF run[l].type = "discovery" THEN run[l].iter ELSE run[l].last]
<1>4. CASE Continue(l, "reload", r)
  <2>1. pc'[l] = "reload" /\ run'[l] = r /\ outcomes'[l] = outcomes[l]
    BY <1>1, <1>4, Continued
  <2>2. /\ r.iter = run[l].iter /\ r.last \in {run[l].iter, run[l].last} /\ r.fails = run[l].fails
        /\ r.saving = FreshRun.saving /\ r.type = FreshRun.type
        /\ r = [iter |-> r.iter, type |-> r.type, task |-> r.task,
                fails |-> r.fails, last |-> r.last, saving |-> r.saving]
    <3> DEFINE i == run[l].iter
               f == run[l].fails
               last == IF run[l].type = "discovery" THEN run[l].iter ELSE run[l].last
    <3>1. r = [FreshRun EXCEPT !.iter = i, !.fails = f, !.last = last] /\ last \in {run[l].iter, run[l].last}
      OBVIOUS
    <3> HIDE DEF i, f, last, r
    <3>2. /\ r.iter = i /\ r.last = last /\ r.fails = f /\ r.saving = FreshRun.saving
          /\ r.type = FreshRun.type
          /\ r = [iter |-> r.iter, type |-> r.type, task |-> r.task,
                  fails |-> r.fails, last |-> r.last, saving |-> r.saving]
      BY <3>1, FreshType
    <3> QED
      BY <3>1, <3>2 DEF i, f
  <2> HIDE DEF r
  <2>3. RunType(l)'
    BY <1>1, <2>1, <2>2, FreshType DEF RunType, LoopInv
  <2>4. CountInv(l)' /\ TaskInv(l)'
    BY <1>1, <2>1, <2>2 DEF LoopInv, CountInv, TaskInv, Ahead, Behind
  <2> QED
    BY <1>1, <1>2, <1>4, <2>2, <2>3, <2>4, OnwardKeeps, StagesAre DEF Going, Behind
<1> QED
  BY <1>3, <1>4 DEF RecordLoad, RecordSave, Iterated

-----------------------------------------------------------------------------
(* The streak, when an agent comes back.                                   *)

LEMMA ReturnKeeps ==
  ASSUME Inv, NEW l \in Loops, AgentReturns(l)
  PROVE  Inv'
<1> DEFINE h == outcomes[l]
           f == run[l].fails
           Limit == MaxConsecFails
<1>1. PICK result \in {"ok", "failed"} :
        LET fails == IF result = "ok" THEN 0 ELSE f + 1
        IN  /\ outcomes' = [outcomes EXCEPT ![l] = Append(h, result)]
            /\ IF result = "failed" /\ fails >= Limit
               THEN Stop(l, "failures")
               ELSE Continue(l, "check", [run[l] EXCEPT !.fails = fails])
  BY DEF AgentReturns
<1> DEFINE fails == IF result = "ok" THEN 0 ELSE f + 1
           stops == result = "failed" /\ fails >= Limit
           past == Append(h, result)
<1>2. /\ pc[l] = "agent" /\ LoopInv(l) /\ IsDocument(doc') /\ pilot' = pilot /\ cli' = cli
      /\ agents' \subseteq Loops /\ outcomes' = [outcomes EXCEPT ![l] = past]
  BY <1>1 DEF AgentReturns, queueVars, Inv, Frame
<1>10. Len(h) \in Nat
  BY <1>2 DEF LoopInv, CountInv
<1>11. PICK n \in Nat : n = Len(h)
  BY <1>10
<1>3. /\ h \in Seq({"ok", "failed"}) /\ n = Len(h) /\ f \in Nat /\ f < Limit /\ f <= n
      /\ run[l].iter = n + 1 /\ run[l].iter \in 0 .. MaxIterations[l] /\ Limit \in Nat /\ Limit >= 1
      /\ \A j \in n - f + 1 .. n : h[j] = "failed"
      /\ f < n => h[n - f] = "ok"
      /\ \A k \in 1 .. n : ~Streak(l, k)
      /\ exit[l] # "failures"
  BY <1>2, <1>11, Constants DEF LoopInv, RunType, CountInv, StreakInv, Ahead, Behind, Going
<1>4. /\ past \in Seq({"ok", "failed"}) /\ Len(past) = n + 1 /\ DOMAIN past = 1 .. n + 1
      /\ past[n + 1] = result /\ \A j \in 1 .. n : past[j] = h[j]
  BY <1>3
<1>5. outcomes'[l] = past
  BY <1>2 DEF Inv, Frame
<1> HIDE DEF h, f, Limit, past
\* An old streak is as it was; the newest index ends one exactly if the run stops.
<1>6. \A k \in 1 .. n : ~Streak(l, k)'
  <2> SUFFICES ASSUME NEW k \in 1 .. n, Streak(l, k)' PROVE FALSE
    OBVIOUS
  <2>1. k >= Limit /\ \A j \in k - Limit + 1 .. k : past[j] = "failed"
    BY <1>5 DEF Streak, Limit
  <2>2. \A j \in k - Limit + 1 .. k : j \in 1 .. n
    BY <2>1, <1>3
  <2>3. \A j \in k - Limit + 1 .. k : h[j] = "failed"
    BY <2>1, <2>2, <1>4
  <2>4. Streak(l, k)
    BY <2>1, <2>3 DEF Streak, Limit, h
  <2> QED
    BY <2>4, <1>3
<1>12. ASSUME NEW k \in Nat
       PROVE  Streak(l, k)' <=> k >= Limit /\ \A j \in k - Limit + 1 .. k : past[j] = "failed"
  BY <1>5 DEF Streak, Limit
<1>13. PICK m \in Nat : m = n + 1
  OBVIOUS
<1>7. Streak(l, m)' <=> stops
  <2>1. Streak(l, m)' <=> m >= Limit /\ \A j \in m - Limit + 1 .. m : past[j] = "failed"
    BY <1>12
  <2>2. CASE result = "ok"
    <3>1. m \in m - Limit + 1 .. m /\ past[m] # "failed"
      BY <2>2, <1>3, <1>4, <1>13
    <3> QED
      BY <3>1, <2>1, <2>2
  <2>3. CASE result = "failed" /\ f + 1 >= Limit
    <3>1. m >= Limit
      BY <2>3, <1>3, <1>13
    <3>2. ASSUME NEW j \in m - Limit + 1 .. m PROVE past[j] = "failed"
      <4>1. j = n + 1 \/ (j \in n - f + 1 .. n /\ j \in 1 .. n)
        <5>1. f \in Nat /\ Limit \in Nat /\ f + 1 >= Limit /\ n + 1 >= Limit /\ m = n + 1
          BY <2>3, <3>1, <1>3, <1>13
        <5>2. j \in Int /\ j >= m - Limit + 1 /\ j <= m
          BY <5>1
        <5> QED
          BY <5>1, <5>2
      <4> QED
        BY <4>1, <2>3, <1>3, <1>4
    <3> QED
      BY <3>1, <3>2, <2>1, <2>3
  <2>4. CASE result = "failed" /\ ~(f + 1 >= Limit)
    <3>1. CASE f < n
      <4>1. n - f \in 1 .. n /\ n - f \in m - Limit + 1 .. m /\ h[n - f] = "ok"
        BY <2>4, <3>1, <1>3, <1>13
      <4> QED
        BY <4>1, <2>1, <2>4, <1>4
    <3>2. CASE ~(f < n)
      BY <2>1, <2>4, <3>2, <1>3, <1>13
    <3> QED
      BY <3>1, <3>2
  <2> QED
    BY <2>2, <2>3, <2>4
<1>8. CASE stops
  <2>1. /\ pc' = [pc EXCEPT ![l] = "ended"] /\ run' = [run EXCEPT ![l] = FreshRun]
        /\ exit' = [exit EXCEPT ![l] = "failures"]
    BY <1>1, <1>8 DEF Stop, Leave, Goto, f, Limit
  <2>2. pc'[l] = "ended" /\ run'[l] = FreshRun /\ exit'[l] = "failures"
    BY <2>1 DEF Inv, Frame
  <2>3. RunType(l)'
    BY <2>2, FreshType DEF RunType
  <2>4. CountInv(l)' /\ TaskInv(l)'
    BY <2>2, <1>3, <1>4, <1>5 DEF CountInv, TaskInv, Ahead, Behind
  <2>5. StreakInv(l)'
    <3>1. pc'[l] \notin Going
      BY <2>2 DEF Going, Ahead, Behind
    <3>2. \A k \in DOMAIN past : k \in 1 .. n \/ k = n + 1
      BY <1>3, <1>4
    <3>3. \A k \in DOMAIN past : Streak(l, k)' => k = m
      BY <3>2, <1>6, <1>13
    <3>4. Streak(l, m)'
      BY <1>7, <1>8
    <3> QED
      BY <3>1, <3>3, <3>4, <2>2, <1>4, <1>5, <1>13 DEF StreakInv
  <2> QED
    BY <2>1, <2>3, <2>4, <2>5, <1>2, Stepped, StagesAre DEF LoopInv
<1>9. CASE ~stops
  <2> DEFINE r == [run[l] EXCEPT !.fails = fails]
  <2>1. /\ pc' = [pc EXCEPT ![l] = "check"] /\ run' = [run EXCEPT ![l] = r]
        /\ exit' = [exit EXCEPT ![l] = exit[l]]
    BY <1>1, <1>9 DEF Continue, Goto, f, Limit, Inv, Frame
  <2>2. pc'[l] = "check" /\ run'[l] = r /\ exit'[l] = exit[l]
    BY <2>1 DEF Inv, Frame
  <2>3. /\ r.iter = run[l].iter /\ r.last = run[l].last /\ r.fails = fails
        /\ r.saving = run[l].saving /\ r.type = run[l].type
        /\ r = [iter |-> r.iter, type |-> r.type, task |-> r.task,
                fails |-> r.fails, last |-> r.last, saving |-> r.saving]
    BY <1>2 DEF LoopInv, RunType
  <2> HIDE DEF r
  <2>4. fails \in 0 .. Limit - 1 /\ fails <= n + 1
    BY <1>3, <1>9
  <2>5. RunType(l)'
    BY <2>2, <2>3, <2>4, <1>2 DEF RunType, LoopInv, Limit
  <2>6. CountInv(l)' /\ TaskInv(l)'
    BY <2>2, <2>3, <1>3, <1>4, <1>5 DEF CountInv, TaskInv, Ahead, Behind
  <2>7. /\ \A j \in n + 1 - fails + 1 .. n + 1 : past[j] = "failed"
        /\ fails < n + 1 => past[n + 1 - fails] = "ok"
    <3>1. CASE result = "ok"
      <4>1. fails = 0 /\ \A j \in n + 1 - fails + 1 .. n + 1 : j = n + 1
        BY <3>1
      <4> QED
        BY <4>1, <3>1, <1>4
    <3>2. CASE result = "failed"
      <4>1. fails = f + 1 /\ n + 1 - fails = n - f /\ (fails < n + 1 => f < n)
        BY <3>2, <1>3
      <4>2. ASSUME NEW j \in n - f + 1 .. n + 1 PROVE past[j] = "failed"
        <5>1. j = n + 1 \/ (j \in n - f + 1 .. n /\ j \in 1 .. n)
          BY <1>3
        <5> QED
          BY <5>1, <3>2, <1>3, <1>4
      <4>3. f < n => n - f \in 1 .. n
        BY <1>3
      <4>4. f < n => past[n - f] = "ok"
        BY <4>3, <1>3, <1>4
      <4> HIDE DEF fails
      <4> QED
        BY <4>1, <4>2, <4>4, Zenon
    <3> QED
      BY <3>1, <3>2
  <2>9. \A k \in DOMAIN past : ~Streak(l, k)'
    <3>1. \A k \in DOMAIN past : k \in 1 .. n \/ k = m
      BY <1>3, <1>4, <1>13
    <3> QED
      BY <3>1, <1>6, <1>7, <1>9
  <2>10. StreakInv(l)'
    BY <2>2, <2>3, <2>4, <2>7, <2>9, <1>3, <1>4, <1>5 DEF StreakInv
  <2> QED
    BY <2>1, <2>5, <2>6, <2>10, <1>2, Stepped, StagesAre DEF LoopInv
<1> QED
  BY <1>8, <1>9

-----------------------------------------------------------------------------
(* Commands, kills and orphans.                                            *)

LEMMA CommandKeeps ==
  ASSUME Inv, (\E by \in Loops \cup {User}, cmd \in Commands : CommandLoads(by, cmd))
              \/ CommandSaves \/ CommandDies
  PROVE  Inv'
<1>1. /\ pc' = pc /\ run' = run /\ exit' = exit /\ outcomes' = outcomes
      /\ pilot' = pilot /\ agents' = agents
  BY DEF CommandLoads, CommandSaves, CommandDies, loopVars
<1>2. /\ IsDocument(doc')
      /\ \A k \in DOMAIN cli' : IsDocument(cli'[k].doc)
      /\ cli' = <<>> \/ cli' = <<cli'[1]>>
  <2>1. ASSUME NEW by, NEW cmd, CommandLoads(by, cmd) PROVE <1>2!1 /\ <1>2!2 /\ <1>2!3
    <3>1. /\ IsDocument(Mutated(doc, cmd)) /\ doc' = doc
          /\ cli' = <<[by |-> by, cmd |-> cmd, doc |-> Mutated(doc, cmd)]>>
      BY <2>1, MutatedIsDocument DEF CommandLoads, Inv, Frame
    <3> QED
      BY <3>1 DEF Inv, Frame
  <2>2. CASE CommandSaves
    <3>1. 1 \in DOMAIN cli /\ doc' = cli[1].doc /\ cli' = <<>>
      BY <2>2 DEF CommandSaves, Inv, Frame
    <3> QED
      BY <3>1 DEF Inv, Frame
  <2>3. CASE CommandDies
    BY <2>3 DEF CommandDies, Inv, Frame
  <2> QED
    BY <2>1, <2>2, <2>3
<1>3. \A l \in Loops : Same(l)
  BY <1>1 DEF Same
<1>4. Frame'
  BY <1>1, <1>2 DEF Inv, Frame
<1> QED
  BY <1>3, <1>4, SameKeeps DEF Inv

LEMMA KillKeeps ==
  ASSUME Inv, NEW l \in Loops, Kill(l)
  PROVE  Inv'
<1>1. /\ Leave(l, "killed", "killed") /\ pc[l] # "ended" /\ IsDocument(doc') /\ pilot' = pilot
      /\ agents' \subseteq Loops /\ outcomes' = outcomes
      /\ cli' = cli \/ cli' = <<>>
  BY DEF Kill, Over, Inv, Frame
<1>2. /\ pc' = [pc EXCEPT ![l] = "killed"] /\ run' = [run EXCEPT ![l] = FreshRun]
      /\ exit' = [exit EXCEPT ![l] = "killed"]
      /\ pc'[l] = "killed" /\ run'[l] = FreshRun /\ exit'[l] = "killed" /\ outcomes'[l] = outcomes[l]
      /\ LoopInv(l)
  BY <1>1, Left DEF Inv
<1>3. RunType(l)'
  BY <1>2, FreshType DEF RunType
<1>4. CountInv(l)' /\ TaskInv(l)'
  BY <1>2 DEF LoopInv, CountInv, TaskInv, Ahead, Behind
<1>5. StreakInv(l)'
  BY <1>1, <1>2 DEF LoopInv, StreakInv, Streak, Going, Ahead, Behind
<1>6. Frame'
  <2>1. \A k \in DOMAIN cli' : IsDocument(cli'[k].doc)
    BY <1>1 DEF Inv, Frame
  <2>2. pc' \in [Loops -> Stages]
    BY <1>2, StagesAre DEF Inv, Frame
  <2> QED
    BY <1>1, <1>2, <2>1, <2>2 DEF Inv, Frame
<1>7. \A m \in Loops \ {l} : Same(m)
  BY <1>1, <1>2 DEF Inv, Frame, Same
<1> QED
  BY <1>3, <1>4, <1>5, <1>6, <1>7, SameKeeps DEF Inv, LoopInv

THEOREM Inductive == Inv /\ [Next]_vars => Inv'
<1> SUFFICES ASSUME Inv, [Next]_vars PROVE Inv'
  OBVIOUS
<1>1. ASSUME NEW l \in Loops, Loop(l) PROVE Inv'
  BY <1>1, StartKeeps, RunHooksKeeps, CapReachedKeeps, ReloadKeeps, GateKeeps, InvokeAgentKeeps,
     ReturnKeeps, RecordKeeps DEF Loop
<1>2. ASSUME NEW l \in Loops, OrphanReturns(l) PROVE Inv'
  <2>1. Frame' /\ \A m \in Loops : Same(m)
    BY <1>2 DEF OrphanReturns, queueVars, loopVars, Inv, Frame, Same
  <2> QED
    BY <2>1, SameKeeps DEF Inv
<1>3. CASE UNCHANGED vars
  <2>1. Frame' /\ \A m \in Loops : Same(m)
    BY <1>3 DEF vars, queueVars, loopVars, Inv, Frame, Same
  <2> QED
    BY <2>1, SameKeeps DEF Inv
<1> QED
  BY <1>1, <1>2, <1>3, KillKeeps, CommandKeeps DEF Next

THEOREM Invariance == Spec => []Inv
BY Initially, Inductive, PTL DEF Spec

-----------------------------------------------------------------------------
\* Every variable has its type, and prd.toon and what a loop has loaded of it are documents,
\* whatever runs, commands and kills do (loop.go: RunAutoLoop, recordIterationProgress).
THEOREM TypeCorrect == Spec => []TypeOK
<1>1. Inv => TypeOK
  BY DEF Inv, Frame, LoopInv, RunType, TypeOK
<1> QED
  BY <1>1, Invariance, PTL

\* No run starts more agents than its cap (loop.go: RunAutoLoop, opts.MaxIterations).
THEOREM CapIsRespected == Spec => []CapRespected
<1>1. Inv => CapRespected
  BY DEF Inv, LoopInv, CountInv, CapRespected
<1> QED
  BY <1>1, Invariance, PTL

\* A run stops for failures exactly at the end of a streak of its agents' failures (loop.go:
\* RunAutoLoop, consecutiveFailures).
THEOREM StopsExactlyOnStreak == Spec => []StopsOnStreak
<1>1. Inv => StopsOnStreak
  BY DEF Inv, LoopInv, StreakInv, StopsOnStreak, Over
<1> QED
  BY <1>1, Invariance, PTL

\* Whatever the gate's handlers answer, an implementation has a task (loop.go: RunAutoLoop, the
\* gate's answer).
THEOREM ImplementsOneOfTheTasks == Spec => []ImplementsATask
<1>1. Inv => ImplementsATask
  BY DEF Inv, LoopInv, TaskInv, ImplementsATask
<1> QED
  BY <1>1, Invariance, PTL
-----------------------------------------------------------------------------
(* The rollup.  A loop whose agent has come back and whose bookkeeping is still ahead owes  *)
(* one iteration; the rollup, in every copy of the queue, is covered by the others.         *)

Unsaved == {"check", "record", "save"}

Owed(a) == pc[a[1]] \in Unsaved /\ a[2] = Len(outcomes[a[1]])
Countable == {a \in Returned : ~Owed(a)}

CountsInv ==
  /\ IsFiniteSet(Returned)
  /\ \A l \in Loops : pc[l] \in Unsaved => Len(outcomes[l]) >= 1
  /\ Iterations(doc) <= Cardinality(Countable)
  /\ \A k \in DOMAIN cli : Iterations(cli[k].doc) <= Cardinality(Countable)
  /\ \A l \in Loops : pc[l] = "save" => Iterations(run[l].saving) <= Cardinality(Countable)

LEMMA IterationsType ==
  ASSUME NEW p, IsDocument(p)
  PROVE  Iterations(p) \in Nat
<1>1. p.prog \in Progress
  BY DocumentIsDraft DEF IsDraft
<1>2. p.prog.discovery \in Nat /\ p.prog.impl \in Nat
  BY <1>1 DEF Progress
<1> QED
  BY <1>2 DEF Iterations

LEMMA ReturnedIs ==
  ASSUME Inv
  PROVE  /\ \A a \in Returned : a = <<a[1], a[2]>> /\ a[1] \in Loops
         /\ \A l \in Loops : \A n : <<l, n>> \in Returned <=> n \in 1 .. Len(outcomes[l])
         /\ \A l \in Loops : Len(outcomes[l]) \in Nat
<1>1. \A l \in Loops : outcomes[l] \in Seq({"ok", "failed"})
  BY DEF Inv, LoopInv, CountInv
<1> QED
  BY <1>1 DEF Returned

\* How one step may move a loop: no stage behind its agent is entered but from one, or by the
\* agent that comes back.
Moves(l) ==
  \/ /\ outcomes'[l] = outcomes[l]
     /\ pc'[l] \in Unsaved => pc[l] \in Unsaved
  \/ /\ pc[l] = "agent"
     /\ \E result \in {"ok", "failed"} : outcomes'[l] = Append(outcomes[l], result)

LEMMA LoopMoves ==
  ASSUME Inv, NEW l \in Loops, Loop(l)
  PROVE  /\ Moves(l) /\ \A m \in Loops \ {l} : Same(m)
         /\ pc'[l] = "save" => run'[l].saving = doc
<1> DEFINE Others == \A m \in Loops \ {l} : Same(m)
           Loaded == pc'[l] = "save" => run'[l].saving = doc
<1>1. ASSUME NEW label, NEW r, Continue(l, label, r), outcomes' = outcomes,
             label \in Unsaved => pc[l] \in Unsaved, label = "save" => r.saving = doc
      PROVE  Moves(l) /\ Others /\ Loaded
  BY <1>1, Continued DEF Moves, Inv, Frame, Same
<1>2. ASSUME NEW label \in {"after:loop", "ended"}, NEW why, Leave(l, label, why), outcomes' = outcomes
      PROVE  Moves(l) /\ Others /\ Loaded
  BY <1>2, Left DEF Moves, Unsaved, Inv, Frame, Same
<1>3. CASE Start(l)
  BY <1>1, <1>2, <1>3 DEF Start, Stop, Unsaved
<1>4. CASE RunHooks(l)
  <2>1. pc[l] \in {"before:loop", "context", "check", "after:loop"}
    BY <1>4, StageTable DEF RunHooks
  <2>2. (NextStage[pc[l]] \in Unsaved => pc[l] \in Unsaved) /\ NextStage[pc[l]] # "save"
    BY <2>1, StageTable DEF Unsaved
  <2> QED
    BY <1>1, <1>2, <1>4, <2>2 DEF RunHooks, Stop
<1>5. CASE CapReached(l)
  BY <1>2, <1>5 DEF CapReached
<1>6. CASE Reload(l)
  BY <1>1, <1>2, <1>6 DEF Reload, Stop, Unsaved
<1>7. CASE Gate(l)
  BY <1>1, <1>2, <1>7 DEF Gate, Stop, Unsaved
<1>8. CASE InvokeAgent(l)
  BY <1>1, <1>2, <1>8 DEF InvokeAgent, Stop, Unsaved
<1>9. CASE AgentReturns(l)
  <2>1. PICK result \in {"ok", "failed"} :
          /\ outcomes' = [outcomes EXCEPT ![l] = Append(outcomes[l], result)]
          /\ \/ Stop(l, "failures")
             \/ \E r : Continue(l, "check", r)
    BY <1>9 DEF AgentReturns
  <2>2. outcomes'[l] = Append(outcomes[l], result) /\ pc[l] = "agent"
    BY <1>9, <2>1 DEF AgentReturns, Inv, Frame
  <2>3. Others /\ Loaded
    BY <2>1 DEF Stop, Leave, Continue, Goto, Inv, Frame, Same
  <2> QED
    BY <2>2, <2>3 DEF Moves
<1>10. CASE RecordLoad(l)
  <2>1. pc[l] = "record" /\ outcomes' = outcomes
    BY <1>10 DEF RecordLoad
  <2>2. CASE Continue(l, "save", [run[l] EXCEPT !.saving = doc])
    <3>1. [run[l] EXCEPT !.saving = doc].saving = doc
      BY DEF Inv, LoopInv, RunType
    <3> QED
      BY <1>1, <2>1, <2>2, <3>1 DEF Unsaved
  <2>3. CASE Iterated(l)
    BY <1>1, <2>1, <2>3 DEF Iterated, Unsaved
  <2> QED
    BY <1>10, <2>2, <2>3 DEF RecordLoad
<1>11. CASE RecordSave(l)
  BY <1>1, <1>11 DEF RecordSave, Iterated, Unsaved
<1> QED
  BY <1>3, <1>4, <1>5, <1>6, <1>7, <1>8, <1>9, <1>10, <1>11 DEF Loop

\* What the rollup may count only grows, and stays finite.
LEMMA Grows ==
  ASSUME Inv, Inv', CountsInv, \A l \in Loops : Moves(l),
         \E l : \A m \in Loops \ {l} : Same(m)
  PROVE  /\ Countable \subseteq Countable'
         /\ IsFiniteSet(Returned') /\ IsFiniteSet(Countable') /\ IsFiniteSet(Countable)
         /\ Cardinality(Countable) <= Cardinality(Countable')
         /\ Cardinality(Countable) \in Nat /\ Cardinality(Countable') \in Nat
         /\ \A l \in Loops : pc'[l] \in Unsaved => Len(outcomes'[l]) >= 1
<1>1. /\ \A a \in Returned : a = <<a[1], a[2]>> /\ a[1] \in Loops
      /\ \A l \in Loops : \A n : <<l, n>> \in Returned <=> n \in 1 .. Len(outcomes[l])
      /\ \A l \in Loops : Len(outcomes[l]) \in Nat
  BY ReturnedIs
<1>2. /\ \A a \in Returned' : a = <<a[1], a[2]>> /\ a[1] \in Loops
      /\ \A l \in Loops : \A n : <<l, n>> \in Returned' <=> n \in 1 .. Len(outcomes'[l])
      /\ \A l \in Loops : Len(outcomes'[l]) \in Nat
  <2>1. \A l \in Loops : outcomes'[l] \in Seq({"ok", "failed"})
    BY DEF Inv, LoopInv, CountInv
  <2> QED
    BY <2>1 DEF Returned
<1>3. ASSUME NEW l \in Loops
      PROVE  \/ /\ outcomes'[l] = outcomes[l] /\ Len(outcomes'[l]) = Len(outcomes[l])
                /\ pc'[l] \in Unsaved => pc[l] \in Unsaved
             \/ pc[l] \notin Unsaved /\ Len(outcomes'[l]) = Len(outcomes[l]) + 1
  BY DEF Moves, Unsaved, Inv, LoopInv, CountInv
<1>4. Countable \subseteq Countable'
  <2> SUFFICES ASSUME NEW a \in Countable PROVE a \in Returned' /\ ~Owed(a)'
    BY DEF Countable
  <2>1. PICK l \in Loops, n \in Nat : n \in 1 .. Len(outcomes[l]) /\ a = <<l, n>> /\ ~Owed(a)
    BY <1>1 DEF Countable
  <2>2. a \in Returned'
    BY <1>1, <1>2, <1>3, <2>1
  <2>3. ~(pc'[l] \in Unsaved /\ n = Len(outcomes'[l]))
    BY <1>1, <1>3, <2>1 DEF Owed
  <2> QED
    BY <2>1, <2>2, <2>3 DEF Owed
<1>5. IsFiniteSet(Returned')
  <2>1. PICK l : \A m \in Loops \ {l} : Same(m)
    OBVIOUS
  <2>2. Returned' \subseteq Returned \cup {<<l, Len(outcomes[l]) + 1>>}
    <3> SUFFICES ASSUME NEW a \in Returned' PROVE a \in Returned \cup {<<l, Len(outcomes[l]) + 1>>}
      OBVIOUS
    <3>1. PICK m \in Loops, n \in Nat : n \in 1 .. Len(outcomes'[m]) /\ a = <<m, n>>
      BY <1>2
    <3>2. CASE m # l
      BY <1>1, <2>1, <3>1, <3>2 DEF Same
    <3>3. CASE m = l
      BY <1>1, <1>3, <3>1, <3>3
    <3> QED
      BY <3>2, <3>3
  <2>3. IsFiniteSet(Returned \cup {<<l, Len(outcomes[l]) + 1>>})
    BY FS_AddElement DEF CountsInv
  <2> QED
    BY <2>2, <2>3, FS_Subset
<1>6. Countable \subseteq Returned /\ Countable' \subseteq Returned'
  BY DEF Countable
<1>7. IsFiniteSet(Countable) /\ IsFiniteSet(Countable')
  BY <1>5, <1>6, FS_Subset DEF CountsInv
<1>8. \A l \in Loops : pc'[l] \in Unsaved => Len(outcomes'[l]) >= 1
  BY <1>1, <1>3 DEF CountsInv
<1> QED
  BY <1>4, <1>5, <1>7, <1>8, FS_Subset, FS_CardinalityType

\* A copy of the queue that was covered stays covered.
LEMMA CountsInductive ==
  Inv /\ Inv' /\ CountsInv /\ [Next]_vars => CountsInv'
<1> SUFFICES ASSUME Inv, Inv', CountsInv, [Next]_vars PROVE CountsInv'
  OBVIOUS
<1> DEFINE Covered(p) == Iterations(p) <= Cardinality(Countable)
           CoveredThen(p) == Iterations(p) <= Cardinality(Countable')
\* All but the two copies a step may write.
<1>1. ASSUME \A l \in Loops : Moves(l), \E l : \A m \in Loops \ {l} : Same(m),
             CoveredThen(doc'), \A k \in DOMAIN cli' : CoveredThen(cli'[k].doc),
             \A l \in Loops : pc'[l] = "save" => CoveredThen(run'[l].saving)
      PROVE  CountsInv'
  BY <1>1, Grows DEF CountsInv
<1>2. ASSUME \A l \in Loops : Moves(l), \E l : \A m \in Loops \ {l} : Same(m),
             NEW p, IsDocument(p), Covered(p)
      PROVE  CoveredThen(p)
  <2>1. Iterations(p) \in Nat
    BY <1>2, IterationsType
  <2> QED
    BY <1>2, <2>1, Grows
<1> HIDE DEF Covered, CoveredThen
<1>3. /\ IsDocument(doc) /\ Covered(doc)
      /\ \A k \in DOMAIN cli : IsDocument(cli[k].doc) /\ Covered(cli[k].doc)
      /\ \A l \in Loops : pc[l] = "save" => IsDocument(run[l].saving) /\ Covered(run[l].saving)
  BY DEF CountsInv, Covered, Inv, Frame, LoopInv, RunType
<1>4. ASSUME NEW l \in Loops, Loop(l)
      PROVE  CountsInv'
  <2>1. (\A m \in Loops : Moves(m)) /\ \A m \in Loops \ {l} : Same(m)
    BY <1>4, LoopMoves DEF Moves, Same
  <2>2. \A p : IsDocument(p) /\ Covered(p) => CoveredThen(p)
    BY <1>2, <2>1
  <2>3. cli' = cli
    BY <1>4 DEF Loop, Start, RunHooks, CapReached, Reload, Gate, InvokeAgent, AgentReturns,
               RecordLoad, RecordSave, queueVars
  <2>4. CoveredThen(doc')
    <3>1. CASE RecordSave(l) /\ doc' # doc
      <4>1. /\ pc[l] = "save" /\ doc' = Recorded(run[l].saving, run[l].iter, run[l].type)
            /\ run[l].iter \in Nat /\ IsDocument(run[l].saving) /\ outcomes' = outcomes
            /\ \E r : Continue(l, "reload", r)
        <5>1. \E r : Continue(l, "reload", r)
          BY <3>1 DEF RecordSave, Iterated
        <5>2. RunType(l)
          BY DEF Inv, LoopInv
        <5>3. run[l].iter \in Nat /\ IsDocument(run[l].saving)
          BY <5>2, Constants DEF RunType
        <5> QED
          BY <3>1, <5>1, <5>3 DEF RecordSave
      <4>2. Iterations(doc') = Iterations(run[l].saving) + 1 /\ Iterations(run[l].saving) \in Nat
        BY <4>1, RecordedIsDocument, IterationsType
      <4>3. pc'[l] = "reload" /\ outcomes'[l] = outcomes[l]
        BY <4>1, Continued
      <4> DEFINE last == <<l, Len(outcomes[l])>>
      <4>4. last \in Returned' /\ last \notin Countable
        <5>1. last \in Returned /\ Len(outcomes[l]) >= 1 /\ outcomes[l] \in Seq({"ok", "failed"})
          BY <4>1, ReturnedIs DEF CountsInv, Unsaved, Inv, LoopInv, CountInv
        <5>2. last \in Returned'
          BY <4>3, <5>1 DEF Returned
        <5> QED
          BY <4>1, <5>2 DEF Countable, Owed, Unsaved
      <4>5. last \in Countable'
        BY <4>3, <4>4 DEF Countable, Owed, Unsaved
      <4>6. Countable \cup {last} \subseteq Countable' /\ IsFiniteSet(Countable') /\ IsFiniteSet(Countable)
        BY <2>1, <4>5, Grows
      <4>7. /\ Cardinality(Countable \cup {last}) = Cardinality(Countable) + 1
            /\ Cardinality(Countable \cup {last}) <= Cardinality(Countable')
            /\ Cardinality(Countable) \in Nat /\ Cardinality(Countable') \in Nat
        BY <4>4, <4>6, FS_AddElement, FS_Subset, FS_CardinalityType
      <4>8. Iterations(run[l].saving) <= Cardinality(Countable)
        BY <4>1 DEF CountsInv
      <4> QED
        BY <4>2, <4>7, <4>8 DEF CoveredThen
    <3>2. CASE doc' = doc
      BY <1>3, <2>2, <3>2
    <3> QED
      BY <1>4, <3>1, <3>2 DEF Loop, Start, RunHooks, CapReached, Reload, Gate, InvokeAgent,
                 AgentReturns, RecordLoad, queueVars
  <2>5. ASSUME NEW m \in Loops, pc'[m] = "save" PROVE CoveredThen(run'[m].saving)
    <3>1. CASE m = l
      <4>1. run'[l].saving = doc
        BY <1>4, <2>5, <3>1, LoopMoves
      <4> QED
        BY <1>3, <2>2, <3>1, <4>1
    <3>2. CASE m # l
      BY <1>3, <2>1, <2>2, <2>5, <3>2 DEF Same
    <3> QED
      BY <3>1, <3>2
  <2> QED
    BY <1>1, <1>3, <2>1, <2>2, <2>3, <2>4, <2>5
<1>6. ASSUME NEW l \in Loops, Kill(l)
      PROVE  CountsInv'
  <2>1. /\ \A m \in Loops \ {l} : Same(m)
        /\ pc'[l] = "killed" /\ outcomes' = outcomes /\ doc' = doc /\ (cli' = cli \/ cli' = <<>>)
    BY <1>6 DEF Kill, Leave, Goto, Inv, Frame, Same
  <2>2. \A m \in Loops : Moves(m)
    BY <2>1 DEF Moves, Same, Unsaved
  <2>3. \A m \in Loops : pc'[m] = "save" => CoveredThen(run'[m].saving)
    BY <1>2, <1>3, <2>1, <2>2 DEF Same
  <2> QED
    BY <1>1, <1>2, <1>3, <2>1, <2>2, <2>3
<1>7. ASSUME \A l \in Loops : Same(l),
             doc' = doc \/ \E k \in DOMAIN cli : doc' = cli[k].doc,
             \A k \in DOMAIN cli' : \/ k \in DOMAIN cli /\ cli'[k].doc = cli[k].doc
                                    \/ /\ IsDocument(cli'[k].doc)
                                       /\ Iterations(cli'[k].doc) = Iterations(doc)
      PROVE  CountsInv'
  <2>1. (\A l \in Loops : Moves(l)) /\ \E l : \A m \in Loops \ {l} : Same(m)
    BY <1>7 DEF Moves, Same
  <2>2. \A p : IsDocument(p) /\ Covered(p) => CoveredThen(p)
    BY <1>2, <2>1
  <2>3. \A k \in DOMAIN cli' : CoveredThen(cli'[k].doc)
    BY <1>3, <1>7, <2>2 DEF Covered
  <2>4. \A l \in Loops : pc'[l] = "save" => CoveredThen(run'[l].saving)
    BY <1>3, <1>7, <2>2 DEF Same
  <2> QED
    BY <1>1, <1>3, <1>7, <2>1, <2>2, <2>3, <2>4
<1>8. ASSUME NEW by, NEW cmd, CommandLoads(by, cmd)
      PROVE  CountsInv'
  <2>1. /\ Accepts(doc, cmd) /\ doc' = doc /\ \A l \in Loops : Same(l)
        /\ cli' = <<[by |-> by, cmd |-> cmd, doc |-> Mutated(doc, cmd)]>>
    BY <1>8 DEF CommandLoads, loopVars, Same
  <2>2. IsDocument(Mutated(doc, cmd)) /\ Iterations(Mutated(doc, cmd)) = Iterations(doc)
    BY <1>3, <2>1, MutatedIsDocument
  <2> QED
    BY <1>7, <2>1, <2>2
<1>9. CASE CommandSaves
  <2>1. doc' = cli[1].doc /\ cli' = <<>>
    BY <1>9 DEF CommandSaves
  <2>3. 1 \in DOMAIN cli
    BY <1>9 DEF CommandSaves, Inv, Frame
  <2>2. \A l \in Loops : Same(l)
    BY <1>9 DEF CommandSaves, loopVars, Same
  <2> QED
    BY <1>7, <2>1, <2>2, <2>3
<1>10. CASE CommandDies
  <2>1. doc' = doc /\ cli' = <<>> /\ \A l \in Loops : Same(l)
    BY <1>10 DEF CommandDies, loopVars, Same
  <2> QED
    BY <1>7, <2>1
<1>11. ASSUME NEW l \in Loops, OrphanReturns(l)
       PROVE  CountsInv'
  <2>1. doc' = doc /\ cli' = cli /\ \A m \in Loops : Same(m)
    BY <1>11 DEF OrphanReturns, queueVars, loopVars, Same
  <2> QED
    BY <1>7, <2>1
<1>12. CASE UNCHANGED vars
  <2>1. doc' = doc /\ cli' = cli /\ \A m \in Loops : Same(m)
    BY <1>12 DEF vars, queueVars, loopVars, Same
  <2> QED
    BY <1>7, <2>1
<1> QED
  BY <1>4, <1>6, <1>8, <1>9, <1>10, <1>11, <1>12 DEF Next

LEMMA CountsInitially ==
  ASSUME Init, Inv, \A d \in InitialDocs : Iterations(d) = 0
  PROVE  CountsInv
<1>1. \A l \in Loops : outcomes[l] = <<>> /\ DOMAIN outcomes[l] = {} /\ pc[l] = "start"
  BY DEF Init
<1>2. Returned = {}
  BY <1>1 DEF Returned
<1>3. Countable = {}
  BY <1>2 DEF Countable
<1>4. IsFiniteSet(Returned) /\ Cardinality(Countable) = 0
  BY <1>2, <1>3, FS_EmptySet
<1>5. Iterations(doc) = 0 /\ DOMAIN cli = {}
  BY DEF Init
<1> QED
  BY <1>1, <1>4, <1>5 DEF CountsInv, Unsaved

\* However runs overlap, resume and are killed, a queue nobody had worked on counts no more
\* iterations than agents have come back (loop.go: recordIterationProgress).
THEOREM NeverCountedTwice ==
  ASSUME \A d \in InitialDocs : Iterations(d) = 0
  PROVE  Spec => []NotCountedTwice
<1>1. Init => CountsInv
  BY Initially, CountsInitially
<1>2. Inv /\ CountsInv => NotCountedTwice
  <2> SUFFICES ASSUME Inv, CountsInv PROVE NotCountedTwice
    OBVIOUS
  <2>1. Countable \subseteq Returned /\ IsFiniteSet(Returned)
    BY DEF Countable, CountsInv
  <2>2. /\ Cardinality(Countable) <= Cardinality(Returned)
        /\ Cardinality(Countable) \in Nat /\ Cardinality(Returned) \in Nat
    BY <2>1, FS_Subset, FS_CardinalityType
  <2>3. Iterations(doc) \in Nat /\ Iterations(doc) <= Cardinality(Countable)
    BY IterationsType DEF Inv, Frame, CountsInv
  <2> QED
    BY <2>2, <2>3 DEF NotCountedTwice
<1>3. Init /\ []Inv /\ [][Next]_vars => []CountsInv
  BY <1>1, CountsInductive, PTL
<1> QED
  BY <1>2, <1>3, Invariance, PTL DEF Spec

-----------------------------------------------------------------------------
(* Settled tasks.  Every copy of the queue that may still be written knows what commands    *)
(* have settled, but for the task a reset is under way for.                                 *)

Settles(p, id) == id \in DOMAIN p.tasks /\ p.tasks[id].status \in {"completed", "skipped"}

Resets(c, id) == c.cmd.kind = "reset" /\ id = c.cmd.id

IdsInv ==
  /\ DOMAIN doc.tasks \subseteq Ids
  /\ cli # <<>> => DOMAIN cli[1].doc.tasks \subseteq Ids
  /\ \A l \in Loops : pc[l] = "save" => DOMAIN run[l].saving.tasks \subseteq Ids

SettledInv ==
  /\ \A id \in settled : Settles(doc, id)
  /\ cli # <<>> => /\ \A id \in settled : Settles(cli[1].doc, id) \/ Resets(cli[1], id)
                   /\ cli[1].cmd.kind \in {"done", "skip"} => Settles(cli[1].doc, cli[1].cmd.id)
  /\ \A l \in Loops : pc[l] = "save" => \A id \in settled : Settles(run[l].saving, id)

WorkInv == IdsInv /\ SettledInv

\* What a step of a loop does to the queue.
LEMMA LoopWorks ==
  ASSUME Inv, NEW l \in Loops, Loop(l)
  PROVE  /\ settled' = settled /\ cli' = cli
         /\ doc' = doc \/ (pc[l] = "save" /\ doc'.tasks = run[l].saving.tasks)
<1>1. settled' = settled /\ cli' = cli
  BY DEF Loop, Start, RunHooks, CapReached, Reload, Gate, InvokeAgent, AgentReturns, RecordLoad,
         RecordSave, queueVars
<1>2. CASE RecordSave(l)
  <2>1. RunType(l)
    BY DEF Inv, LoopInv
  <2>2. IsDocument(run[l].saving) /\ run[l].iter \in Nat
    BY <2>1, Constants DEF RunType
  <2>3. Recorded(run[l].saving, run[l].iter, run[l].type).tasks = run[l].saving.tasks
    BY <2>2, RecordedIsDocument
  <2> QED
    BY <1>1, <1>2, <2>3 DEF RecordSave
<1>3. CASE ~RecordSave(l)
  <2>1. doc' = doc
    BY <1>3 DEF Loop, Start, RunHooks, CapReached, Reload, Gate, InvokeAgent, AgentReturns,
               RecordLoad, queueVars
  <2> QED
    BY <1>1, <2>1
<1> QED
  BY <1>2, <1>3

LEMMA LoadedSettles ==
  ASSUME Inv, WorkInv, NEW cmd \in Commands, NEW by, CommandLoads(by, cmd)
  PROVE  /\ DOMAIN Mutated(doc, cmd).tasks \subseteq Ids
         /\ \A id \in settled : \/ Settles(Mutated(doc, cmd), id)
                                \/ cmd.kind = "reset" /\ id = cmd.id
         /\ cmd.kind \in {"done", "skip"} => Settles(Mutated(doc, cmd), cmd.id)
<1>1. /\ IsDocument(doc) /\ Accepts(doc, cmd) /\ cmd.id \in Ids /\ DOMAIN doc.tasks \subseteq Ids
      /\ \A id \in settled : Settles(doc, id)
  BY DocsAssumption DEF CommandLoads, Inv, Frame, WorkInv, IdsInv, SettledInv
<1>2. DOMAIN Mutated(doc, cmd).tasks \subseteq Ids
  BY <1>1, MutatedIds
<1>3. /\ DOMAIN Mutated(doc, cmd).tasks = DOMAIN doc.tasks \cup {TargetID(doc, cmd)}
      /\ \A id \in DOMAIN doc.tasks \ {TargetID(doc, cmd)} :
           Mutated(doc, cmd).tasks[id] = doc.tasks[id]
  BY <1>1, MutatedTouchesTarget
<1>4. ASSUME NEW id \in settled, id # TargetID(doc, cmd)
      PROVE  Settles(Mutated(doc, cmd), id)
  BY <1>1, <1>3, <1>4 DEF Settles
<1>5. cmd.kind \in {"done", "skip"} => Settles(Mutated(doc, cmd), cmd.id)
  BY <1>1, <1>3, MutatedTarget DEF Settles
<1>6. CASE cmd.kind \in {"done", "skip", "reset"}
  <2>1. TargetID(doc, cmd) = cmd.id
    BY <1>6 DEF TargetID
  <2> QED
    BY <1>2, <1>4, <1>5, <1>6, <2>1
<1>7. CASE cmd.kind \notin {"done", "skip", "reset"}
  <2>1. TargetID(doc, cmd) \notin DOMAIN doc.tasks
    BY <1>1, <1>7 DEF Accepts
  <2>2. \A id \in settled : id # TargetID(doc, cmd)
    BY <1>1, <2>1 DEF Settles
  <2> QED
    BY <1>2, <1>4, <1>5, <2>2
<1> QED
  BY <1>6, <1>7

LEMMA WorkInductive ==
  Inv /\ Inv' /\ WorkInv /\ [Next]_vars => WorkInv'
<1> SUFFICES ASSUME Inv, Inv', WorkInv, [Next]_vars PROVE WorkInv'
  OBVIOUS
<1>1. IdsInv /\ SettledInv
  BY DEF WorkInv
<1>2. ASSUME NEW l \in Loops, Loop(l)
      PROVE  WorkInv'
  <2>1. /\ settled' = settled /\ cli' = cli
        /\ doc' = doc \/ (pc[l] = "save" /\ doc'.tasks = run[l].saving.tasks)
        /\ \A m \in Loops \ {l} : pc'[m] = pc[m] /\ run'[m] = run[m]
        /\ pc'[l] = "save" => run'[l].saving = doc
    BY <1>2, LoopWorks, LoopMoves DEF Same
  <2>3. IdsInv'
    BY <1>1, <2>1 DEF IdsInv
  <2>4. SettledInv'
    BY <1>1, <2>1 DEF SettledInv, Settles, Resets
  <2> QED
    BY <2>3, <2>4 DEF WorkInv
<1>3. ASSUME NEW l \in Loops, Kill(l)
      PROVE  WorkInv'
  <2>1. /\ settled' = settled /\ doc' = doc /\ (cli' = cli \/ cli' = <<>>)
        /\ pc'[l] = "killed"
        /\ \A m \in Loops \ {l} : pc'[m] = pc[m] /\ run'[m] = run[m]
    BY <1>3 DEF Kill, Leave, Goto, Inv, Frame
  <2>3. IdsInv'
    BY <1>1, <2>1 DEF IdsInv
  <2>4. SettledInv'
    BY <1>1, <2>1 DEF SettledInv, Settles, Resets
  <2> QED
    BY <2>3, <2>4 DEF WorkInv
<1>4. ASSUME NEW by, NEW cmd \in Commands, CommandLoads(by, cmd)
      PROVE  WorkInv'
  <2>1. /\ settled' = settled /\ doc' = doc /\ pc' = pc /\ run' = run
        /\ cli' = <<[by |-> by, cmd |-> cmd, doc |-> Mutated(doc, cmd)]>>
    BY <1>4 DEF CommandLoads, loopVars
  <2>3. IdsInv'
    BY <1>1, <1>4, <2>1, LoadedSettles DEF IdsInv
  <2>4. SettledInv'
    <3>1. cli'[1].cmd = cmd /\ cli'[1].doc = Mutated(doc, cmd)
      BY <2>1
    <3> QED
      BY <1>1, <1>4, <2>1, <3>1, LoadedSettles DEF SettledInv, Settles, Resets
  <2> QED
    BY <2>3, <2>4 DEF WorkInv
<1>5. CASE CommandSaves
  <2> DEFINE c == cli[1]
  <2>1. /\ cli # <<>> /\ cli' = <<>> /\ doc' = c.doc /\ pc' = pc /\ run' = run
        /\ settled' = CASE c.cmd.kind = "reset" -> settled \ {c.cmd.id}
                        [] c.cmd.kind \in {"done", "skip"} /\ ~RecordUnderWay -> settled \cup {c.cmd.id}
                        [] OTHER -> settled
    BY <1>5 DEF CommandSaves, loopVars
  <2>2. \/ c.cmd.kind = "reset" /\ settled' = settled \ {c.cmd.id}
        \/ c.cmd.kind \in {"done", "skip"} /\ ~RecordUnderWay /\ settled' = settled \cup {c.cmd.id}
        \/ c.cmd.kind # "reset" /\ settled' = settled
    BY <2>1
  <2>4. IdsInv'
    BY <1>1, <2>1 DEF IdsInv
  <2>5. /\ \A id \in settled : Settles(c.doc, id) \/ Resets(c, id)
        /\ c.cmd.kind \in {"done", "skip"} => Settles(c.doc, c.cmd.id)
    BY <1>1, <2>1 DEF SettledInv
  <2>6. \A id \in settled' : Settles(doc', id)
    BY <2>1, <2>2, <2>5 DEF Resets
  <2>7. ASSUME NEW l \in Loops, pc[l] = "save"
        PROVE  settled' \subseteq settled
    BY <2>2, <2>7 DEF RecordUnderWay
  <2>8. SettledInv'
    BY <1>1, <2>1, <2>6, <2>7 DEF SettledInv, Settles
  <2> QED
    BY <2>4, <2>8 DEF WorkInv
<1>6. CASE CommandDies \/ (\E l \in Loops : OrphanReturns(l)) \/ UNCHANGED vars
  <2>1. /\ settled' = settled /\ doc' = doc /\ pc' = pc /\ run' = run
        /\ cli' = cli \/ cli' = <<>>
    BY <1>6 DEF CommandDies, OrphanReturns, loopVars, queueVars, vars
  <2>3. IdsInv'
    BY <1>1, <2>1 DEF IdsInv
  <2>4. SettledInv'
    BY <1>1, <2>1 DEF SettledInv, Settles, Resets
  <2> QED
    BY <2>3, <2>4 DEF WorkInv
<1> QED
  BY <1>2, <1>3, <1>4, <1>5, <1>6 DEF Next

LEMMA WorkInitially == Init => WorkInv
<1> SUFFICES ASSUME Init PROVE WorkInv
  OBVIOUS
<1>1. (\A l \in Loops : pc[l] = "start") /\ settled = {} /\ cli = <<>> /\ doc \in InitialDocs
  BY DEF Init
<1>2. DOMAIN doc.tasks \subseteq Ids
  BY <1>1, DocsAssumption
<1> QED
  BY <1>1, <1>2 DEF WorkInv, IdsInv, SettledInv

\* What a loop takes up is one task that no command has settled (loop.go: RunAutoLoop, the top of
\* the loop's body).
LEMMA TakesUp ==
  ASSUME Inv, WorkInv, [Next]_vars, NEW l \in Loops, pc[l] = "reload", pc'[l] = "iteration.gate"
  PROVE  Cardinality(run'[l].task) <= 1 /\ run'[l].task \cap settled = {}
<1>1. Reload(l)
  <2>1. ~\E m \in Loops : Kill(m) /\ m = l
    BY DEF Kill, Leave, Goto, Inv, Frame
  <2>2. pc'[l] # pc[l]
    OBVIOUS
  <2>3. \A m \in Loops : Kill(m) => m = l
    BY <2>2 DEF Kill, Leave, Goto, Inv, Frame
  <2>4. Loop(l)
    <3>1. \A m \in Loops \ {l} : ~Loop(m)
      BY <2>2, LoopMoves DEF Same
    <3> QED
      BY <2>1, <2>2, <2>3, <3>1 DEF Next, OrphanReturns, CommandLoads, CommandSaves, CommandDies,
                                   loopVars, vars
  <2>5. ~CapReached(l)
    BY DEF CapReached, Leave, Goto, Inv, Frame
  <2> QED
    BY <2>4, <2>5, StageTable DEF Loop, Start, RunHooks, Gate, InvokeAgent, AgentReturns,
                                 RecordLoad, RecordSave
<1>2. Continue(l, "iteration.gate", Iteration(l, run[l].iter + 1))
  BY <1>1 DEF Reload, Stop, Leave, Goto, Inv, Frame
<1>3. run'[l] = Iteration(l, run[l].iter + 1)
  BY <1>2 DEF Continue, Inv, Frame
<1>4. run'[l].task = GetNextTask(doc)
  BY <1>3 DEF Iteration, Inv, LoopInv, RunType
<1>5. GetNextTask(doc) \subseteq WithStatus(doc, "pending") /\ Cardinality(GetNextTask(doc)) <= 1
  BY NextTaskIsOne DEF WorkInv, IdsInv
<1>6. \A id \in settled : Settles(doc, id)
  BY DEF WorkInv, SettledInv
<1> QED
  BY <1>4, <1>5, <1>6 DEF Settles, WithStatus

\* No run takes up a task that an agent, of this run or left behind by another, or a user has
\* settled and nobody has reset, however runs overlap; but for a command saved beside a loop's
\* own bookkeeping (loop.go: RunAutoLoop, recordIterationProgress; run_mutations.go: done, skip,
\* reset).
THEOREM NoSettledTaskAgain == Spec => NoRework
<1>1. Init /\ []Inv /\ [][Next]_vars => []WorkInv
  BY WorkInitially, WorkInductive, PTL
<1> DEFINE Step ==
      \A l \in Loops : pc[l] = "reload" /\ pc'[l] = "iteration.gate"
        => Cardinality(run'[l].task) <= 1 /\ run'[l].task \cap settled = {}
<1>2. Inv /\ WorkInv /\ [Next]_vars => [Step]_vars
  BY TakesUp
<1>3. Spec => [][Step]_vars
  BY <1>1, <1>2, Invariance, PTL DEF Spec
<1> QED
  BY <1>3 DEF NoRework
=============================================================================
