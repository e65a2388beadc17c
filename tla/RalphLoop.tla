------------------------------ MODULE RalphLoop ------------------------------
(***************************************************************************)
(* RunAutoLoop of src/internal/methodology/ralph/loop.go, as `samuel run    *)
(* start` runs it with a registry of hooks (defaults.go, pilot.go and what  *)
(* plugins add), together with what goes on around it: the agent of an      *)
(* iteration, which changes the queue through `samuel run <command>`, the   *)
(* user who does the same from another terminal, further runs, and kills.   *)
(*                                                                         *)
(* A loop is one `samuel run start`.  Here a save is one step and a load   *)
(* another: what happens to the file in between is PrdStore's subject.  A  *)
(* command holds the project lock from its load to its save, so at most    *)
(* one command is under way; the loop's own load and save take no lock.    *)
(***************************************************************************)
EXTENDS PrdModel, HookRegistry

CONSTANTS
  Loops,
  After,           \* After[l]: the loops that are over before l is started
  PilotModes,      \* the values of config.pilot_mode to consider
  Interval,        \* config.pilot.discover_interval
  MaxIterations,   \* of each run: config.max_iterations or --iterations
  MaxConsecFails,
  Registry,        \* cfg.Hooks: RegisterDefaults and what plugins added
  Commands,        \* what agents and users may ask for
  MaxCommands,     \* bound: how many commands are run altogether
  InitialDocs

ASSUME LoopAssumption ==
  /\ After \in [Loops -> SUBSET Loops]
  /\ MaxIterations \in [Loops -> Nat \ {0}]
  /\ {Interval, MaxConsecFails} \subseteq Nat \ {0}

ASSUME DocsAssumption ==
  /\ \A d \in InitialDocs : IsDocument(d) /\ DOMAIN d.tasks \subseteq Ids
  /\ \A c \in Commands : c.id \in Ids

\* No two runs are under way at once; a killed one may leave its agent.
OneAtATime == \A l, m \in Loops : l # m => l \in After[m] \/ m \in After[l]

VARIABLES
  doc,       \* prd.toon
  pilot,     \* its config.pilot_mode
  cli,       \* <<[by, cmd, doc]>> while a command is between its load and its save
  issued,    \* the commands started so far
  agents,    \* the loops whose agent process is alive
  pc,        \* the stage of each loop
  run,       \* the local variables of each loop
  exit,      \* why each loop stopped
  outcomes,  \* history: the results of each loop's agents
  settled    \* history: the tasks commands have settled, not reset since (CommandSaves)

queueVars == <<doc, pilot, cli, issued, settled>>
loopVars == <<pc, run, exit, outcomes>>
vars == <<queueVars, agents, loopVars>>

\* iter is i, type iterType, task holds next (if any), fails is consecutiveFailures, last is
\* lastDiscovery, saving is the document recordIterationProgress has loaded.
FreshRun ==
  [iter |-> 0, type |-> "implementation", task |-> {}, fails |-> 0, last |-> 0,
   saving |-> NewAutoPRD]

Init ==
  /\ doc \in InitialDocs
  /\ pilot \in PilotModes
  /\ cli = <<>> /\ issued = 0 /\ agents = {} /\ settled = {}
  /\ pc = [l \in Loops |-> "start"]
  /\ run = [l \in Loops |-> FreshRun]
  /\ exit = [l \in Loops |-> "none"]
  /\ outcomes = [l \in Loops |-> <<>>]

Over(l) == pc[l] \in {"ended", "killed"}

Goto(l, label) == pc' = [pc EXCEPT ![l] = label]

\* The loop goes on with locals r.
Continue(l, label, r) ==
  /\ Goto(l, label)
  /\ run' = [run EXCEPT ![l] = r]
  /\ UNCHANGED exit

\* The for loop is left, and its locals with it.
Leave(l, label, why) ==
  /\ Goto(l, label)
  /\ run' = [run EXCEPT ![l] = FreshRun]
  /\ exit' = [exit EXCEPT ![l] = why]
Stop(l, why) == Leave(l, "ended", why)

-----------------------------------------------------------------------------
(* pilot.go                                                                *)

MinPendingTasksForDiscovery == 2

ShouldRunDiscovery(p, current, last) ==
  \/ CountPendingTasks(p) = 0
  \/ last = 0
  \/ current - last >= Interval
  \/ CountPendingTasks(p) < MinPendingTasksForDiscovery

TypeOf(discovery) == IF discovery THEN "discovery" ELSE "implementation"

\* The default iteration.gate handler does not know the loop's lastDiscovery: once any
\* discovery has been recorded it takes the previous iteration for one.
GateLast(p, current) == IF p.prog.discovery > 0 THEN current - 1 ELSE 0

-----------------------------------------------------------------------------
(* run start                                                               *)

\* Nothing to do without pending tasks, but a pilot finds its own.
Start(l) ==
  /\ pc[l] = "start" /\ \A m \in After[l] : Over(m)
  /\ IF CountPendingTasks(doc) = 0 /\ ~pilot
     THEN Stop(l, "nothing to do")
     ELSE Continue(l, "before:loop", FreshRun)
  /\ UNCHANGED <<queueVars, agents, outcomes>>

\* defaults.go.  The handlers of the contexts are best effort or only warn, the others do
\* nothing but the gate's, whose answer is DefaultGate below.
RegisterDefaults(r) ==
  LET Default(s, name) ==
        Register(s, name, CASE name = "iteration.gate" -> Results
                            [] name \in {"context.snapshot", "context.task"} -> {"done", "error"}
                            [] OTHER -> {"done"}, "default")
  IN  FoldLeft(Default, r, <<"context.snapshot", "context.progress", "context.task",
                             "iteration.gate", "quality.check", "before:loop">>)

\* RunAutoLoop hands AllowAll to every run of a hook.
EndingHooks == {name \in HookNames : MayFail(Registry, name, {})}
GateHandlers == Handlers(Registry, "iteration.gate")
GateOutcomes ==
  {[does |-> d, out |-> Run(Registry, "iteration.gate", {}, d)] : d \in MayDo(Registry, "iteration.gate")}

\* Hooks with nothing but other hooks between them form one stage: their handlers touch
\* nothing the model keeps, so only which of them may end the run matters.
HooksOf ==
  [stage \in {"before:loop", "context", "check", "after:loop"} |->
     CASE stage = "context" -> {"before:iteration", "context.snapshot", "context.progress",
                                "context.task", "context.extra"}
       [] stage = "check" -> {"after:agent.invoke", "quality.check", "after:iteration"}
       [] OTHER -> {stage}]

NextStage ==
  [stage \in DOMAIN HooksOf |->
     CASE stage = "before:loop" -> "reload" [] stage = "context" -> "invoke"
       [] stage = "check" -> "record"       [] stage = "after:loop" -> "ended"]

\* A handler error ends the run where the hook is strict and is a warning elsewhere.
RunHooks(l) ==
  /\ pc[l] \in DOMAIN HooksOf
  /\ \/ Continue(l, NextStage[pc[l]], run[l])
     \/ HooksOf[pc[l]] \cap EndingHooks # {} /\ Stop(l, "hook")
  /\ UNCHANGED <<queueVars, agents, outcomes>>

CapReached(l) ==
  /\ pc[l] = "reload" /\ run[l].iter = MaxIterations[l]
  /\ Leave(l, "after:loop", "cap")
  /\ UNCHANGED <<queueVars, agents, outcomes>>

\* What iteration i starts from, given the queue just loaded.
Iteration(l, i) ==
  [run[l] EXCEPT !.iter = i, !.task = GetNextTask(doc),
                 !.type = TypeOf(pilot /\ ShouldRunDiscovery(doc, i, run[l].last))]

\* Mutant: the loop runs once more than asked.
ReloadPastCap(l) ==
  /\ pc[l] = "reload" /\ run[l].iter <= MaxIterations[l]
  /\ Continue(l, "iteration.gate", Iteration(l, run[l].iter + 1))
  /\ UNCHANGED <<queueVars, agents, outcomes>>

\* The top of the for loop.
Reload(l) ==
  /\ pc[l] = "reload" /\ run[l].iter < MaxIterations[l]
  /\ \/ Continue(l, "iteration.gate", Iteration(l, run[l].iter + 1))
     \/ Stop(l, "reload failed")
  /\ UNCHANGED <<queueVars, agents, outcomes>>

\* What the default iteration.gate handler may do: it loads the queue again, which may fail,
\* and says nothing outside pilot mode.
DefaultGate(l) ==
  {"error", IF pilot
            THEN TypeOf(ShouldRunDiscovery(doc, run[l].iter, GateLast(doc, run[l].iter)))
            ELSE "done"}

\* The runs of iteration.gate there may be by now.
GateRuns(l) ==
  {g.out : g \in {h \in GateOutcomes :
                  \A k \in DOMAIN h.does :
                    GateHandlers[k].source = "default" => h.does[k] \in DefaultGate(l)}}

\* The gate's answer has the last word, if there is one.
TypeAfter(l, out) == IF out.answer = "" THEN run[l].type ELSE out.answer

\* Mutant: the queue is looked at before the gate is asked.
GateAskedLast(l) ==
  /\ pc[l] = "iteration.gate"
  /\ \E out \in GateRuns(l) :
       CASE ~out.ok -> Stop(l, "hook")
         [] out.ok /\ run[l].task = {} /\ run[l].type = "implementation" -> Leave(l, "after:loop", "queue empty")
         [] OTHER -> Continue(l, "context", [run[l] EXCEPT !.type = TypeAfter(l, out)])
  /\ UNCHANGED <<queueVars, agents, outcomes>>

\* Mutant: the loop waits for work instead of stopping.
GateWaits(l) ==
  /\ pc[l] = "iteration.gate"
  /\ \E out \in GateRuns(l) :
       IF run[l].task = {} /\ TypeAfter(l, out) = "implementation"
       THEN Continue(l, "reload", [run[l] EXCEPT !.iter = @ - 1])
       ELSE Continue(l, "context", [run[l] EXCEPT !.type = TypeAfter(l, out)])
  /\ UNCHANGED <<queueVars, agents, outcomes>>

\* iteration.gate may overrule the type the loop chose; the loop stops if it then has
\* nothing to implement.
Gate(l) ==
  /\ pc[l] = "iteration.gate"
  /\ \E out \in GateRuns(l) :
       CASE ~out.ok -> Stop(l, "hook")
         [] out.ok /\ run[l].task = {} /\ TypeAfter(l, out) = "implementation" ->
              Leave(l, "after:loop", "queue empty")
         [] OTHER -> Continue(l, "context", [run[l] EXCEPT !.type = TypeAfter(l, out)])
  /\ UNCHANGED <<queueVars, agents, outcomes>>

\* The prompt comes from a template the user may have broken; before:agent.invoke has its
\* handlers; then the agent's process is started.
InvokeAgent(l) ==
  /\ pc[l] = "invoke"
  /\ \/ agents' = agents \cup {l} /\ Continue(l, "agent", run[l])
     \/ UNCHANGED agents /\ Stop(l, "render failed")
     \/ "before:agent.invoke" \in EndingHooks /\ UNCHANGED agents /\ Stop(l, "hook")
  /\ UNCHANGED <<queueVars, outcomes>>

CommandOf(l) == cli # <<>> /\ cli[1].by = l

\* Mutant: a success does not end a streak of failures.
AgentReturnsKeepsFails(l) ==
  /\ pc[l] = "agent" /\ ~CommandOf(l)
  /\ agents' = agents \ {l}
  /\ \E result \in {"ok", "failed"} :
       LET fails == IF result = "ok" THEN run[l].fails ELSE run[l].fails + 1
       IN  /\ outcomes' = [outcomes EXCEPT ![l] = Append(@, result)]
           /\ IF result = "failed" /\ fails >= MaxConsecFails
              THEN Stop(l, "failures")
              ELSE Continue(l, "check", [run[l] EXCEPT !.fails = fails])
  /\ UNCHANGED queueVars

\* The agent comes back.  Too many failures in a row return at once, past the remaining
\* hooks of the iteration, its bookkeeping and after:loop.
AgentReturns(l) ==
  /\ pc[l] = "agent" /\ ~CommandOf(l)
  /\ agents' = agents \ {l}
  /\ \E result \in {"ok", "failed"} :
       LET fails == IF result = "ok" THEN 0 ELSE run[l].fails + 1
       IN  /\ outcomes' = [outcomes EXCEPT ![l] = Append(@, result)]
           /\ IF result = "failed" /\ fails >= MaxConsecFails
              THEN Stop(l, "failures")
              ELSE Continue(l, "check", [run[l] EXCEPT !.fails = fails])
  /\ UNCHANGED queueVars

\* The end of the loop's body.
Iterated(l) ==
  Continue(l, "reload",
    [FreshRun EXCEPT !.iter = run[l].iter, !.fails = run[l].fails,
       !.last = IF run[l].type = "discovery" THEN run[l].iter ELSE run[l].last])

\* recordIterationProgress, best effort: a queue that cannot be loaded is not saved.
RecordLoad(l) ==
  /\ pc[l] = "record"
  /\ \/ Continue(l, "save", [run[l] EXCEPT !.saving = doc])
     \/ Iterated(l)
  /\ UNCHANGED <<queueVars, agents, outcomes>>

\* The error of the save is dropped; so is every change made since the load.
RecordSave(l) ==
  /\ pc[l] = "save"
  /\ doc' \in {doc, Recorded(run[l].saving, run[l].iter, run[l].type)}
  /\ Iterated(l)
  /\ UNCHANGED <<pilot, cli, issued, settled, agents, outcomes>>

-----------------------------------------------------------------------------
(* Commands: mutate in run_mutations.go, at the granularity of load and save. *)

User == "user"

CommandLoads(by, cmd) ==
  /\ by = User \/ by \in agents
  /\ cli = <<>> /\ issued < MaxCommands
  /\ Accepts(doc, cmd)
  /\ cli' = <<[by |-> by, cmd |-> cmd, doc |-> Mutated(doc, cmd)]>>
  /\ issued' = issued + 1
  /\ UNCHANGED <<doc, pilot, agents, loopVars, settled>>

\* A loop is between the load and the save of its bookkeeping, which take no lock.
RecordUnderWay == \E l \in Loops : pc[l] = "save"

\* A done or skip is settled when it is saved, whoever sent it: the agent of a live run, one
\* that a killed run left behind, or a user.  The one exception is a save that falls between
\* the load and the save of a loop's bookkeeping, which may undo it.
CommandSaves ==
  /\ cli # <<>>
  /\ doc' = cli[1].doc
  /\ LET cmd == cli[1].cmd
     IN  settled' = CASE cmd.kind = "reset" -> settled \ {cmd.id}
                      [] cmd.kind \in {"done", "skip"} /\ ~RecordUnderWay -> settled \cup {cmd.id}
                      [] OTHER -> settled
  /\ cli' = <<>>
  /\ UNCHANGED <<pilot, agents, loopVars, issued>>

CommandDies ==
  /\ cli # <<>> /\ cli' = <<>>
  /\ UNCHANGED <<doc, pilot, agents, loopVars, issued, settled>>

-----------------------------------------------------------------------------
(* Kills.  The loop's context is never cancelled: a signal ends the process.  A signal to  *)
(* the loop's process alone leaves its agent running.                                      *)

Kill(l) ==
  /\ pc[l] # "start" /\ ~Over(l)
  /\ Leave(l, "killed", "killed")
  /\ \/ UNCHANGED <<agents, cli>>
     \/ agents' = agents \ {l} /\ cli' = IF CommandOf(l) THEN <<>> ELSE cli
  /\ UNCHANGED <<doc, pilot, issued, settled, outcomes>>

OrphanReturns(l) ==
  /\ pc[l] = "killed" /\ l \in agents /\ ~CommandOf(l)
  /\ agents' = agents \ {l}
  /\ UNCHANGED <<queueVars, loopVars>>

Loop(l) ==
  \/ Start(l) \/ RunHooks(l) \/ CapReached(l) \/ Reload(l) \/ Gate(l)
  \/ InvokeAgent(l) \/ AgentReturns(l) \/ RecordLoad(l) \/ RecordSave(l)

Next ==
  \/ \E l \in Loops : Loop(l) \/ Kill(l) \/ OrphanReturns(l)
  \/ \E by \in Loops \cup {User}, cmd \in Commands : CommandLoads(by, cmd)
  \/ CommandSaves \/ CommandDies

Spec == Init /\ [][Next]_vars

\* The loop is one sequential process.  That agents and their commands come back is assumed:
\* agent.invoke has no timeout of its own.
FairSpec ==
  /\ Spec
  /\ \A l \in Loops : WF_vars(Loop(l))
  /\ WF_vars(CommandSaves \/ CommandDies)
-----------------------------------------------------------------------------
(* Properties.                                                             *)

Stages == DOMAIN HooksOf \cup
  {"start", "reload", "iteration.gate", "invoke", "agent", "record", "save",
   "ended", "killed"}

\* Every variable has its type.
TypeOK ==
  /\ IsDocument(doc) /\ pilot \in PilotModes
  /\ agents \subseteq Loops
  /\ pc \in [Loops -> Stages]
  /\ \A l \in Loops :
       /\ {run[l].iter, run[l].last} \subseteq 0 .. MaxIterations[l]
       /\ run[l].fails \in 0 .. MaxConsecFails - 1
       /\ run[l].type \in IterationTypes
       /\ IsDocument(run[l].saving)

\* "The loop always stops there": one run starts at most MaxIterations agents, whatever
\* agents, users and hooks do.
CapRespected == \A l \in Loops : Len(outcomes[l]) <= MaxIterations[l]

Streak(l, k) == k >= MaxConsecFails /\ \A j \in k - MaxConsecFails + 1 .. k : outcomes[l][j] = "failed"

\* A run stops for failures exactly when its last MaxConsecFails agents have all failed: no
\* agent is started after such a streak, and no shorter or interrupted one stops the run.
StopsOnStreak ==
  \A l \in Loops :
    /\ \A k \in DOMAIN outcomes[l] : Streak(l, k) => k = Len(outcomes[l]) /\ Over(l)
    /\ exit[l] = "failures" => Streak(l, Len(outcomes[l]))

\* An agent told to implement has a task to implement, although the gate's own look at the
\* queue may overrule the type the loop chose.
ImplementsATask ==
  \A l \in Loops :
    pc[l] \in {"invoke", "agent"} /\ run[l].type = "implementation" => run[l].task # {}

\* No more than one task is handed out at a time, and none that an agent, live or left behind
\* by a killed run, or a user reported done or skipped, before somebody resets it; except a
\* report saved between the load and the save of a loop's bookkeeping, which that save may undo.
NoRework ==
  [][\A l \in Loops : pc[l] = "reload" /\ pc'[l] = "iteration.gate"
       => Cardinality(run'[l].task) <= 1 /\ run'[l].task \cap settled = {}]_vars

\* The agents that have come back, as <<loop, iteration>>.
Returned == UNION {{l} \X DOMAIN outcomes[l] : l \in Loops}

\* The rollup never counts an iteration that had no agent, nor one twice.
NotCountedTwice == Iterations(doc) <= Cardinality(Returned)

\* Every run comes to an end.
EveryRunEnds == \A l \in Loops : <>Over(l)

=============================================================================
