--------------------------- MODULE PrdModel_proofs ---------------------------
(***************************************************************************)
(* What every saved document satisfies: the mutations of                   *)
(* run_mutations.go, the loop's bookkeeping and a new queue all leave a     *)
(* document whose statuses are those of the schema and whose rollup counts *)
(* its own tasks.                                                          *)
(***************************************************************************)
EXTENDS PrdModel, FiniteSetTheorems, TLAPS
LOCAL INSTANCE Sequences

Progress ==
  [total : Nat, completed : Nat, currentIteration : Nat, totalIterationsRun : Nat,
   status : LoopStatuses, discovery : Nat, impl : Nat]

TaskFields == {"title", "status", "prio", "deps", "stamp"}

\* A document before Save: its rollup may be out of date.
IsDraft(p) ==
  /\ p = [tasks |-> p.tasks, prog |-> p.prog]
  /\ IsFiniteSet(DOMAIN p.tasks)
  /\ \A id \in DOMAIN p.tasks :
       DOMAIN p.tasks[id] = TaskFields /\ p.tasks[id].status \in Statuses
  /\ p.prog \in Progress

LEMMA DocumentIsDraft ==
  ASSUME NEW p, IsDocument(p)
  PROVE  IsDraft(p)
  BY DEF IsDocument, IsDraft, Progress, NewTask, TaskFields

\* Save makes a document of any draft and leaves the tasks alone.
LEMMA RecalculateDraft ==
  ASSUME NEW p, IsDraft(p)
  PROVE  /\ IsDocument(RecalculateProgress(p))
         /\ RecalculateProgress(p).tasks = p.tasks
         /\ Iterations(RecalculateProgress(p)) = Iterations(p)
<1> DEFINE total == Cardinality(DOMAIN p.tasks)
           done == Cardinality(WithStatus(p, "completed"))
           q == RecalculateProgress(p)
           status == IF total > 0 /\ done = total THEN "completed" ELSE p.prog.status
           prog == [p.prog EXCEPT !.total = total, !.completed = done, !.status = status]
<1>1. total \in Nat
  BY FS_CardinalityType DEF IsDraft
<1>2. done \in Nat
  <2>1. WithStatus(p, "completed") \subseteq DOMAIN p.tasks
    BY DEF WithStatus
  <2>2. IsFiniteSet(WithStatus(p, "completed"))
    BY <2>1, FS_Subset DEF IsDraft
  <2>3. QED
    BY <2>2, FS_CardinalityType
<1>3. status \in LoopStatuses
  BY DEF IsDraft, Progress, LoopStatuses
<1>4. /\ prog \in Progress /\ prog.total = total /\ prog.completed = done
      /\ prog.discovery = p.prog.discovery /\ prog.impl = p.prog.impl
  <2> HIDE DEF total, done, status
  <2>1. p.prog \in Progress
    BY DEF IsDraft
  <2>2. QED
    BY <1>1, <1>2, <1>3, <2>1 DEF Progress
<1>5. q = [tasks |-> p.tasks, prog |-> prog]
  <2>1. q = [p EXCEPT !.prog = prog]
    BY DEF RecalculateProgress
  <2> HIDE DEF q, prog
  <2>2. QED
    BY <2>1 DEF IsDraft
<1>6. WithStatus(q, "completed") = WithStatus(p, "completed")
  <2> HIDE DEF q, prog
  <2>1. QED
    BY <1>5 DEF WithStatus
<1>7. q.tasks = p.tasks /\ q.prog = prog
  <2> HIDE DEF q, prog
  <2>1. QED
    BY <1>5
<1>8. \A id \in DOMAIN q.tasks :
        DOMAIN q.tasks[id] = DOMAIN NewTask("", "medium") /\ q.tasks[id].status \in Statuses
  <2> HIDE DEF q, prog
  <2>1. QED
    BY <1>7 DEF IsDraft, NewTask, TaskFields
<1>9. RecalculateProgress(p) = q
  OBVIOUS
<1>10. QED
  <2> HIDE DEF q, prog
  <2>1. QED
    BY <1>4, <1>5, <1>6, <1>7, <1>8, <1>9 DEF IsDraft, IsDocument, Progress, Iterations

\* A command that is accepted leaves a draft, in memory.
LEMMA MutatedDraft ==
  ASSUME NEW p, IsDocument(p), NEW cmd, Accepts(p, cmd)
  PROVE  /\ IsDraft([p EXCEPT !.tasks = MutatedTasks(p, cmd)])
         /\ [p EXCEPT !.tasks = MutatedTasks(p, cmd)].tasks = MutatedTasks(p, cmd)
         /\ [p EXCEPT !.tasks = MutatedTasks(p, cmd)].prog = p.prog
<1> DEFINE target == TargetID(p, cmd)
           tasks == MutatedTasks(p, cmd)
           draft == [p EXCEPT !.tasks = tasks]
<1>1. IsDraft(p)
  BY DocumentIsDraft
<1>2. draft = [tasks |-> tasks, prog |-> p.prog]
  BY <1>1 DEF IsDraft
<1>3. CASE cmd.kind \in {"done", "skip", "reset"}
  <2>1. target = cmd.id /\ target \in DOMAIN p.tasks
    BY <1>3 DEF TargetID, Accepts
  <2>2. DOMAIN tasks = DOMAIN p.tasks
    BY <1>3, <2>1 DEF MutatedTasks
  <2>3. \A id \in DOMAIN tasks :
          DOMAIN tasks[id] = TaskFields /\ tasks[id].status \in Statuses
    BY <1>1, <1>3, <2>1, <2>2
       DEF MutatedTasks, CompleteTask, SkipTask, ResetTask, IsDraft, Statuses, TaskFields
  <2>4. QED
    BY <1>1, <1>2, <2>2, <2>3 DEF IsDraft
<1>4. CASE cmd.kind \notin {"done", "skip", "reset"}
  <2>1. tasks = [id \in DOMAIN p.tasks \cup {target} |->
                   IF id = target THEN NewTask(cmd.title, cmd.prio) ELSE p.tasks[id]]
    BY <1>4 DEF MutatedTasks
  <2>2. IsFiniteSet(DOMAIN tasks)
    BY <1>1, <2>1, FS_AddElement DEF IsDraft
  <2>3. \A id \in DOMAIN tasks :
          DOMAIN tasks[id] = TaskFields /\ tasks[id].status \in Statuses
    BY <1>1, <2>1 DEF NewTask, IsDraft, Statuses, TaskFields
  <2>4. QED
    BY <1>1, <1>2, <2>2, <2>3 DEF IsDraft
<1>5. QED
  BY <1>3, <1>4

\* A command that is accepted leaves a document, and Save adds nothing to its tasks.
LEMMA MutatedIsDocument ==
  ASSUME NEW p, IsDocument(p), NEW cmd, Accepts(p, cmd)
  PROVE  /\ IsDocument(Mutated(p, cmd)) /\ Mutated(p, cmd).tasks = MutatedTasks(p, cmd)
         /\ Iterations(Mutated(p, cmd)) = Iterations(p)
  BY MutatedDraft, RecalculateDraft DEF Mutated, Iterations

\* A command changes the task it is about and no other, and removes none.
LEMMA MutatedTouchesTarget ==
  ASSUME NEW p, IsDocument(p), NEW cmd, Accepts(p, cmd)
  PROVE  /\ DOMAIN Mutated(p, cmd).tasks = DOMAIN p.tasks \cup {TargetID(p, cmd)}
         /\ \A id \in DOMAIN p.tasks \ {TargetID(p, cmd)} :
              Mutated(p, cmd).tasks[id] = p.tasks[id]
<1>1. Mutated(p, cmd).tasks = MutatedTasks(p, cmd)
  BY MutatedIsDocument
<1>2. cmd.kind \in {"done", "skip", "reset"} => TargetID(p, cmd) \in DOMAIN p.tasks
  BY DEF Accepts, TargetID
<1>3. QED
  BY <1>1, <1>2 DEF MutatedTasks

\* What the commands about an existing task leave of it.
LEMMA MutatedTarget ==
  ASSUME NEW p, IsDocument(p), NEW cmd, Accepts(p, cmd), cmd.kind \in {"done", "skip", "reset"}
  PROVE  /\ cmd.id \in DOMAIN p.tasks
         /\ cmd.kind = "done" => /\ Mutated(p, cmd).tasks[cmd.id].status = "completed"
                                 /\ Mutated(p, cmd).tasks[cmd.id].stamp = cmd.stamp
         /\ cmd.kind = "skip" => Mutated(p, cmd).tasks[cmd.id].status = "skipped"
<1>1. Mutated(p, cmd).tasks = MutatedTasks(p, cmd)
  BY MutatedIsDocument
<1>2. TargetID(p, cmd) = cmd.id /\ cmd.id \in DOMAIN p.tasks
  BY DEF Accepts, TargetID
<1>3. DOMAIN p.tasks[cmd.id] = TaskFields
  BY <1>2, DocumentIsDraft DEF IsDraft
<1>4. QED
  BY <1>1, <1>2, <1>3 DEF MutatedTasks, CompleteTask, SkipTask, TaskFields

LEMMA RecordedProgressType ==
  ASSUME NEW prog \in Progress, NEW iter \in Nat, NEW kind
  PROVE  RecordedProgress(prog, iter, kind) \in Progress
<1> DEFINE d == IF kind = "discovery" THEN 1 ELSE 0
           status == IF prog.status = "not_started" THEN "running" ELSE prog.status
           disc == prog.discovery + d
           impl == prog.impl + 1 - d
<1>1. status \in LoopStatuses /\ disc \in Nat /\ impl \in Nat
  BY DEF Progress, LoopStatuses
<1>2. RecordedProgress(prog, iter, kind) =
        [prog EXCEPT !.currentIteration = iter, !.totalIterationsRun = iter,
                     !.status = status, !.discovery = disc, !.impl = impl]
  BY DEF RecordedProgress
<1> HIDE DEF status, disc, impl
<1>3. QED
  BY <1>1, <1>2 DEF Progress

\* The bookkeeping of an iteration leaves a document too, with the same tasks, and counts
\* the iteration once.
LEMMA RecordedIsDocument ==
  ASSUME NEW p, IsDocument(p), NEW iter \in Nat, NEW kind
  PROVE  /\ IsDocument(Recorded(p, iter, kind))
         /\ Recorded(p, iter, kind).tasks = p.tasks
         /\ Iterations(Recorded(p, iter, kind)) = Iterations(p) + 1
<1> DEFINE prog == RecordedProgress(p.prog, iter, kind)
           q == [p EXCEPT !.prog = prog]
<1>1. IsDraft(p)
  BY DocumentIsDraft
<1>2. p.prog \in Progress
  BY <1>1 DEF IsDraft
<1>3. prog \in Progress
  BY <1>2, RecordedProgressType
<1>4. q = [tasks |-> p.tasks, prog |-> prog]
  BY <1>1 DEF IsDraft
<1>5. Recorded(p, iter, kind) = RecalculateProgress(q)
  BY DEF Recorded
<1>8. prog.discovery + prog.impl = p.prog.discovery + p.prog.impl + 1
  BY <1>2 DEF RecordedProgress, Progress
<1> HIDE DEF prog, q
<1>6. IsDraft(q) /\ q.tasks = p.tasks
  BY <1>1, <1>3, <1>4 DEF IsDraft
<1>7. QED
  BY <1>4, <1>5, <1>6, <1>8, RecalculateDraft DEF Iterations

\* So does a new queue.
LEMMA FreshIsDocument == IsDocument(FreshPRD)
<1>1. NoTasks = [id \in {} |-> NoTasks[id]] /\ DOMAIN NoTasks = {}
  BY DEF NoTasks
<1>2. IsFiniteSet(DOMAIN NoTasks)
  BY <1>1, FS_EmptySet
<1>3. NewProgress \in Progress
  BY DEF NewProgress, Progress, LoopStatuses
<1>4. IsDraft(NewAutoPRD)
  BY <1>1, <1>2, <1>3 DEF IsDraft, NewAutoPRD
<1>5. QED
  BY <1>4, RecalculateDraft DEF FreshPRD

-----------------------------------------------------------------------------
(* Ids.                                                                    *)

\* A finite set of numbers has a largest one.
LEMMA LargestExists ==
  ASSUME NEW S, S \subseteq Nat, IsFiniteSet(S), S # {}
  PROVE  \E n \in S : \A m \in S : n >= m
<1> DEFINE Topped(T) == \E n \in T : \A m \in T : n >= m
           Bad == {T \in FiniteSubsetsOf(S) : T # {} /\ ~Topped(T)}
<1>1. SUFFICES ASSUME ~Topped(S) PROVE FALSE
  OBVIOUS
<1>2. S \in Bad /\ Bad \subseteq FiniteSubsetsOf(S)
  BY <1>1 DEF FiniteSubsetsOf
<1>3. PICK T \in Bad : \A U \in Bad : <<U, T>> \notin StrictSubsetOrdering(S)
  <2>1. IsWellFoundedOn(StrictSubsetOrdering(S), FiniteSubsetsOf(S))
    BY FS_StrictSubsetOrderingWellFounded
  <2> HIDE DEF Bad
  <2>2. Bad # {} /\ Bad \subseteq FiniteSubsetsOf(S)
    BY <1>2
  <2>3. \E T \in Bad : \A U \in Bad : ~(<<U, T>> \in StrictSubsetOrdering(S))
    BY <2>1, <2>2, WFMin, Zenon
  <2> QED
    BY <2>3
<1>4. T \subseteq S /\ IsFiniteSet(T) /\ T # {} /\ ~Topped(T)
  BY <1>3 DEF FiniteSubsetsOf
<1>5. PICK x : x \in T
  BY <1>4
<1>6. T \ {x} # {}
  <2>1. SUFFICES ASSUME T = {x} PROVE FALSE
    BY <1>5
  <2>2. x \in Nat
    BY <1>4, <1>5
  <2> QED
    BY <1>4, <1>5, <2>1, <2>2
<1>7. Topped(T \ {x})
  <2>1. IsFiniteSet(T \ {x}) /\ T \ {x} \subseteq S /\ T \ {x} \subseteq T /\ T \ {x} # T
    BY <1>4, <1>5, FS_Subset
  <2>2. <<T \ {x}, T>> \in StrictSubsetOrdering(S)
    BY <1>4, <2>1 DEF StrictSubsetOrdering
  <2>3. T \ {x} \notin Bad
    BY <1>3, <2>2, Zenon
  <2> QED
    BY <1>6, <2>1, <2>3 DEF FiniteSubsetsOf
<1>8. PICK n \in T \ {x} : \A m \in T \ {x} : n >= m
  BY <1>7
<1>9. n \in Nat /\ x \in Nat /\ \A m \in T : m \in Nat
  BY <1>4, <1>5
<1>10. CASE n >= x
  BY <1>4, <1>8, <1>9, <1>10
<1>11. CASE x > n
  <2>1. \A m \in T : x >= m
    BY <1>8, <1>9, <1>11
  <2> QED
    BY <1>4, <1>5, <2>1
<1> QED
  BY <1>9, <1>10, <1>11

\* NextAvailableID makes an id of a finite set of ids, and a new one.
LEMMA NextAvailableIDIsNew ==
  ASSUME NEW p, IsFiniteSet(DOMAIN p.tasks), DOMAIN p.tasks \subseteq Ids
  PROVE  NextAvailableID(p) \in Ids \ DOMAIN p.tasks
<1> DEFINE heads == {id[1] : id \in DOMAIN p.tasks}
           all == {0} \cup heads
<1>1. heads \subseteq Nat
  BY DEF Ids
<1>2. IsFiniteSet(heads)
  <2> DEFINE Tasks == DOMAIN p.tasks
             head == [id \in Tasks |-> id[1]]
  <2>1. head \in [Tasks -> heads] /\ IsFiniteSet(Tasks)
    OBVIOUS
  <2>2. \A y \in heads : \E x \in Tasks : head[x] = y
    OBVIOUS
  <2> HIDE DEF heads, Tasks, head
  <2>3. head \in Surjection(Tasks, heads)
    BY <2>1, <2>2 DEF Surjection
  <2> QED
    BY <2>1, <2>3, FS_Surjection
<1>3. IsFiniteSet(all) /\ all # {} /\ all \subseteq Nat
  BY <1>1, <1>2, FS_AddElement
<1>4. PICK n \in all : \A m \in all : n >= m
  <2> HIDE DEF all
  <2> QED
    BY <1>3, LargestExists
<1> DEFINE max == CHOOSE top \in all : \A m \in all : top >= m
<1>5. max \in all /\ \A m \in all : max >= m
  <2> HIDE DEF all
  <2> QED
    BY <1>4
<1>6. NextAvailableID(p) = <<1 + max, 0>>
  BY DEF NextAvailableID
<1>7. max \in Nat
  BY <1>3, <1>5
<1>8. <<1 + max, 0>> \in Ids
  BY <1>7 DEF Ids
<1>9. \A id \in DOMAIN p.tasks : max >= id[1] /\ id[1] \in Nat
  BY <1>1, <1>5
<1> HIDE DEF max
<1>10. <<1 + max, 0>> \notin DOMAIN p.tasks
  BY <1>7, <1>9
<1> QED
  BY <1>6, <1>8, <1>10

\* So the ids of a document stay ids, whatever a command adds.
LEMMA MutatedIds ==
  ASSUME NEW p, IsDocument(p), DOMAIN p.tasks \subseteq Ids,
         NEW cmd, Accepts(p, cmd), cmd.id \in Ids
  PROVE  DOMAIN Mutated(p, cmd).tasks \subseteq Ids
<1>1. TargetID(p, cmd) \in Ids
  BY NextAvailableIDIsNew DEF TargetID, IsDocument
<1> QED
  BY <1>1, MutatedTouchesTarget

-----------------------------------------------------------------------------
(* The next task.                                                          *)

LEMMA DigitsType ==
  ASSUME NEW n \in Nat
  PROVE  Digits(n) \in Seq(Int)
<1>1. n \div 10 \in Int /\ n % 10 \in Int
  OBVIOUS
<1> QED
  BY <1>1 DEF Digits

LEMMA IdKeyType ==
  ASSUME NEW id \in Ids
  PROVE  IdKey(id) \in Seq(Int)
<1>1. id[1] \in Nat /\ id[2] \in Nat
  BY DEF Ids
<1>2. Digits(id[1]) \in Seq(Int) /\ Digits(id[2]) \in Seq(Int) /\ <<-1>> \in Seq(Int) /\ <<>> \in Seq(Int)
  <2>1. Digits(id[1]) \in Seq(Int) /\ Digits(id[2]) \in Seq(Int)
    BY <1>1, DigitsType
  <2>2. <<-1>> \in Seq(Int) /\ <<>> \in Seq(Int)
    OBVIOUS
  <2> QED
    BY <2>1, <2>2
<1>3. (IF id[2] = 0 THEN <<>> ELSE <<-1>> \o Digits(id[2])) \in Seq(Int)
  BY <1>2
<1> QED
  BY <1>2, <1>3 DEF IdKey

\* Strings compare one way only.
LEMMA BeforeIsAsymmetric ==
  ASSUME NEW s \in Seq(Int), NEW t \in Seq(Int), StringBefore(s, t), StringBefore(t, s)
  PROVE  FALSE
<1>1. PICK k \in DOMAIN t :
        /\ \A j \in 1 .. k - 1 : s[j] = t[j]
        /\ k > Len(s) \/ s[k] < t[k]
  BY DEF StringBefore
<1>2. PICK m \in DOMAIN s :
        /\ \A j \in 1 .. m - 1 : t[j] = s[j]
        /\ m > Len(t) \/ t[m] < s[m]
  BY DEF StringBefore
<1>3. /\ k \in 1 .. Len(t) /\ m \in 1 .. Len(s) /\ Len(s) \in Nat /\ Len(t) \in Nat
      /\ \A j \in 1 .. Len(s) : s[j] \in Int
      /\ \A j \in 1 .. Len(t) : t[j] \in Int
  OBVIOUS
<1>4. CASE k < m
  <2>1. k \in 1 .. m - 1 /\ k \in 1 .. Len(s) /\ ~(k > Len(s))
    BY <1>3, <1>4
  <2>2. t[k] = s[k]
    BY <1>2, <2>1
  <2>3. s[k] < t[k] /\ s[k] \in Int
    BY <1>1, <1>3, <2>1
  <2> QED
    BY <2>2, <2>3
<1>5. CASE m < k
  <2>1. m \in 1 .. k - 1 /\ m \in 1 .. Len(t) /\ ~(m > Len(t))
    BY <1>3, <1>5
  <2>2. s[m] = t[m]
    BY <1>1, <2>1
  <2>3. t[m] < s[m] /\ t[m] \in Int
    BY <1>2, <1>3, <2>1
  <2> QED
    BY <2>2, <2>3
<1>6. CASE k = m
  BY <1>1, <1>2, <1>3, <1>6
<1> QED
  BY <1>3, <1>4, <1>5, <1>6

\* GetNextTask hands out at most one task, and one that is pending.
LEMMA NextTaskIsOne ==
  ASSUME NEW p, DOMAIN p.tasks \subseteq Ids
  PROVE  /\ GetNextTask(p) \subseteq WithStatus(p, "pending")
         /\ Cardinality(GetNextTask(p)) <= 1
<1>1. GetNextTask(p) \subseteq WithStatus(p, "pending") /\ WithStatus(p, "pending") \subseteq Ids
  BY DEF GetNextTask, AvailableTasks, WithStatus
<1>2. ASSUME NEW a \in GetNextTask(p), NEW b \in GetNextTask(p), a # b
      PROVE  FALSE
  <2>1. RunsBefore(p, a, b) /\ RunsBefore(p, b, a)
    BY <1>2 DEF GetNextTask
  <2>2. PriorityRank(p.tasks[a].prio) \in Int /\ PriorityRank(p.tasks[b].prio) \in Int
    BY DEF PriorityRank
  <2>3. StringBefore(IdKey(a), IdKey(b)) /\ StringBefore(IdKey(b), IdKey(a))
    BY <2>1, <2>2 DEF RunsBefore
  <2> QED
    BY <1>1, <2>3, IdKeyType, BeforeIsAsymmetric
<1>3. CASE GetNextTask(p) = {}
  BY <1>1, <1>3, FS_EmptySet
<1>4. ASSUME NEW a \in GetNextTask(p) PROVE Cardinality(GetNextTask(p)) <= 1
  <2>1. GetNextTask(p) = {a}
    BY <1>2, <1>4
  <2>2. Cardinality({a}) = 1
    BY FS_Singleton, Zenon
  <2>3. Cardinality(GetNextTask(p)) = 1
    BY <2>1, <2>2, Zenon
  <2> QED
    BY <2>3
<1> QED
  BY <1>1, <1>3, <1>4
=============================================================================
