------------------------------ MODULE PrdStore ------------------------------
(***************************************************************************)
(* prd.toon on disk and every process that writes it, one system call per   *)
(* step.                                                                   *)
(*                                                                         *)
(* A client is one `samuel run done|skip|reset|enqueue|task add`: mutate in *)
(* src/internal/commands/run_mutations.go.  It takes the project's flock   *)
(* without waiting, loads, applies, saves, and releases.  A saver takes no *)
(* lock: recordIterationProgress of the loop, `run init`, `run convert` and  *)
(* `run pilot`.                                                            *)
(*                                                                         *)
(* AutoPRD.Save writes prd.toon.tmp, a name all writers share, and renames *)
(* it.  Names and inodes are kept apart, because a process that opened the *)
(* temporary file keeps writing to the inode after another one renamed it. *)
(* A process opens the file at most once, so the inode it creates is named *)
(* after it.  The content of an inode is the sequence of documents whose   *)
(* bytes it holds: <<>> just after O_TRUNC, <<d>> after a whole write, and *)
(* more than one where two writers overlapped; only <<d>> parses.          *)
(***************************************************************************)
EXTENDS PrdModel, Sequences

CONSTANTS
  Clients, Savers, Job,
  NewQueue,       \* NewQueue[s]: the document an init makes, with the tasks of a PRD or none
  Requests,       \* the assignments of a command to every client
  After,          \* After[p]: the processes that have exited before p is started
  InitialQueues,  \* <<doc>> for a project with a queue, <<>> for one without
  Nobody,         \* the lock's holder when it is free
  NoFile,         \* the target of a name that does not exist
  Original        \* the inode of the prd.toon the project starts with

Procs == Clients \cup Savers
Inodes == Procs \cup {Original}

ASSUME ProcsAssumption ==
  /\ Clients \cap Savers = {}
  /\ Nobody \notin Clients
  /\ Original \notin Procs
  /\ NoFile \notin Inodes

ASSUME ConfigAssumption ==
  /\ Job \in [Savers -> {"record", "init", "pilot"}]
  /\ \A s \in Savers : Job[s] = "init" => IsDocument(NewQueue[s])
  /\ After \in [Procs -> SUBSET Procs]
  /\ \A q \in InitialQueues : q = <<>> \/ (q = <<q[1]>> /\ IsDocument(q[1]))

\* No saver is started while another process runs, nor the other way round: the order in
\* which the loop and its agents use the store, when nobody else does.
Serialised == \A s \in Savers : \A p \in Procs \ {s} : s \in After[p] \/ p \in After[s]

\* A new queue is made before any command about it: `run init` and `run convert` replace
\* the tasks of the old one, and nobody means them to survive.
NewQueueFirst == \A s \in Savers : Job[s] = "init" => \A c \in Clients : s \in After[c]

VARIABLES
  lock,    \* the holder of <project>/.samuel/lock
  path,    \* the inode named prd.toon
  tmp,     \* the inode named prd.toon.tmp
  data,    \* the content of every inode
  fd,      \* the inode each process has open for writing
  pc,      \* where each process is
  buf,     \* the document each process is about to save
  result,  \* what each process reports when it exits
  taskId,  \* the task id a command is about, as it reports it
  cmd      \* the command of each client

vars == <<lock, path, tmp, data, fd, pc, buf, result, taskId, cmd>>

Init ==
  /\ \E q \in InitialQueues :
       /\ path = IF q = <<>> THEN NoFile ELSE Original
       /\ data = [i \in Inodes |-> IF i = Original THEN q ELSE <<>>]
  /\ lock = Nobody
  /\ tmp = NoFile
  /\ fd = [p \in Procs |-> NoFile]
  /\ pc = [p \in Procs |-> "start"]
  /\ buf = [p \in Procs |-> NewAutoPRD]
  /\ result = [p \in Procs |-> "none"]
  /\ taskId = [c \in Clients |-> <<0, 0>>]
  /\ cmd \in Requests

Ended(p) == pc[p] \in {"ended", "crashed"}
Started(p) == \A q \in After[p] : Ended(q)

Content(name) == IF name = NoFile THEN <<>> ELSE data[name]
Parses(content) == Len(content) = 1
Doc == Content(path)[1]

Goto(p, label) == pc' = [pc EXCEPT ![p] = label]
Report(p, r) == result' = [result EXCEPT ![p] = r]

\* WriteFile closes the file whether or not the write succeeded, and so does the end of
\* the process; the document it was to hold is done with.
Close(p) ==
  /\ fd' = [fd EXCEPT ![p] = NoFile]
  /\ buf' = [buf EXCEPT ![p] = NewAutoPRD]

\* Where a process goes once Save has returned: deferred release, or exit.
AfterSave(p) == IF p \in Clients THEN "release" ELSE "ended"
-----------------------------------------------------------------------------
(* mutate                                                                  *)

\* Mutant: the lock file is opened but its lock is not looked at.
AcquireBlindly(c) ==
  /\ pc[c] = "start" /\ Started(c)
  /\ lock' = c /\ Goto(c, "load")
  /\ UNCHANGED <<path, tmp, data, fd, buf, result, taskId, cmd>>

\* LOCK_EX|LOCK_NB: a busy lock is an error, not a wait.
Acquire(c) ==
  /\ pc[c] = "start" /\ Started(c)
  /\ IF lock = Nobody
     THEN lock' = c /\ Goto(c, "load") /\ UNCHANGED result
     ELSE UNCHANGED lock /\ Goto(c, "ended") /\ Report(c, "busy")
  /\ UNCHANGED <<path, tmp, data, fd, buf, taskId, cmd>>

\* Mutant: an early return before the release is deferred.
LoadKeepsLock(c) ==
  /\ pc[c] = "load"
  /\ IF Parses(Content(path)) /\ Accepts(Doc, cmd[c])
     THEN /\ buf' = [buf EXCEPT ![c] = Mutated(Doc, cmd[c])]
          /\ taskId' = [taskId EXCEPT ![c] = TargetID(Doc, cmd[c])]
          /\ Goto(c, "create")
          /\ UNCHANGED result
     ELSE /\ Goto(c, "ended")
          /\ Report(c, "error")
          /\ UNCHANGED <<buf, taskId>>
  /\ UNCHANGED <<lock, path, tmp, data, fd, cmd>>

\* Mutant: a command that cannot be applied yet is tried again.
LoadRetries(c) ==
  /\ pc[c] = "load"
  /\ Parses(Content(path)) /\ Accepts(Doc, cmd[c])
  /\ buf' = [buf EXCEPT ![c] = Mutated(Doc, cmd[c])]
  /\ taskId' = [taskId EXCEPT ![c] = TargetID(Doc, cmd[c])]
  /\ Goto(c, "create")
  /\ UNCHANGED <<lock, path, tmp, data, fd, result, cmd>>

\* prd.Load and fn(p): either may fail, and then mutate returns at once.
Load(c) ==
  /\ pc[c] = "load"
  /\ IF Parses(Content(path)) /\ Accepts(Doc, cmd[c])
     THEN /\ buf' = [buf EXCEPT ![c] = Mutated(Doc, cmd[c])]
          /\ taskId' = [taskId EXCEPT ![c] = TargetID(Doc, cmd[c])]
          /\ Goto(c, "create")
          /\ UNCHANGED result
     ELSE /\ Goto(c, "release")
          /\ Report(c, "error")
          /\ UNCHANGED <<buf, taskId>>
  /\ UNCHANGED <<lock, path, tmp, data, fd, cmd>>

\* The deferred release: LOCK_UN and close; the lock file itself stays.
Release(c) ==
  /\ pc[c] = "release"
  /\ lock' = Nobody
  /\ Goto(c, "ended")
  /\ UNCHANGED <<path, tmp, data, fd, buf, result, taskId, cmd>>
-----------------------------------------------------------------------------
(* The writers that take no lock.                                          *)

\* recordIterationProgress: a queue it cannot read is left for the next iteration.
RecordIteration(s) ==
  /\ pc[s] = "start" /\ Started(s)
  /\ Job[s] = "record"
  /\ IF Parses(Content(path))
     THEN /\ buf' = [buf EXCEPT ![s] = Recorded(Doc, 1, "implementation")]
          /\ Goto(s, "create")
          /\ UNCHANGED result
     ELSE Goto(s, "ended") /\ Report(s, "error") /\ UNCHANGED buf
  /\ UNCHANGED <<lock, path, tmp, data, fd, taskId, cmd>>

\* run init and run convert never look whether prd.toon exists.
RunInit(s) ==
  /\ pc[s] = "start" /\ Started(s)
  /\ Job[s] = "init"
  /\ buf' = [buf EXCEPT ![s] = NewQueue[s]]
  /\ Goto(s, "create")
  /\ UNCHANGED <<lock, path, tmp, data, fd, result, taskId, cmd>>

\* Mutant: run pilot does not look.
RunPilotOverwrites(s) ==
  /\ pc[s] = "start" /\ Started(s)
  /\ Job[s] = "pilot"
  /\ buf' = [buf EXCEPT ![s] = FreshPRD]
  /\ Goto(s, "create")
  /\ UNCHANGED <<lock, path, tmp, data, fd, result, taskId, cmd>>

\* run pilot looks first, and saves only where it found nothing.
RunPilot(s) ==
  /\ pc[s] = "start" /\ Started(s)
  /\ Job[s] = "pilot"
  /\ IF path = NoFile
     THEN /\ buf' = [buf EXCEPT ![s] = FreshPRD]
          /\ Goto(s, "create")
          /\ UNCHANGED result
     ELSE Goto(s, "ended") /\ Report(s, "kept") /\ UNCHANGED buf
  /\ UNCHANGED <<lock, path, tmp, data, fd, taskId, cmd>>
-----------------------------------------------------------------------------
(* AutoPRD.Save: os.WriteFile(tmp), os.Rename(tmp, path), os.Remove(tmp).   *)

\* open(O_CREATE|O_TRUNC)
CreateTmp(p) ==
  /\ pc[p] = "create"
  /\ LET inode == IF tmp = NoFile THEN p ELSE tmp
     IN  /\ tmp' = inode
         /\ data' = [data EXCEPT ![inode] = <<>>]
         /\ fd' = [fd EXCEPT ![p] = inode]
  /\ Goto(p, "write")
  /\ UNCHANGED <<lock, path, buf, result, taskId, cmd>>

\* Bytes another process put into the same inode show through when they are longer.
Overlapped(p) == IF data[fd[p]] = <<>> THEN {} ELSE {<<buf[p]>> \o data[fd[p]]}

WriteTmp(p) ==
  /\ pc[p] = "write"
  /\ \E content \in {<<buf[p]>>} \cup Overlapped(p) :
       data' = [data EXCEPT ![fd[p]] = content]
  /\ Close(p)
  /\ Goto(p, "rename")
  /\ UNCHANGED <<lock, path, tmp, result, taskId, cmd>>

\* Mutant: the error of the write is dropped.
WriteFailsUnseen(p) ==
  /\ pc[p] = "write"
  /\ data' = [data EXCEPT ![fd[p]] = <<>>]
  /\ Close(p)
  /\ Goto(p, "rename")
  /\ UNCHANGED <<lock, path, tmp, result, taskId, cmd>>

\* A short write leaves the temporary file behind, unparsable.
WriteFails(p) ==
  /\ pc[p] = "write"
  /\ \E content \in {data[fd[p]]} \cup Overlapped(p) :
       data' = [data EXCEPT ![fd[p]] = content]
  /\ Close(p)
  /\ Goto(p, AfterSave(p))
  /\ Report(p, "error")
  /\ UNCHANGED <<lock, path, tmp, taskId, cmd>>

\* rename(2) acts on the name: it publishes whatever inode the name holds by now.  The
\* replaced inode has no name left and its content is forgotten.
RenameTmp(p) ==
  /\ pc[p] = "rename"
  /\ tmp # NoFile
  /\ path' = tmp
  /\ data' = [i \in Inodes |-> IF i = path THEN <<>> ELSE data[i]]
  /\ tmp' = NoFile
  /\ Goto(p, AfterSave(p))
  /\ Report(p, "ok")
  /\ UNCHANGED <<lock, fd, buf, taskId, cmd>>

\* The name is gone, renamed by another writer, or the file system refuses.
RenameFails(p) ==
  /\ pc[p] = "rename"
  /\ Goto(p, "remove")
  /\ UNCHANGED <<lock, path, tmp, data, fd, buf, result, taskId, cmd>>

\* The clean-up of a failed rename removes the name, whoever has recreated it.
RemoveTmp(p) ==
  /\ pc[p] = "remove"
  /\ tmp' = NoFile
  /\ data' = [i \in Inodes |-> IF i = tmp THEN <<>> ELSE data[i]]
  /\ Goto(p, AfterSave(p))
  /\ Report(p, "error")
  /\ UNCHANGED <<lock, path, fd, buf, taskId, cmd>>
-----------------------------------------------------------------------------
\* A kill at any point.  The kernel closes the descriptors and drops the flock.
Crash(p) ==
  /\ pc[p] \notin {"start", "ended", "crashed"}
  /\ Goto(p, "crashed")
  /\ lock' = IF lock = p THEN Nobody ELSE lock
  /\ Close(p)
  /\ UNCHANGED <<path, tmp, data, result, taskId, cmd>>

Save(p) ==
  \/ CreateTmp(p) \/ WriteTmp(p) \/ WriteFails(p)
  \/ RenameTmp(p) \/ RenameFails(p) \/ RemoveTmp(p)
Client(c) == Acquire(c) \/ Load(c) \/ Save(c) \/ Release(c)
Saver(s) == RecordIteration(s) \/ RunInit(s) \/ RunPilot(s) \/ Save(s)

Next ==
  \/ \E c \in Clients : Client(c)
  \/ \E s \in Savers : Saver(s)
  \/ \E p \in Procs : Crash(p)

Spec == Init /\ [][Next]_vars

\* A started command keeps running until it exits; nobody promises it is not killed.
Fairness ==
  /\ \A c \in Clients : WF_vars(Client(c))
  /\ \A s \in Savers : WF_vars(Saver(s))
FairSpec == Spec /\ Fairness
-----------------------------------------------------------------------------
(* Properties.                                                             *)

Labels == {"start", "load", "create", "write", "rename", "remove", "release", "ended", "crashed"}

\* Every variable has its type; the rollup of a saved document is that of its tasks.
TypeOK ==
  /\ lock \in Clients \cup {Nobody}
  /\ path \in Inodes \cup {NoFile}
  /\ tmp \in Inodes \cup {NoFile}
  /\ fd \in [Procs -> Inodes \cup {NoFile}]
  /\ pc \in [Procs -> Labels]
  /\ result \in [Procs -> {"none", "ok", "kept", "error", "busy"}]
  /\ cmd \in Requests
  /\ Parses(Content(path)) => IsDocument(Doc)

Inside(c) == pc[c] \in Labels \ {"start", "ended", "crashed"}

\* Between flock and release no two commands run, whoever crashed before
\* (acquireFileLock's "Flock provides the exclusion guarantee").
MutualExclusion ==
  \A c, d \in Clients : Inside(c) /\ Inside(d) => c = d

\* Whatever process died wherever, prd.toon is absent or one whole document: what Save's
\* write-tmp-then-rename is for ("writes prd.toon atomically").
PathWhole == path # NoFile => Parses(data[path])

Touches(d, id) == cmd[d].kind \in {"done", "skip", "reset"} /\ cmd[d].id = id

\* A `done` that reported success stays done until a command about the same task, or a
\* new queue, takes it back: no other writer's save reverts it ("so a concurrent
\* `samuel run start` can't race the agent's `samuel run done` call").
AckedDoneSurvives ==
  \A c \in Clients :
    /\ result[c] = "ok" /\ cmd[c].kind = "done"
    /\ \A d \in Clients \ {c} : Touches(d, cmd[c].id) => result[d] # "ok"
    => /\ Parses(Content(path))
       /\ cmd[c].id \in DOMAIN Doc.tasks
       /\ Doc.tasks[cmd[c].id].status = "completed"
       /\ Doc.tasks[cmd[c].id].stamp = cmd[c].stamp

Adds(c) == cmd[c].kind \in {"enqueue", "add"} /\ result[c] = "ok"

\* Commands that reported a new task never report the same id twice, and every task
\* they reported is in the queue: the id NextAvailableID picked is still free at the save.
AckedTasksDistinct ==
  \A c \in Clients : Adds(c) =>
    /\ \A d \in Clients \ {c} : Adds(d) => taskId[c] # taskId[d]
    /\ Parses(Content(path)) /\ taskId[c] \in DOMAIN Doc.tasks

\* No exit leaves the lock held: not an error return, not a crash.
NoLockLeak == (\A c \in Clients : Ended(c)) => lock = Nobody

\* The files implement the abstract queue: a save takes effect when it is renamed.
Queue == INSTANCE PrdQueue WITH
  queue <- Content(path),
  answer <- [p \in Procs |->
               CASE result[p] = "none" -> "open"
                 [] result[p] = "ok" -> "applied"
                 [] OTHER -> "refused"]
ImplementsQueue == Queue!Spec

\* Nobody waits for anybody: the lock is tried, not awaited, so every command exits.
EveryWriterEnds == \A p \in Procs : <>Ended(p)
=============================================================================
