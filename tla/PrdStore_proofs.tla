-------------------------- MODULE PrdStore_proofs --------------------------
(***************************************************************************)
(* What holds of PrdStore for every number of commands and savers.         *)
(*                                                                         *)
(* The lock alone gives mutual exclusion of the commands and is never      *)
(* leaked (Discipline).  The rest holds when the savers, which take no     *)
(* lock, are ordered with the other processes by their callers             *)
(* (Serialised): then at most one process is in the store at a time        *)
(* (Alone), the document it is about to publish is the one the queue       *)
(* demands (StoreInv), and PrdStore implements PrdQueue.  Where moreover a *)
(* new queue is made before any command works on it (NewQueueFirst), what  *)
(* commands have reported stays in the published document (AckInv).        *)
(***************************************************************************)
EXTENDS PrdStore, PrdModel_proofs, TLAPS

Running(p) == pc[p] \notin {"start", "ended", "crashed"}

-----------------------------------------------------------------------------
(* The lock and the order of the processes.                                *)

LockInv ==
  /\ lock \in Clients \cup {Nobody}
  /\ pc \in [Procs -> Labels]
  /\ \A c \in Clients : Running(c) <=> lock = c

OrderInv ==
  \A p \in Procs : pc[p] # "start" => \A q \in After[p] : Ended(q)

Discipline == LockInv /\ OrderInv

Alone == \A p, q \in Procs : Running(p) /\ Running(q) => p = q

-----------------------------------------------------------------------------
(* The files.                                                              *)

\* When the queue allows what process p is about to do, and what it then becomes.
Justified(p) ==
  IF p \in Clients THEN Parses(Content(path)) /\ Accepts(Doc, cmd[p])
  ELSE CASE Job[p] = "record" -> Parses(Content(path))
         [] Job[p] = "pilot" -> path = NoFile
         [] OTHER -> TRUE

Intended(p) ==
  IF p \in Clients THEN Mutated(Doc, cmd[p])
  ELSE CASE Job[p] = "record" -> Recorded(Doc, 1, "implementation")
         [] Job[p] = "pilot" -> FreshPRD
         [] OTHER -> NewQueue[p]

NamesInv ==
  /\ path \in Inodes \cup {NoFile}
  /\ tmp \in Inodes \cup {NoFile}
  /\ tmp # NoFile => tmp # path
  /\ \A p \in Procs : pc[p] \in {"start", "load", "create"} => path # p /\ tmp # p

FilesInv ==
  /\ DOMAIN data = Inodes
  /\ fd \in [Procs -> Inodes \cup {NoFile}]
  /\ DOMAIN buf = Procs
  /\ cmd \in Requests
  /\ result \in [Procs -> {"none", "ok", "kept", "error", "busy"}]
  /\ path # NoFile => data[path] = <<data[path][1]>> /\ IsDocument(data[path][1])
  /\ \A p \in Procs : pc[p] \in {"start", "load", "create", "write", "rename", "remove"} => result[p] = "none"

\* The document of the only running process, from its load to its rename.
SaveInv(p) ==
  /\ pc[p] \in {"create", "write"} => Justified(p) /\ buf[p] = Intended(p)
  /\ pc[p] = "write" => tmp # NoFile /\ fd[p] = tmp /\ data[tmp] = <<>>
  /\ pc[p] = "rename" => tmp # NoFile /\ Justified(p) /\ data[tmp] = <<Intended(p)>>
  /\ p \in Savers => pc[p] \notin {"load", "release"}

StoreInv == NamesInv /\ FilesInv /\ \A p \in Procs : SaveInv(p)

-----------------------------------------------------------------------------
(* Discipline.                                                             *)

LEMMA InitDiscipline == Init => Discipline
  BY ProcsAssumption DEF Init, Discipline, LockInv, OrderInv, Running, Labels, Procs

\* A process that has ended stays ended.
LEMMA EndedIsStable ==
  ASSUME LockInv, [Next]_vars, NEW q \in Procs, Ended(q)
  PROVE  Ended(q)'
  BY DEF LockInv, Next, vars, Client, Saver, Save, Acquire, Load, Release, RecordIteration,
     RunInit, RunPilot, CreateTmp, WriteTmp, WriteFails, RenameTmp, RenameFails, RemoveTmp,
     Crash, Goto, AfterSave, Ended, Procs

\* Only flock, release and crash touch the lock, and they keep it with its holder.
LEMMA StepLock ==
  ASSUME LockInv, [Next]_vars
  PROVE  LockInv'
<1> USE ProcsAssumption DEF LockInv, Running, Labels, Goto, Procs
<1>1. ASSUME NEW c \in Clients, Acquire(c) PROVE LockInv'
  BY <1>1 DEF Acquire
<1>2. ASSUME NEW c \in Clients, Load(c) PROVE LockInv'
  BY <1>2 DEF Load
<1>3. ASSUME NEW c \in Clients, Release(c) PROVE LockInv'
  BY <1>3 DEF Release
<1>4. ASSUME NEW p \in Procs, Save(p) PROVE LockInv'
  BY <1>4 DEF Save, CreateTmp, WriteTmp, WriteFails, RenameTmp, RenameFails,
     RemoveTmp, AfterSave
<1>5. ASSUME NEW s \in Savers, RecordIteration(s) \/ RunInit(s) \/ RunPilot(s) PROVE LockInv'
  BY <1>5 DEF RecordIteration, RunInit, RunPilot
<1>6. ASSUME NEW p \in Procs, Crash(p) PROVE LockInv'
  BY <1>6 DEF Crash
<1>7. CASE UNCHANGED vars
  BY <1>7 DEF vars
<1>8. QED
  BY <1>1, <1>2, <1>3, <1>4, <1>5, <1>6, <1>7 DEF Next, Client, Saver

\* A process that leaves "start" finds every process it comes after ended.
LEMMA StepOrder ==
  ASSUME Discipline, [Next]_vars
  PROVE  OrderInv'
<1> SUFFICES ASSUME NEW p \in Procs, pc'[p] # "start", NEW q \in After[p]
             PROVE  Ended(q)'
  BY DEF OrderInv
<1>1. q \in Procs
  BY ConfigAssumption
<1>2. CASE pc[p] # "start"
  <2>1. Ended(q)
    BY <1>2 DEF Discipline, OrderInv
  <2>2. QED
    BY <1>1, <2>1, EndedIsStable DEF Discipline
<1>3. CASE pc[p] = "start"
  <2>1. Started(p)
    BY <1>3 DEF Discipline, LockInv, Next, vars, Client, Saver, Save, Acquire, Load, Release,
       RecordIteration, RunInit, RunPilot, CreateTmp, WriteTmp, WriteFails, RenameTmp,
       RenameFails, RemoveTmp, Crash, Goto, Procs
  <2>2. Ended(q)
    BY <2>1 DEF Started
  <2>3. QED
    BY <1>1, <2>2, EndedIsStable DEF Discipline
<1>4. QED
  BY <1>2, <1>3

LEMMA StepDiscipline == Discipline /\ [Next]_vars => Discipline'
  BY StepLock, StepOrder DEF Discipline

THEOREM DisciplineHolds == Spec => []Discipline
<1>1. Init => Discipline
  BY InitDiscipline
<1>2. Discipline /\ [Next]_vars => Discipline'
  BY StepDiscipline
<1>3. QED
  BY <1>1, <1>2, PTL DEF Spec

\* No two commands are ever between flock and release, in whatever order processes are
\* started and wherever they are killed (acquireFileLock in lock_unix.go).
THEOREM MutualExclusionHolds == Spec => []MutualExclusion
<1>1. Discipline => MutualExclusion
  BY DEF Discipline, LockInv, Running, MutualExclusion, Inside, Labels
<1>2. QED
  BY <1>1, DisciplineHolds, PTL

\* When every command has exited or died the lock is free: no error path of mutate keeps it.
THEOREM NoLockLeakHolds == Spec => []NoLockLeak
<1>1. Discipline => NoLockLeak
  BY DEF Discipline, LockInv, Running, NoLockLeak, Ended
<1>2. QED
  BY <1>1, DisciplineHolds, PTL

-----------------------------------------------------------------------------
(* Serialised writers.                                                     *)

LEMMA DisciplineAlone == Serialised => (Discipline => Alone)
<1> SUFFICES ASSUME Serialised, Discipline, NEW p \in Procs, NEW q \in Procs,
                    Running(p), Running(q)
             PROVE  p = q
  BY DEF Alone
<1>1. CASE p \in Clients /\ q \in Clients
  BY <1>1 DEF Discipline, LockInv
<1>2. ASSUME NEW s \in Savers, NEW r \in Procs \ {s}, Running(s), Running(r)
      PROVE  FALSE
  <2>1. s \in After[r] \/ r \in After[s]
    BY DEF Serialised
  <2>2. QED
    BY <1>2, <2>1 DEF Discipline, OrderInv, Running, Ended, Procs
<1>3. QED
  BY <1>1, <1>2 DEF Procs

\* A process that is not running owes the store nothing.
LEMMA IdleSave ==
  ASSUME NEW p \in Procs, pc[p] \in Labels, ~Running(p)
  PROVE  SaveInv(p)
  BY DEF SaveInv, Running

LEMMA IdleSaveNext ==
  ASSUME NEW p \in Procs, pc'[p] \in Labels, ~Running(p)'
  PROVE  SaveInv(p)'
  BY DEF SaveInv, Running

\* What is justified and intended depends on the published document only.
LEMMA SameContent ==
  ASSUME path' = path, path # NoFile => data'[path] = data[path], cmd' = cmd
  PROVE  /\ Content(path)' = Content(path)
         /\ \A p : (Justified(p)' <=> Justified(p)) /\ Intended(p)' = Intended(p)
<1>1. Content(path)' = Content(path)
  BY DEF Content
<1>2. Doc' = Doc
  BY <1>1 DEF Doc
<1>3. \A p : Justified(p)' <=> Justified(p)
  BY <1>1, <1>2 DEF Justified
<1>4. \A p : Intended(p)' = Intended(p)
  BY <1>2 DEF Intended
<1>5. QED
  BY <1>1, <1>3, <1>4

\* A whole prd.toon reads as its document.
LEMMA PublishedDocument ==
  ASSUME FilesInv
  PROVE  /\ Parses(Content(path)) <=> path # NoFile
         /\ path # NoFile => Content(path) = <<Doc>> /\ IsDocument(Doc)
<1>1. ASSUME NEW d PROVE Len(<<d>>) = 1
  OBVIOUS
<1>2. CASE path = NoFile
  BY <1>2 DEF Content, Parses
<1>3. CASE path # NoFile
  <2>1. Content(path) = data[path] /\ Doc = data[path][1]
    BY <1>3 DEF Content, Doc
  <2>2. data[path] = <<data[path][1]>> /\ IsDocument(data[path][1])
    BY <1>3 DEF FilesInv
  <2>3. Parses(Content(path))
    BY <1>1, <2>1, <2>2 DEF Parses
  <2>4. QED
    BY <1>3, <2>1, <2>2, <2>3
<1>4. QED
  BY <1>2, <1>3

LEMMA InitStore == Init => StoreInv
<1> SUFFICES ASSUME Init PROVE StoreInv
  OBVIOUS
<1>1. NamesInv
  BY ProcsAssumption DEF Init, NamesInv, Inodes, Procs
<1>2. FilesInv
  <2>1. PICK q \in InitialQueues :
          /\ path = IF q = <<>> THEN NoFile ELSE Original
          /\ data = [i \in Inodes |-> IF i = Original THEN q ELSE <<>>]
    BY DEF Init
  <2>2. path # NoFile => data[path] = q
    BY <2>1 DEF Inodes
  <2>3. q # <<>> => q = <<q[1]>> /\ IsDocument(q[1])
    BY ConfigAssumption
  <2>4. path # NoFile => data[path] = <<data[path][1]>> /\ IsDocument(data[path][1])
    BY <2>1, <2>2, <2>3
  <2>5. QED
    BY <2>1, <2>4 DEF Init, FilesInv
<1>3. \A p \in Procs : SaveInv(p)
  BY IdleSave DEF Init, Running, Labels
<1>4. QED
  BY <1>1, <1>2, <1>3 DEF StoreInv

-----------------------------------------------------------------------------
(* One lemma per step of the code.                                         *)

\* While one process runs, and after a step that started one, all others are idle.
LEMMA OthersIdle ==
  ASSUME LockInv, Alone, Alone', NEW p \in Procs, NEW l, Goto(p, l),
         Running(p) \/ Running(p)',
         NEW q \in Procs, q # p
  PROVE  ~Running(q)' /\ pc'[q] \in Labels
  BY DEF LockInv, Alone, Running, Goto

\* What the steps that touch no file have in common: the published document stays, and so
\* does everybody's obligation but that of the process that moves.
LEMMA StepFilesKept ==
  ASSUME LockInv, StoreInv, NEW p \in Procs, NEW l \in Labels, Goto(p, l),
         UNCHANGED <<path, tmp, data, fd, cmd>>,
         \A q \in Procs \ {p} : buf'[q] = buf[q],
         DOMAIN buf' = Procs,
         result' = result \/ (\E r \in {"kept", "error", "busy"} : Report(p, r)),
         l \in {"load", "create"} => pc[p] \in {"start", "load"},
         l = "remove" => pc[p] = "rename",
         l # "start",
         l \in {"load", "create", "remove"} => result' = result,
         l \notin {"write", "rename"},
         SaveInv(p)'
  PROVE  StoreInv'
<1>1. NamesInv'
  BY DEF StoreInv, NamesInv, LockInv, Goto
<1>2. FilesInv'
  BY DEF StoreInv, FilesInv, LockInv, Goto, Report
<1>3. ASSUME NEW q \in Procs, q # p PROVE SaveInv(q)'
  <2>1. (Justified(q)' <=> Justified(q)) /\ Intended(q)' = Intended(q)
    BY SameContent
  <2>2. SaveInv(q) /\ buf'[q] = buf[q] /\ pc'[q] = pc[q]
    BY <1>3 DEF StoreInv, LockInv, Goto
  <2>3. QED
    BY <2>1, <2>2 DEF SaveInv
<1>4. QED
  BY <1>1, <1>2, <1>3 DEF StoreInv

LEMMA StepAcquire ==
  ASSUME LockInv, StoreInv, NEW c \in Clients, Acquire(c)
  PROVE  StoreInv'
<1>1. c \in Procs /\ c \notin Savers
  BY ProcsAssumption DEF Procs
<1>2. PICK l \in {"load", "ended"} : Goto(c, l)
  BY DEF Acquire
<1>3. SaveInv(c)'
  BY <1>1, <1>2 DEF SaveInv, Goto, LockInv
<1>4. DOMAIN buf = Procs
  BY DEF StoreInv, FilesInv
<1>5. QED
  BY <1>1, <1>2, <1>3, <1>4, StepFilesKept DEF Acquire, Labels, Goto, LockInv

LEMMA StepLoad ==
  ASSUME LockInv, StoreInv, NEW c \in Clients, Load(c)
  PROVE  StoreInv'
<1>1. c \in Procs /\ c \notin Savers
  BY ProcsAssumption DEF Procs
<1>2. DOMAIN buf = Procs
  BY DEF StoreInv, FilesInv
<1>3. (Justified(c)' <=> Justified(c)) /\ Intended(c)' = Intended(c)
  BY SameContent DEF Load
<1>4. CASE Parses(Content(path)) /\ Accepts(Doc, cmd[c])
  <2>1. Justified(c) /\ buf'[c] = Intended(c) /\ Goto(c, "create")
    BY <1>1, <1>2, <1>4 DEF Load, Justified, Intended
  <2>2. SaveInv(c)'
    BY <1>1, <1>3, <2>1 DEF SaveInv, Goto, LockInv
  <2>3. QED
    BY <1>1, <1>2, <1>4, <2>1, <2>2, StepFilesKept DEF Load, Labels
<1>5. CASE ~(Parses(Content(path)) /\ Accepts(Doc, cmd[c]))
  <2>1. SaveInv(c)'
    BY <1>1, <1>5 DEF Load, SaveInv, Goto, LockInv
  <2>2. QED
    BY <1>1, <1>2, <1>5, <2>1, StepFilesKept DEF Load, Labels
<1>6. QED
  BY <1>4, <1>5

LEMMA StepRelease ==
  ASSUME LockInv, StoreInv, NEW c \in Clients, Release(c)
  PROVE  StoreInv'
<1>1. c \in Procs
  BY DEF Procs
<1>2. SaveInv(c)' /\ DOMAIN buf = Procs
  BY <1>1 DEF Release, SaveInv, Goto, LockInv, StoreInv, FilesInv
<1>3. QED
  BY <1>1, <1>2, StepFilesKept DEF Release, Labels

LEMMA StepSaver ==
  ASSUME LockInv, StoreInv, NEW s \in Savers, RecordIteration(s) \/ RunInit(s) \/ RunPilot(s)
  PROVE  StoreInv'
<1>1. s \in Procs /\ s \notin Clients
  BY ProcsAssumption DEF Procs
<1>2. DOMAIN buf = Procs
  BY DEF StoreInv, FilesInv
<1>3. (Justified(s)' <=> Justified(s)) /\ Intended(s)' = Intended(s)
  BY SameContent DEF RecordIteration, RunInit, RunPilot
<1>4. CASE buf' = [buf EXCEPT ![s] = Intended(s)] /\ Justified(s) /\ Goto(s, "create")
           /\ UNCHANGED result
  <2>1. SaveInv(s)'
    BY <1>1, <1>2, <1>3, <1>4 DEF SaveInv, Goto, LockInv
  <2>2. pc[s] = "start" /\ UNCHANGED <<path, tmp, data, fd, cmd>>
    BY DEF RecordIteration, RunInit, RunPilot
  <2>3. QED
    BY <1>1, <1>2, <1>4, <2>1, <2>2, StepFilesKept DEF Labels
<1>5. CASE Goto(s, "ended") /\ UNCHANGED buf /\ (\E r \in {"kept", "error"} : Report(s, r))
  <2>1. SaveInv(s)'
    BY <1>1, <1>5 DEF SaveInv, Goto, LockInv
  <2>2. UNCHANGED <<path, tmp, data, fd, cmd>>
    BY DEF RecordIteration, RunInit, RunPilot
  <2>3. QED
    BY <1>1, <1>2, <1>5, <2>1, <2>2, StepFilesKept DEF Labels
<1>6. QED
  BY <1>1, <1>4, <1>5 DEF RecordIteration, RunInit, RunPilot, Justified, Intended

LEMMA StepCreateTmp ==
  ASSUME LockInv, Alone, Alone', StoreInv, NEW p \in Procs, CreateTmp(p)
  PROVE  StoreInv'
<1> DEFINE inode == IF tmp = NoFile THEN p ELSE tmp
<1>1. /\ tmp' = inode /\ data' = [data EXCEPT ![inode] = <<>>]
      /\ fd' = [fd EXCEPT ![p] = inode] /\ Goto(p, "write")
      /\ UNCHANGED <<path, buf, result, cmd>> /\ pc[p] = "create"
  BY DEF CreateTmp
<1>2. inode \in Inodes /\ inode # path /\ inode # NoFile
  BY <1>1, ProcsAssumption DEF StoreInv, NamesInv, Inodes
<1> HIDE DEF inode
<1>3. \A q \in Procs : q # p => ~Running(q)' /\ pc'[q] \in Labels
  BY <1>1, OthersIdle DEF Running
<1>4. NamesInv'
  <2>1. ASSUME NEW q \in Procs, pc'[q] \in {"start", "load", "create"}
        PROVE  path' # q /\ tmp' # q
    <3>1. q # p /\ pc[q] \in {"start", "load", "create"}
      BY <1>1, <2>1 DEF Goto, LockInv
    <3>2. path # q /\ tmp # q
      BY <3>1 DEF StoreInv, NamesInv
    <3>3. QED
      BY <1>1, <3>1, <3>2 DEF inode
  <2>2. QED
    BY <1>1, <1>2, <2>1 DEF StoreInv, NamesInv
<1>5. FilesInv'
  BY <1>1, <1>2 DEF StoreInv, FilesInv, LockInv, Goto
<1>6. SaveInv(p)'
  <2>1. (Justified(p)' <=> Justified(p)) /\ Intended(p)' = Intended(p)
    BY <1>1, <1>2, SameContent DEF StoreInv, FilesInv
  <2>2. Justified(p) /\ buf[p] = Intended(p)
    BY <1>1 DEF StoreInv, SaveInv
  <2>3. pc'[p] = "write" /\ fd'[p] = tmp' /\ data'[tmp'] = <<>> /\ buf' = buf
    BY <1>1, <1>2 DEF Goto, LockInv, StoreInv, FilesInv
  <2>4. QED
    BY <1>1, <1>2, <2>1, <2>2, <2>3 DEF SaveInv
<1>7. QED
  BY <1>3, <1>4, <1>5, <1>6, IdleSaveNext DEF StoreInv

\* Whatever ends up in the temporary file, it is not yet prd.toon.
LEMMA StepWrite ==
  ASSUME LockInv, Alone, Alone', StoreInv, NEW p \in Procs, WriteTmp(p) \/ WriteFails(p)
  PROVE  StoreInv'
<1>1. PICK content :
        /\ pc[p] = "write"
        /\ data' = [data EXCEPT ![tmp] = content]
        /\ UNCHANGED <<path, tmp, cmd>> /\ Close(p)
        /\ \/ content = <<buf[p]>> /\ Goto(p, "rename") /\ UNCHANGED result
           \/ Goto(p, AfterSave(p)) /\ Report(p, "error")
  <2>1. pc[p] = "write" /\ fd[p] = tmp /\ data[tmp] = <<>>
    BY DEF WriteTmp, WriteFails, StoreInv, SaveInv
  <2>2. Overlapped(p) = {}
    BY <2>1 DEF Overlapped
  <2>3. QED
    BY <2>1, <2>2 DEF WriteTmp, WriteFails
<1>2. tmp \in Inodes /\ tmp # path /\ tmp # NoFile
  BY <1>1 DEF StoreInv, SaveInv, NamesInv
<1>3. \A q \in Procs : q # p => ~Running(q)' /\ pc'[q] \in Labels
  BY <1>1, OthersIdle DEF Running
<1>4. NamesInv'
  BY <1>1 DEF StoreInv, NamesInv, LockInv, Goto, AfterSave
<1>5. FilesInv'
  BY <1>1, <1>2 DEF StoreInv, FilesInv, LockInv, Goto, Close, Report, AfterSave
<1>6. SaveInv(p)'
  <2>1. (Justified(p)' <=> Justified(p)) /\ Intended(p)' = Intended(p)
    BY <1>1, <1>2, SameContent DEF StoreInv, FilesInv
  <2>2. Justified(p) /\ buf[p] = Intended(p)
    BY <1>1 DEF StoreInv, SaveInv
  <2>3. DOMAIN data = Inodes
    BY DEF StoreInv, FilesInv
  <2>4. CASE content = <<buf[p]>> /\ Goto(p, "rename")
    BY <1>1, <1>2, <2>1, <2>2, <2>3, <2>4 DEF SaveInv, Goto, LockInv
  <2>5. CASE Goto(p, AfterSave(p))
    BY <2>5, ProcsAssumption DEF SaveInv, Goto, LockInv, AfterSave
  <2>6. QED
    BY <1>1, <2>4, <2>5
<1>7. QED
  BY <1>3, <1>4, <1>5, <1>6, IdleSaveNext DEF StoreInv

\* The rename finds the temporary file this process wrote.
LEMMA RenameApplies ==
  ASSUME LockInv, StoreInv, NEW p \in Procs, RenameTmp(p)
  PROVE  /\ pc[p] = "rename" /\ Goto(p, AfterSave(p)) /\ Report(p, "ok")
         /\ path' = tmp /\ tmp' = NoFile /\ UNCHANGED <<fd, buf, cmd>>
         /\ tmp \in Inodes /\ tmp # path /\ tmp # NoFile
         /\ DOMAIN data' = Inodes
         /\ Justified(p) /\ data'[path'] = <<Intended(p)>>
         /\ IsDocument(Intended(p))
<1>1. pc[p] = "rename" /\ tmp # NoFile /\ Justified(p) /\ data[tmp] = <<Intended(p)>>
  BY DEF RenameTmp, StoreInv, SaveInv
<1>2. tmp \in Inodes /\ tmp # path
  BY <1>1 DEF StoreInv, NamesInv
<1>3. /\ path' = tmp /\ tmp' = NoFile
      /\ data' = [i \in Inodes |-> IF i = path THEN <<>> ELSE data[i]]
      /\ Goto(p, AfterSave(p)) /\ Report(p, "ok") /\ UNCHANGED <<fd, buf, cmd>>
  BY <1>1 DEF RenameTmp
<1>4. data'[path'] = <<Intended(p)>>
  BY <1>1, <1>2, <1>3
<1>5. IsDocument(Intended(p))
  <2>1. Parses(Content(path)) => IsDocument(Doc)
    BY PublishedDocument DEF StoreInv
  <2>2. CASE p \in Clients
    BY <1>1, <2>1, <2>2, MutatedIsDocument DEF Justified, Intended
  <2>3. CASE p \notin Clients /\ Job[p] = "record"
    BY <1>1, <2>1, <2>3, RecordedIsDocument DEF Justified, Intended
  <2>4. CASE p \notin Clients /\ Job[p] = "pilot"
    BY <2>4, FreshIsDocument DEF Intended
  <2>5. CASE p \notin Clients /\ Job[p] = "init"
    BY <2>5, ConfigAssumption DEF Intended, Procs
  <2>6. QED
    BY <2>2, <2>3, <2>4, <2>5, ConfigAssumption DEF Procs
<1>6. QED
  BY <1>1, <1>2, <1>3, <1>4, <1>5

LEMMA StepRename ==
  ASSUME LockInv, Alone, Alone', StoreInv, NEW p \in Procs, RenameTmp(p)
  PROVE  StoreInv'
<1>1. /\ pc[p] = "rename" /\ Goto(p, AfterSave(p)) /\ Report(p, "ok")
      /\ path' = tmp /\ tmp' = NoFile /\ UNCHANGED <<fd, buf, cmd>>
      /\ tmp \in Inodes /\ tmp # path /\ tmp # NoFile
      /\ DOMAIN data' = Inodes
      /\ Justified(p) /\ data'[path'] = <<Intended(p)>>
      /\ IsDocument(Intended(p))
  BY RenameApplies
<1>2. NamesInv'
  BY <1>1, ProcsAssumption DEF StoreInv, NamesInv, LockInv, Goto, AfterSave, Inodes
<1>3. FilesInv'
  <2>1. data'[path'] = <<data'[path'][1]>> /\ IsDocument(data'[path'][1])
    BY <1>1
  <2>2. QED
    BY <1>1, <2>1 DEF StoreInv, FilesInv, LockInv, Goto, Report, AfterSave
<1>4. SaveInv(p)'
  BY <1>1, ProcsAssumption DEF SaveInv, Goto, LockInv, AfterSave
<1>5. \A q \in Procs : q # p => ~Running(q)' /\ pc'[q] \in Labels
  BY <1>1, OthersIdle DEF Running
<1>6. QED
  BY <1>2, <1>3, <1>4, <1>5, IdleSaveNext DEF StoreInv

LEMMA StepRenameFails ==
  ASSUME LockInv, StoreInv, NEW p \in Procs, RenameFails(p)
  PROVE  StoreInv'
<1>1. SaveInv(p)'
  BY DEF RenameFails, SaveInv, Goto, LockInv
<1>2. DOMAIN buf = Procs
  BY DEF StoreInv, FilesInv
<1>3. QED
  BY <1>1, <1>2, StepFilesKept DEF RenameFails, Labels

\* The name that is removed was never prd.toon's.
LEMMA StepRemove ==
  ASSUME LockInv, Alone, Alone', StoreInv, NEW p \in Procs, RemoveTmp(p)
  PROVE  StoreInv'
<1>1. /\ pc[p] = "remove" /\ tmp' = NoFile /\ Goto(p, AfterSave(p)) /\ Report(p, "error")
      /\ UNCHANGED <<path, fd, buf, cmd>>
      /\ data' = [i \in Inodes |-> IF i = tmp THEN <<>> ELSE data[i]]
  BY DEF RemoveTmp
<1>2. NamesInv'
  BY <1>1, ProcsAssumption DEF StoreInv, NamesInv, LockInv, Goto, AfterSave, Inodes
<1>3. FilesInv'
  <2>1. path # NoFile => path # tmp /\ path \in Inodes
    BY DEF StoreInv, NamesInv
  <2>2. path # NoFile => data'[path] = data[path]
    BY <1>1, <2>1
  <2>3. QED
    BY <1>1, <2>2 DEF StoreInv, FilesInv, LockInv, Goto, Report, AfterSave
<1>4. SaveInv(p)'
  BY <1>1, ProcsAssumption DEF SaveInv, Goto, LockInv, AfterSave
<1>5. \A q \in Procs : q # p => ~Running(q)' /\ pc'[q] \in Labels
  BY <1>1, OthersIdle DEF Running
<1>6. QED
  BY <1>2, <1>3, <1>4, <1>5, IdleSaveNext DEF StoreInv

LEMMA StepCrash ==
  ASSUME LockInv, StoreInv, NEW p \in Procs, Crash(p)
  PROVE  StoreInv'
<1>1. /\ Goto(p, "crashed") /\ UNCHANGED <<path, tmp, data, result, cmd>>
      /\ fd' = [fd EXCEPT ![p] = NoFile] /\ buf' = [buf EXCEPT ![p] = NewAutoPRD]
  BY DEF Crash, Close
<1>2. NamesInv'
  BY <1>1 DEF StoreInv, NamesInv, LockInv, Goto
<1>3. FilesInv'
  BY <1>1 DEF StoreInv, FilesInv, LockInv, Goto
<1>4. ASSUME NEW q \in Procs PROVE SaveInv(q)'
  <2>1. CASE q = p
    BY <1>1, <2>1 DEF SaveInv, Goto, LockInv
  <2>2. CASE q # p
    <3>1. (Justified(q)' <=> Justified(q)) /\ Intended(q)' = Intended(q)
      BY <1>1, SameContent
    <3>2. SaveInv(q) /\ buf'[q] = buf[q] /\ fd'[q] = fd[q] /\ pc'[q] = pc[q]
      BY <1>1, <2>2 DEF StoreInv, FilesInv, LockInv, Goto
    <3>3. QED
      BY <1>1, <3>1, <3>2 DEF SaveInv
  <2>3. QED
    BY <2>1, <2>2
<1>5. QED
  BY <1>2, <1>3, <1>4 DEF StoreInv

LEMMA StepStore ==
  ASSUME LockInv, Alone, Alone', StoreInv, [Next]_vars
  PROVE  StoreInv'
<1>1. ASSUME NEW p \in Procs, Save(p) PROVE StoreInv'
  BY <1>1, StepCreateTmp, StepWrite, StepRename, StepRenameFails, StepRemove DEF Save
<1>2. ASSUME NEW c \in Clients, Client(c) PROVE StoreInv'
  BY <1>1, <1>2, StepAcquire, StepLoad, StepRelease DEF Client, Procs
<1>3. ASSUME NEW s \in Savers, Saver(s) PROVE StoreInv'
  BY <1>1, <1>3, StepSaver DEF Saver, Procs
<1>4. ASSUME NEW p \in Procs, Crash(p) PROVE StoreInv'
  BY <1>4, StepCrash
<1>5. CASE UNCHANGED vars
  <2>1. \A q \in Procs : (Justified(q)' <=> Justified(q)) /\ Intended(q)' = Intended(q)
    BY <1>5, SameContent DEF vars
  <2>2. NamesInv' /\ FilesInv'
    BY <1>5 DEF vars, StoreInv, NamesInv, FilesInv
  <2>3. \A q \in Procs : SaveInv(q)'
    BY <1>5, <2>1 DEF vars, StoreInv, SaveInv
  <2>4. QED
    BY <2>2, <2>3 DEF StoreInv
<1>6. QED
  BY <1>2, <1>3, <1>4, <1>5 DEF Next

THEOREM StoreInvHolds == ASSUME Serialised PROVE Spec => []StoreInv
<1>1. Init => StoreInv
  BY InitStore
<1>2. Discipline => Alone
  BY DisciplineAlone
<1>3. Discipline => LockInv
  BY DEF Discipline
<1>4. LockInv /\ Alone /\ Alone' /\ StoreInv /\ [Next]_vars => StoreInv'
  BY StepStore
<1>5. QED
  BY <1>1, <1>2, <1>3, <1>4, DisciplineHolds, PTL DEF Spec

\* Every variable keeps its type and every published document its invariants: known
\* statuses, a finite task table, a rollup that counts exactly its tasks.
THEOREM TypeCorrect == ASSUME Serialised PROVE Spec => []TypeOK
<1>1. Discipline /\ StoreInv => TypeOK
  <2> SUFFICES ASSUME Discipline, StoreInv PROVE TypeOK
    OBVIOUS
  <2>1. Parses(Content(path)) => IsDocument(Doc)
    BY PublishedDocument DEF StoreInv
  <2>2. QED
    BY <2>1 DEF Discipline, LockInv, StoreInv, NamesInv, FilesInv, TypeOK
<1>2. QED
  BY <1>1, DisciplineHolds, StoreInvHolds, PTL

\* prd.toon is always absent or whole, whoever died wherever, as long as its writers are
\* ordered: write-to-temporary-then-rename in prd.go.
THEOREM PathWholeHolds == ASSUME Serialised PROVE Spec => []PathWhole
<1>1. StoreInv => PathWhole
  BY PublishedDocument DEF StoreInv, PathWhole, Content, Parses
<1>2. QED
  BY <1>1, StoreInvHolds, PTL

-----------------------------------------------------------------------------
(* Refinement.                                                             *)

LEMMA InitQueue == Init => Queue!Init
<1> SUFFICES ASSUME Init PROVE Queue!Init
  OBVIOUS
<1>1. Content(path) \in InitialQueues
  BY ProcsAssumption DEF Init, Content, Inodes
<1>2. QED
  BY <1>1 DEF Init, Queue!Init, Queue!Writers, Procs

\* A step that leaves the published document alone and answers nobody is a stutter.
LEMMA QueueStutter ==
  ASSUME Content(path)' = Content(path), UNCHANGED <<result, cmd>>
  PROVE  UNCHANGED Queue!vars
  BY DEF Queue!vars

\* A report without effect is a refusal.
LEMMA QueueRefuse ==
  ASSUME StoreInv, NEW p \in Procs, result[p] = "none",
         NEW r \in {"kept", "error", "busy"}, Report(p, r),
         Content(path)' = Content(path), UNCHANGED cmd
  PROVE  Queue!Refuse(p)
  BY DEF StoreInv, FilesInv, Report, Queue!Refuse, Queue!Answer

\* The steps that do not rename leave the published document alone.
LEMMA ContentKept ==
  ASSUME StoreInv, NEW p \in Procs,
         \/ p \in Clients /\ (Acquire(p) \/ Load(p) \/ Release(p))
         \/ p \in Savers /\ (RecordIteration(p) \/ RunInit(p) \/ RunPilot(p))
         \/ CreateTmp(p) \/ WriteTmp(p) \/ WriteFails(p)
         \/ RenameFails(p) \/ RemoveTmp(p) \/ Crash(p)
  PROVE  Content(path)' = Content(path) /\ UNCHANGED cmd
<1>1. UNCHANGED <<path, cmd>>
  BY DEF Acquire, Load, Release, RecordIteration, RunInit, RunPilot, CreateTmp, WriteTmp,
     WriteFails, RenameFails, RemoveTmp, Crash
<1>2. path # NoFile => data'[path] = data[path]
  <2>1. CASE UNCHANGED data
    BY <2>1
  <2>2. CASE CreateTmp(p)
    <3>1. (IF tmp = NoFile THEN p ELSE tmp) # path
      BY <2>2 DEF CreateTmp, StoreInv, NamesInv
    <3>2. QED
      BY <2>2, <3>1 DEF CreateTmp
  <2>3. CASE WriteTmp(p) \/ WriteFails(p)
    <3>1. pc[p] = "write"
      BY <2>3 DEF WriteTmp, WriteFails
    <3>2. fd[p] = tmp /\ tmp # NoFile /\ tmp # path
      BY <3>1 DEF StoreInv, SaveInv, NamesInv
    <3>3. PICK content : data' = [data EXCEPT ![fd[p]] = content]
      BY <2>3 DEF WriteTmp, WriteFails
    <3>4. path # NoFile => path \in DOMAIN data
      BY DEF StoreInv, NamesInv, FilesInv
    <3>5. QED
      BY <3>2, <3>3, <3>4
  <2>4. CASE RemoveTmp(p)
    <3>1. path # NoFile => path # tmp /\ path \in Inodes
      BY DEF StoreInv, NamesInv
    <3>2. QED
      BY <2>4, <3>1 DEF RemoveTmp
  <2>5. QED
    BY <2>1, <2>2, <2>3, <2>4 DEF Acquire, Load, Release, RecordIteration, RunInit, RunPilot,
       RenameFails, Crash
<1>3. QED
  BY <1>1, <1>2 DEF Content

\* The rename is the instant at which a save takes effect.
LEMMA RenameIsQueueStep ==
  ASSUME LockInv, StoreInv, NEW p \in Procs, RenameTmp(p)
  PROVE  Queue!Next
<1>1. /\ pc[p] = "rename" /\ Report(p, "ok") /\ path' = tmp /\ tmp # NoFile /\ UNCHANGED cmd
      /\ Justified(p) /\ data'[path'] = <<Intended(p)>>
  BY RenameApplies
<1>2. Content(path)' = <<Intended(p)>>
  BY <1>1 DEF Content
<1>3. Queue!Answer(p, "applied")
  BY <1>1 DEF StoreInv, FilesInv, Report, Queue!Answer
<1>4. Parses(Content(path)) => Content(path) # <<>>
  <2>1. Parses(Content(path)) => Content(path) = <<Doc>>
    BY PublishedDocument DEF StoreInv
  <2>2. QED
    BY <2>1
<1>5. CASE p \in Clients
  <2>1. Queue!Apply(p)
    BY <1>1, <1>2, <1>3, <1>4, <1>5 DEF Queue!Apply, Justified, Intended, Doc
  <2>2. QED
    BY <1>5, <2>1 DEF Queue!Next
<1>6. CASE p \in Savers /\ Job[p] = "record"
  <2>1. p \notin Clients
    BY <1>6, ProcsAssumption
  <2>2. Queue!Record(p)
    BY <1>1, <1>2, <1>3, <1>4, <1>6, <2>1 DEF Queue!Record, Justified, Intended, Doc
  <2>3. QED
    BY <1>6, <2>2 DEF Queue!Next
<1>7. CASE p \in Savers /\ Job[p] # "record"
  <2>1. p \notin Clients /\ Job[p] \in {"init", "pilot"}
    BY <1>7, ProcsAssumption, ConfigAssumption
  <2>2. Job[p] = "pilot" => Content(path) = <<>>
    BY <1>1, <2>1 DEF Justified, Content
  <2>3. Queue!Create(p)
    BY <1>2, <1>3, <1>7, <2>1, <2>2 DEF Queue!Create, Intended, Justified
  <2>4. QED
    BY <1>7, <2>3 DEF Queue!Next
<1>8. QED
  BY <1>5, <1>6, <1>7 DEF Procs

LEMMA StepQueue ==
  ASSUME LockInv, StoreInv, [Next]_vars
  PROVE  [Queue!Next]_(Queue!vars)
<1>1. ASSUME NEW p \in Procs, Save(p) PROVE [Queue!Next]_(Queue!vars)
  <2>1. CASE RenameTmp(p)
    BY <2>1, RenameIsQueueStep
  <2>2. CASE WriteFails(p)
    <3>1. result[p] = "none" /\ Report(p, "error")
      BY <2>2 DEF WriteFails, StoreInv, FilesInv
    <3>2. Queue!Refuse(p)
      BY <2>2, <3>1, ContentKept, QueueRefuse
    <3>3. QED
      BY <3>2 DEF Queue!Next, Queue!Writers, Procs
  <2>3. CASE CreateTmp(p) \/ WriteTmp(p) \/ RenameFails(p)
    BY <2>3, ContentKept, QueueStutter DEF CreateTmp, WriteTmp, RenameFails
  <2>4. CASE RemoveTmp(p)
    <3>1. result[p] = "none" /\ Report(p, "error")
      BY <2>4 DEF RemoveTmp, StoreInv, FilesInv
    <3>2. Queue!Refuse(p)
      BY <2>4, <3>1, ContentKept, QueueRefuse
    <3>3. QED
      BY <3>2 DEF Queue!Next, Queue!Writers, Procs
  <2>5. QED
    BY <1>1, <2>1, <2>2, <2>3, <2>4 DEF Save
<1>2. ASSUME NEW c \in Clients, Acquire(c) \/ Load(c) \/ Release(c)
      PROVE  [Queue!Next]_(Queue!vars)
  <2>1. c \in Procs
    BY DEF Procs
  <2>2. Content(path)' = Content(path) /\ UNCHANGED cmd
    BY <1>2, <2>1, ContentKept
  <2>3. CASE UNCHANGED result
    BY <2>2, <2>3, QueueStutter
  <2>4. CASE pc[c] \in {"start", "load"} /\ (Report(c, "busy") \/ Report(c, "error"))
    <3>1. result[c] = "none"
      BY <2>1, <2>4 DEF StoreInv, FilesInv
    <3>2. Queue!Refuse(c)
      BY <2>1, <2>2, <2>4, <3>1, QueueRefuse
    <3>3. QED
      BY <3>2 DEF Queue!Next, Queue!Writers
  <2>5. QED
    BY <1>2, <2>3, <2>4 DEF Acquire, Load, Release
<1>3. ASSUME NEW s \in Savers, RecordIteration(s) \/ RunInit(s) \/ RunPilot(s)
      PROVE  [Queue!Next]_(Queue!vars)
  <2>1. s \in Procs
    BY DEF Procs
  <2>2. Content(path)' = Content(path) /\ UNCHANGED cmd
    BY <1>3, <2>1, ContentKept
  <2>3. CASE UNCHANGED result
    BY <2>2, <2>3, QueueStutter
  <2>4. CASE pc[s] = "start" /\ (Report(s, "kept") \/ Report(s, "error"))
    <3>1. result[s] = "none"
      BY <2>1, <2>4 DEF StoreInv, FilesInv
    <3>2. Queue!Refuse(s)
      BY <2>1, <2>2, <2>4, <3>1, QueueRefuse
    <3>3. QED
      BY <3>2 DEF Queue!Next, Queue!Writers
  <2>5. QED
    BY <1>3, <2>3, <2>4 DEF RecordIteration, RunInit, RunPilot
<1>4. ASSUME NEW p \in Procs, Crash(p) PROVE [Queue!Next]_(Queue!vars)
  BY <1>4, ContentKept, QueueStutter DEF Crash
<1>5. CASE UNCHANGED vars
  BY <1>5, SameContent, QueueStutter DEF vars
<1>6. QED
  BY <1>1, <1>2, <1>3, <1>4, <1>5 DEF Next, Client, Saver, Procs

\* Seen through the published document and the reports, the files, the lock and the
\* crashes are the abstract queue: every reported success took effect at one instant, and
\* every refusal had none.
THEOREM Implementation == ASSUME Serialised PROVE Spec => ImplementsQueue
<1>1. Init => Queue!Init
  BY InitQueue
<1>2. Discipline /\ StoreInv /\ [Next]_vars => [Queue!Next]_(Queue!vars)
  BY StepQueue DEF Discipline
<1>3. QED
  BY <1>1, <1>2, DisciplineHolds, StoreInvHolds, PTL DEF Spec, ImplementsQueue, Queue!Spec

-----------------------------------------------------------------------------
(* What a command has reported stays true.                                 *)

\* The id a command is about to report is the one its change was made for.
TargetInv ==
  /\ DOMAIN taskId = Clients
  /\ \A c \in Clients : pc[c] \in {"create", "write", "rename"} => taskId[c] = TargetID(Doc, cmd[c])

\* Nobody else reported a change of task id.
Untouched(c, id) == \A d \in Clients \ {c} : Touches(d, id) => result[d] # "ok"

\* What the published document owes to command c.
DoneInv(c) ==
  cmd[c].kind = "done" =>
    /\ cmd[c].id \in DOMAIN Doc.tasks
    /\ Untouched(c, cmd[c].id) => /\ Doc.tasks[cmd[c].id].status = "completed"
                                 /\ Doc.tasks[cmd[c].id].stamp = cmd[c].stamp

AddInv(c) ==
  cmd[c].kind \in {"enqueue", "add"} =>
    /\ taskId[c] \in DOMAIN Doc.tasks
    /\ \A d \in Clients \ {c} : Adds(d) => taskId[c] # taskId[d]

AckInv ==
  \A c \in Clients : result[c] = "ok" =>
    pc[c] # "start" /\ path # NoFile /\ DoneInv(c) /\ AddInv(c)

LEMMA InitAck == Init => TargetInv /\ AckInv
<1> SUFFICES ASSUME Init PROVE TargetInv /\ AckInv
  OBVIOUS
<1>1. \A c \in Clients : result[c] = "none" /\ pc[c] = "start"
  BY DEF Init, Procs
<1>2. QED
  BY <1>1 DEF Init, TargetInv, AckInv

\* A step that publishes nothing reports no success, and takes none back.
LEMMA NoNewSuccess ==
  ASSUME LockInv, StoreInv, TargetInv, NEW p \in Procs,
         \/ p \in Clients /\ (Acquire(p) \/ Load(p) \/ Release(p))
         \/ p \in Savers /\ (RecordIteration(p) \/ RunInit(p) \/ RunPilot(p))
         \/ CreateTmp(p) \/ WriteTmp(p) \/ WriteFails(p)
         \/ RenameFails(p) \/ RemoveTmp(p) \/ Crash(p)
  PROVE  /\ \A q \in Clients : result'[q] = "ok" <=> result[q] = "ok"
         /\ \A q \in Clients : result[q] = "ok" => taskId'[q] = taskId[q]
         /\ \A q \in Procs : pc[q] # "start" => pc'[q] # "start"
         /\ UNCHANGED path
         /\ DOMAIN taskId' = Clients
<1>1. PICK label : Goto(p, label) /\ label # "start"
  BY DEF Acquire, Load, Release, RecordIteration, RunInit, RunPilot, CreateTmp, WriteTmp,
     WriteFails, RenameFails, RemoveTmp, Crash, AfterSave
<1>2. \A q \in Procs : pc[q] # "start" => pc'[q] # "start"
  BY <1>1 DEF LockInv, Goto
<1>3. UNCHANGED path
  BY DEF Acquire, Load, Release, RecordIteration, RunInit, RunPilot, CreateTmp, WriteTmp,
     WriteFails, RenameFails, RemoveTmp, Crash
<1>4. \/ UNCHANGED result
      \/ result[p] = "none" /\ \E r \in {"kept", "error", "busy"} : Report(p, r)
  <2>1. pc[p] \in {"start", "load", "create", "write", "rename", "remove"} => result[p] = "none"
    BY DEF StoreInv, FilesInv
  <2>2. QED
    BY <2>1 DEF Acquire, Load, Release, RecordIteration, RunInit, RunPilot, CreateTmp, WriteTmp,
       WriteFails, RenameFails, RemoveTmp, Crash
<1>5. \A q \in Clients : result'[q] = "ok" <=> result[q] = "ok"
  <2>1. DOMAIN result = Procs
    BY DEF StoreInv, FilesInv
  <2>2. QED
    BY <1>4, <2>1 DEF Report, Procs
<1>6. \/ UNCHANGED taskId
      \/ /\ p \in Clients /\ result[p] = "none"
         /\ taskId' = [taskId EXCEPT ![p] = TargetID(Doc, cmd[p])]
  <2>1. pc[p] = "load" => result[p] = "none"
    BY DEF StoreInv, FilesInv
  <2>2. QED
    BY <2>1 DEF Acquire, Load, Release, RecordIteration, RunInit, RunPilot, CreateTmp, WriteTmp,
       WriteFails, RenameFails, RemoveTmp, Crash
<1>7. /\ \A q \in Clients : result[q] = "ok" => taskId'[q] = taskId[q]
      /\ DOMAIN taskId' = Clients
  BY <1>6 DEF TargetInv
<1>8. QED
  BY <1>2, <1>3, <1>5, <1>7

LEMMA QuietAck ==
  ASSUME LockInv, StoreInv, TargetInv, AckInv, NEW p \in Procs,
         \/ p \in Clients /\ (Acquire(p) \/ Load(p) \/ Release(p))
         \/ p \in Savers /\ (RecordIteration(p) \/ RunInit(p) \/ RunPilot(p))
         \/ CreateTmp(p) \/ WriteTmp(p) \/ WriteFails(p)
         \/ RenameFails(p) \/ RemoveTmp(p) \/ Crash(p)
  PROVE  TargetInv' /\ AckInv'
<1>1. Doc' = Doc /\ cmd' = cmd
  BY ContentKept DEF Doc
<1>2. /\ \A q \in Clients : result'[q] = "ok" <=> result[q] = "ok"
      /\ \A q \in Clients : result[q] = "ok" => taskId'[q] = taskId[q]
      /\ \A q \in Procs : pc[q] # "start" => pc'[q] # "start"
      /\ UNCHANGED path
      /\ DOMAIN taskId' = Clients
  BY NoNewSuccess
<1>3. AckInv'
  <2> SUFFICES ASSUME NEW c \in Clients, result'[c] = "ok"
               PROVE  pc'[c] # "start" /\ path' # NoFile /\ DoneInv(c)' /\ AddInv(c)'
    BY DEF AckInv
  <2>1. pc[c] # "start" /\ path # NoFile /\ DoneInv(c) /\ AddInv(c)
    BY <1>2 DEF AckInv
  <2>2. DoneInv(c)'
    BY <1>1, <1>2, <2>1 DEF DoneInv, Untouched, Touches
  <2>3. AddInv(c)'
    BY <1>1, <1>2, <2>1 DEF AddInv, Adds
  <2>4. QED
    BY <1>2, <2>1, <2>2, <2>3 DEF Procs
<1>4. ASSUME NEW c \in Clients, pc'[c] \in {"create", "write", "rename"}
      PROVE  taskId'[c] = TargetID(Doc', cmd'[c])
  <2>1. CASE c = p /\ Load(p)
    <3>1. /\ pc'[p] \in {"create", "release"}
          /\ pc'[p] = "create" => taskId' = [taskId EXCEPT ![p] = TargetID(Doc, cmd[p])]
      BY <2>1 DEF Load, Goto, LockInv
    <3>2. QED
      BY <1>1, <1>4, <2>1, <3>1 DEF TargetInv
  <2>2. CASE ~(c = p /\ Load(p))
    <3>1. c # p => pc'[c] = pc[c]
      BY DEF LockInv, Procs, Goto, Acquire, Load, Release, RecordIteration, RunInit, RunPilot,
         CreateTmp, WriteTmp, WriteFails, RenameFails, RemoveTmp, Crash
    <3>2. c = p => pc[c] \in {"create", "write"}
      BY <1>4, <2>2, ProcsAssumption DEF LockInv, Goto, Acquire, Release, CreateTmp, WriteTmp,
         WriteFails, RenameFails, RemoveTmp, Crash, AfterSave
    <3>3. taskId'[c] = taskId[c]
      BY <2>2 DEF TargetInv, Acquire, Load, Release, RecordIteration, RunInit, RunPilot,
         CreateTmp, WriteTmp, WriteFails, RenameFails, RemoveTmp, Crash
    <3>4. QED
      BY <1>1, <1>4, <3>1, <3>2, <3>3 DEF TargetInv
  <2>3. QED
    BY <2>1, <2>2
<1>5. QED
  BY <1>2, <1>3, <1>4 DEF TargetInv

\* What a rename publishes, in terms of what was published before.
LEMMA Published ==
  ASSUME LockInv, StoreInv, NEW p \in Procs, RenameTmp(p)
  PROVE  /\ Doc' = Intended(p) /\ path' # NoFile /\ Justified(p)
         /\ cmd' = cmd /\ taskId' = taskId
         /\ pc[p] = "rename" /\ pc' = [pc EXCEPT ![p] = AfterSave(p)]
         /\ result[p] = "none" /\ result' = [result EXCEPT ![p] = "ok"]
         /\ path # NoFile => IsDocument(Doc)
<1>1. /\ path' = tmp /\ tmp # NoFile /\ Justified(p) /\ data'[path'] = <<Intended(p)>>
      /\ pc[p] = "rename" /\ Goto(p, AfterSave(p)) /\ Report(p, "ok") /\ UNCHANGED cmd
  BY RenameApplies
<1>2. Doc' = Intended(p)
  BY <1>1 DEF Doc, Content
<1>3. result[p] = "none"
  BY <1>1 DEF StoreInv, FilesInv
<1>4. path # NoFile => IsDocument(Doc)
  BY PublishedDocument DEF StoreInv
<1>5. QED
  BY <1>1, <1>2, <1>3, <1>4 DEF RenameTmp, Goto, Report

\* A command's rename makes its own report true and spoils no other.
LEMMA ClientAck ==
  ASSUME LockInv, StoreInv, TargetInv, AckInv, NEW p \in Clients, RenameTmp(p)
  PROVE  AckInv'
<1>1. p \in Procs
  BY DEF Procs
<1> DEFINE d == Doc
<1>2. /\ Doc' = Mutated(d, cmd[p]) /\ path # NoFile /\ path' # NoFile /\ Accepts(d, cmd[p])
      /\ cmd' = cmd /\ taskId' = taskId
      /\ pc[p] = "rename" /\ pc' = [pc EXCEPT ![p] = "release"]
      /\ result[p] = "none" /\ result' = [result EXCEPT ![p] = "ok"]
      /\ IsDocument(d)
  <2>1. Parses(Content(path)) => path # NoFile
    BY PublishedDocument DEF StoreInv
  <2>2. QED
    BY <1>1, <2>1, Published DEF Justified, Intended, AfterSave
<1>3. taskId[p] = TargetID(d, cmd[p])
  BY <1>2 DEF TargetInv
<1>4. /\ DOMAIN Doc'.tasks = DOMAIN d.tasks \cup {taskId[p]}
      /\ \A id \in DOMAIN d.tasks \ {taskId[p]} : Doc'.tasks[id] = d.tasks[id]
  BY <1>2, <1>3, MutatedTouchesTarget
<1>5. cmd[p].kind = "done" =>
        /\ cmd[p].id \in DOMAIN Doc'.tasks
        /\ Doc'.tasks[cmd[p].id].status = "completed"
        /\ Doc'.tasks[cmd[p].id].stamp = cmd[p].stamp
  BY <1>2, <1>4, MutatedTarget
<1> HIDE DEF d
<1>6. cmd[p].kind \in {"enqueue", "add"} => taskId[p] \notin DOMAIN d.tasks
  BY <1>2, <1>3 DEF Accepts, TargetID
<1>7. cmd[p].kind \in {"done", "skip", "reset"} => taskId[p] = cmd[p].id
  BY <1>3 DEF TargetID
<1>8. DOMAIN pc = Procs /\ DOMAIN result = Procs
  BY DEF LockInv, StoreInv, FilesInv
<1>9. \A c \in Clients \ {p} : result'[c] = result[c] /\ pc'[c] = pc[c]
  BY <1>1, <1>2, <1>8 DEF Procs
<1>10. \A c \in Clients : c # p /\ result[c] = "ok" => DoneInv(c) /\ AddInv(c) /\ pc[c] # "start"
  BY DEF AckInv
<1>11. pc'[p] = "release" /\ result'[p] = "ok"
  BY <1>1, <1>2, <1>8
<1>12. DoneInv(p)' /\ AddInv(p)'
  <2>1. DoneInv(p)'
    BY <1>2, <1>5 DEF DoneInv
  <2>2. ASSUME cmd[p].kind \in {"enqueue", "add"}, NEW c \in Clients \ {p}, Adds(c)'
        PROVE  taskId[p] # taskId[c]
    <3>1. Adds(c) /\ result[c] = "ok"
      BY <1>2, <1>9, <2>2 DEF Adds
    <3>2. taskId[c] \in DOMAIN d.tasks
      BY <3>1, <1>10 DEF AddInv, Adds, d
    <3>3. QED
      BY <1>6, <2>2, <3>2
  <2>3. AddInv(p)'
    BY <1>2, <1>4, <2>2 DEF AddInv
  <2>4. QED
    BY <2>1, <2>3
<1>13. ASSUME NEW c \in Clients \ {p}, result[c] = "ok"
       PROVE  DoneInv(c)' /\ AddInv(c)'
  <2>1. DoneInv(c) /\ AddInv(c)
    BY <1>10, <1>13
  <2>2. DoneInv(c)'
    <3> SUFFICES ASSUME cmd[c].kind = "done"
                 PROVE  /\ cmd[c].id \in DOMAIN Doc'.tasks
                        /\ Untouched(c, cmd[c].id)' =>
                             /\ Doc'.tasks[cmd[c].id].status = "completed"
                             /\ Doc'.tasks[cmd[c].id].stamp = cmd[c].stamp
      BY <1>2 DEF DoneInv
    <3>1. cmd[c].id \in DOMAIN d.tasks
      BY <2>1 DEF DoneInv, d
    <3>2. ASSUME Untouched(c, cmd[c].id)'
          PROVE  Untouched(c, cmd[c].id) /\ taskId[p] # cmd[c].id
      <4>1. ~Touches(p, cmd[c].id)
        BY <1>2, <1>11, <1>13, <3>2 DEF Untouched, Touches
      <4>2. Untouched(c, cmd[c].id)
        BY <1>2, <1>9, <3>2, <4>1 DEF Untouched, Touches
      <4>3. cmd[p].kind \in {"enqueue", "add"} \/ taskId[p] # cmd[c].id
        BY <4>1, <1>2, <1>3, <3>1 DEF Touches, TargetID, Accepts, d
      <4>4. QED
        BY <4>2, <4>3, <1>6, <3>1
    <3>3. QED
      BY <2>1, <3>1, <3>2, <1>4 DEF DoneInv, d
  <2>3. AddInv(c)'
    <3> SUFFICES ASSUME cmd[c].kind \in {"enqueue", "add"}
                 PROVE  /\ taskId[c] \in DOMAIN Doc'.tasks
                        /\ \A q \in Clients \ {c} : Adds(q)' => taskId[c] # taskId[q]
      BY <1>2 DEF AddInv
    <3>1. taskId[c] \in DOMAIN d.tasks
      BY <2>1 DEF AddInv, d
    <3>2. ASSUME NEW q \in Clients \ {c}, Adds(q)' PROVE taskId[c] # taskId[q]
      <4>1. CASE q = p
        BY <1>2, <1>6, <3>1, <3>2, <4>1 DEF Adds
      <4>2. CASE q # p
        BY <1>2, <1>9, <2>1, <3>2, <4>2 DEF Adds, AddInv
      <4>3. QED
        BY <4>1, <4>2
    <3>3. QED
      BY <1>4, <3>1, <3>2
  <2>4. QED
    BY <2>2, <2>3
<1>14. QED
  BY <1>2, <1>9, <1>10, <1>11, <1>12, <1>13 DEF AckInv

\* A saver's rename keeps the tasks, or comes before every report.
LEMMA SaverAck ==
  ASSUME NewQueueFirst, LockInv, OrderInv, StoreInv, TargetInv, AckInv,
         NEW p \in Savers, RenameTmp(p)
  PROVE  AckInv'
<1>1. p \in Procs /\ p \notin Clients
  BY ProcsAssumption DEF Procs
<1>2. /\ Doc' = Intended(p) /\ path' # NoFile /\ Justified(p)
      /\ cmd' = cmd /\ taskId' = taskId
      /\ pc[p] = "rename" /\ pc' = [pc EXCEPT ![p] = AfterSave(p)]
      /\ result[p] = "none" /\ result' = [result EXCEPT ![p] = "ok"]
      /\ path # NoFile => IsDocument(Doc)
  BY <1>1, Published
<1>3. \A c \in Clients : result'[c] = result[c] /\ pc'[c] = pc[c]
  BY <1>1, <1>2 DEF LockInv, StoreInv, FilesInv, Procs
<1>4. CASE Job[p] = "record"
  <2>1. Doc' = Recorded(Doc, 1, "implementation") /\ IsDocument(Doc)
    <3>1. Parses(Content(path)) => path # NoFile
      BY PublishedDocument DEF StoreInv
    <3>2. QED
      BY <1>1, <1>2, <1>4, <3>1 DEF Intended, Justified
  <2>2. Doc'.tasks = Doc.tasks
    BY <2>1, RecordedIsDocument
  <2>3. ASSUME NEW c \in Clients, result[c] = "ok" PROVE DoneInv(c)' /\ AddInv(c)'
    <3>1. DoneInv(c) /\ AddInv(c)
      BY <2>3 DEF AckInv
    <3>2. DoneInv(c)'
      BY <1>2, <1>3, <2>2, <3>1 DEF DoneInv, Untouched, Touches
    <3>3. AddInv(c)'
      BY <1>2, <1>3, <2>2, <3>1 DEF AddInv, Adds
    <3>4. QED
      BY <3>2, <3>3
  <2>4. QED
    BY <1>2, <1>3, <2>3 DEF AckInv
<1>5. CASE Job[p] = "pilot"
  <2>1. path = NoFile
    BY <1>1, <1>2, <1>5 DEF Justified
  <2>2. QED
    BY <1>3, <2>1 DEF AckInv
<1>6. CASE Job[p] = "init"
  <2>1. \A c \in Clients : pc[c] # "start" => Ended(p)
    BY <1>6 DEF NewQueueFirst, OrderInv, Procs
  <2>2. \A c \in Clients : result[c] # "ok"
    BY <1>2, <2>1 DEF AckInv, Ended
  <2>3. QED
    BY <1>3, <2>2 DEF AckInv
<1>7. QED
  BY <1>4, <1>5, <1>6, ConfigAssumption

LEMMA StepAck ==
  ASSUME NewQueueFirst, Discipline, Alone, StoreInv, TargetInv, AckInv, [Next]_vars
  PROVE  TargetInv' /\ AckInv'
<1> USE DEF Discipline
<1>1. ASSUME NEW p \in Procs, RenameTmp(p) PROVE TargetInv' /\ AckInv'
  <2>1. AckInv'
    BY <1>1, ClientAck, SaverAck DEF Procs
  <2>2. /\ taskId' = taskId
        /\ pc[p] = "rename" /\ pc' = [pc EXCEPT ![p] = AfterSave(p)]
    BY <1>1, Published
  <2>3. \A c \in Clients : pc'[c] \notin {"create", "write", "rename"}
    BY <2>2 DEF Alone, Running, LockInv, AfterSave, Procs
  <2>4. QED
    BY <2>1, <2>2, <2>3 DEF TargetInv
<1>2. ASSUME NEW p \in Procs, Save(p) PROVE TargetInv' /\ AckInv'
  BY <1>1, <1>2, QuietAck DEF Save
<1>3. ASSUME NEW c \in Clients, Client(c) PROVE TargetInv' /\ AckInv'
  BY <1>2, <1>3, QuietAck DEF Client, Procs
<1>4. ASSUME NEW s \in Savers, Saver(s) PROVE TargetInv' /\ AckInv'
  BY <1>2, <1>4, QuietAck DEF Saver, Procs
<1>5. ASSUME NEW p \in Procs, Crash(p) PROVE TargetInv' /\ AckInv'
  BY <1>5, QuietAck
<1>6. CASE UNCHANGED vars
  <2>1. Doc' = Doc
    BY <1>6 DEF vars, Doc, Content
  <2>2. TargetInv'
    BY <1>6, <2>1 DEF vars, TargetInv
  <2>3. ASSUME NEW c \in Clients, result[c] = "ok" PROVE DoneInv(c)' /\ AddInv(c)'
    <3>1. DoneInv(c) /\ AddInv(c)
      BY <2>3 DEF AckInv
    <3>2. QED
      BY <1>6, <2>1, <3>1 DEF vars, DoneInv, AddInv, Untouched, Touches, Adds
  <2>4. QED
    BY <1>6, <2>2, <2>3 DEF vars, AckInv
<1>7. QED
  BY <1>3, <1>4, <1>5, <1>6 DEF Next

THEOREM AckInvHolds == ASSUME Serialised, NewQueueFirst PROVE Spec => []AckInv
<1>1. Init => TargetInv /\ AckInv
  BY InitAck
<1>2. Discipline => Alone
  BY DisciplineAlone
<1>3. Discipline /\ Alone /\ StoreInv /\ TargetInv /\ AckInv /\ [Next]_vars => TargetInv' /\ AckInv'
  BY StepAck
<1>4. QED
  BY <1>1, <1>2, <1>3, DisciplineHolds, StoreInvHolds, PTL DEF Spec

\* A `done` that reported success is never reverted, neither by the loop's bookkeeping nor
\* by a command about another task, whatever is killed: runTaskDone and
\* recordIterationProgress under the order run.go and loop.go give them.
THEOREM AckedDoneSurvivesHolds ==
  ASSUME Serialised, NewQueueFirst PROVE Spec => []AckedDoneSurvives
<1>1. StoreInv /\ AckInv => AckedDoneSurvives
  BY PublishedDocument DEF StoreInv, AckInv, DoneInv, Untouched, AckedDoneSurvives
<1>2. QED
  BY <1>1, AckInvHolds, StoreInvHolds, PTL

\* No two commands report the same new task, and every task reported is in the queue:
\* NextAvailableID and AddTask, between the flock and its release.
THEOREM AckedTasksDistinctHolds ==
  ASSUME Serialised, NewQueueFirst PROVE Spec => []AckedTasksDistinct
<1>1. StoreInv /\ AckInv => AckedTasksDistinct
  BY PublishedDocument DEF StoreInv, AckInv, AddInv, Adds, AckedTasksDistinct
<1>2. QED
  BY <1>1, AckInvHolds, StoreInvHolds, PTL
=============================================================================
