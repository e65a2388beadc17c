------------------------ MODULE PluginService_proofs ------------------------
(***************************************************************************)
(* What holds of PluginService for every set of ops and plugins.           *)
(*                                                                         *)
(* However the ops interleave: types, and the agreement of the two halves  *)
(* of samuel.lock.  The agreement is that of every copy of the file, the   *)
(* ones the ops hold in memory included (LogInv), since any of them may    *)
(* become the file.                                                        *)
(*                                                                         *)
(* Where ops follow each other (OneAtATime): what success, an upgrade and  *)
(* a repair leave behind.  An op at work is the only one (TurnInv); of     *)
(* the other plugins no more is known than an earlier op told (ShareInv);  *)
(* of its own, what the step it is at has made of the directory and the    *)
(* backup (StageInv).  AckInv and HealthyInv are what the results then     *)
(* promise.                                                                *)
(***************************************************************************)
EXTENDS PluginService, TLAPS

\* The mutation records of a lockfile are of plugins it has an entry for.
Agrees(l) == \A n \in Plugins : l.log[n] > 0 => l.plugins[n] # 0

LogInv == Agrees(lockfile) /\ \A p \in Ops : Agrees(lf[p])

\* From its resolution to the lockfile an install has a version; an uninstall has none and
\* needs none.
InstallLabels ==
  {"swap", "place", "dropbak", "mkdir", "module", "truncate", "manifest", "readlock"}

VerInv ==
  \A p \in Ops :
    /\ pc[p] \in InstallLabels => ver[p] \in Versions
    /\ pc[p] \in {"lookup", "remove"} => Removing(p)
    /\ pc[p] = "writelock" => Removing(p) \/ ver[p] \in Versions

Inv == TypeOK /\ LogInv /\ VerInv

\* The file as it is after an install and after an uninstall.
LEMMA LockedAgrees ==
  ASSUME NEW l \in Lockfiles, NEW n \in Plugins, NEW v \in Versions, Agrees(l)
  PROVE  Locked(l, n, v) \in Lockfiles /\ Agrees(Locked(l, n, v))
BY PluginAssumption DEF Lockfiles, Entries, Locked, Agrees

LEMMA UnlockedAgrees ==
  ASSUME NEW l \in Lockfiles, NEW n \in Plugins, Agrees(l)
  PROVE  Unlocked(l, n) \in Lockfiles /\ Agrees(Unlocked(l, n))
BY DEF Lockfiles, Entries, Unlocked, Agrees

-----------------------------------------------------------------------------
(* The two ways a step ends: with a plugin, or with a label.               *)

Saids == {"none", "installing", "installed", "removing", "removed"}
Results == {"none", "ok", "other", "error", "absent"}

TasksOK ==
  /\ todo \in [Ops -> SUBSET Plugins]
  /\ asked \in [Ops -> {<<>>} \cup {<<n>> : n \in Plugins}]
  /\ cur \in [Ops -> {<<>>} \cup {<<n>> : n \in Plugins}]

StoresOK ==
  /\ dir \in [Plugins -> Trees] /\ bak \in [Plugins -> Trees]
  /\ lockfile \in Lockfiles /\ Agrees(lockfile)
  /\ config \in Entries

Blank == [plugins |-> NoEntries, log |-> NoEntries]

LEMMA BlankAgrees == Blank \in Lockfiles /\ Agrees(Blank) /\ NoEntries \in Entries
BY DEF Blank, NoEntries, Lockfiles, Entries, Agrees

\* The versions an op in state label is expected to have.
Fits(p, label, v) ==
  /\ label \in InstallLabels => v \in Versions
  /\ label \in {"lookup", "remove"} => Removing(p)
  /\ label = "writelock" => Removing(p) \/ v \in Versions

LEMMA FinishKeeps ==
  ASSUME Inv, NEW p \in Ops, NEW a \in Results, Finish(p, a), StoresOK',
         said' \in [Plugins -> Saids], UNCHANGED tasks
  PROVE  Inv'
<1>1. /\ lf' = [lf EXCEPT ![p] = Blank]
      /\ cfg' = [cfg EXCEPT ![p] = NoEntries]
  BY DEF Finish, Blank
<1>2. lf' \in [Ops -> Lockfiles] /\ cfg' \in [Ops -> Entries]
  BY <1>1, BlankAgrees DEF Inv, TypeOK
<1>3. /\ pc' \in [Ops -> Labels] /\ pc'[p] = "next"
      /\ \A q \in Ops \ {p} : pc'[q] = pc[q] /\ ver'[q] = ver[q] /\ moved'[q] = moved[q]
      /\ ver' \in [Ops -> Versions \cup {0}] /\ ver'[p] = 0
      /\ moved' \in [Ops -> BOOLEAN] /\ moved'[p] = FALSE
  BY DEF Inv, TypeOK, Labels, Finish, Goto
<1>4. result' \in [Ops -> [Plugins -> Results]]
  <2>1. [n \in Plugins |-> IF asked[p] = <<n>> THEN a ELSE result[p][n]] \in [Plugins -> Results]
    BY DEF Inv, TypeOK, Results
  <2> QED
    BY <2>1 DEF Inv, TypeOK, Results, Finish
<1>5. TypeOK'
  BY <1>2, <1>3, <1>4 DEF Inv, TypeOK, StoresOK, Saids, Results, tasks
<1>6. LogInv'
  BY <1>1, BlankAgrees DEF Inv, TypeOK, LogInv, StoresOK
<1>7. VerInv'
  BY <1>3 DEF Inv, VerInv, Removing, InstallLabels, tasks
<1> QED
  BY <1>5, <1>6, <1>7 DEF Inv

\* An op that moves on to a label with the lockfile l and the version v.
LEMMA MoveKeeps ==
  ASSUME Inv, NEW p \in Ops, NEW label \in Labels, NEW v \in Versions \cup {0}, NEW l \in Lockfiles,
         NEW c \in Entries, NEW b \in BOOLEAN,
         Agrees(l), Fits(p, label, v),
         label \in {"start", "next", "ended"} => v = 0 /\ ~ b,
         pc' = [pc EXCEPT ![p] = label],
         ver' = [ver EXCEPT ![p] = v],
         lf' = [lf EXCEPT ![p] = l],
         cfg' = [cfg EXCEPT ![p] = c],
         moved' = [moved EXCEPT ![p] = b],
         StoresOK', TasksOK', said' \in [Plugins -> Saids],
         UNCHANGED <<request, result>>
  PROVE  Inv'
<1>1. TypeOK'
  BY DEF Inv, TypeOK, StoresOK, TasksOK, Saids
<1>2. LogInv'
  BY DEF Inv, TypeOK, LogInv, StoresOK
<1>3. VerInv'
  BY DEF Inv, TypeOK, VerInv, Fits, Removing
<1> QED
  BY <1>1, <1>2, <1>3 DEF Inv

LEMMA TypesNow == ASSUME Inv PROVE TasksOK /\ said \in [Plugins -> Saids]
BY DEF Inv, TypeOK, TasksOK, Saids

LEMMA StepKeeps ==
  ASSUME Inv, NEW p \in Ops, NEW label \in Labels, Step(p, label), Fits(p, label, ver[p]),
         label \in {"start", "next", "ended"} => ver[p] = 0 /\ ~ moved[p],
         StoresOK', TasksOK',
         UNCHANGED request
  PROVE  Inv'
<1>1. /\ ver[p] \in Versions \cup {0} /\ lf[p] \in Lockfiles /\ cfg[p] \in Entries
      /\ moved[p] \in BOOLEAN /\ Agrees(lf[p])
  BY DEF Inv, TypeOK, LogInv
<1>2. /\ ver' = [ver EXCEPT ![p] = ver[p]] /\ lf' = [lf EXCEPT ![p] = lf[p]]
      /\ cfg' = [cfg EXCEPT ![p] = cfg[p]] /\ moved' = [moved EXCEPT ![p] = moved[p]]
  BY DEF Inv, TypeOK, Step, locals
<1>3. said' \in [Plugins -> Saids]
  BY TypesNow DEF Step, answers
<1> QED
  BY <1>1, <1>2, <1>3, MoveKeeps DEF Step, Goto, answers

LEMMA StoresStay == ASSUME Inv, UNCHANGED stores PROVE StoresOK'
BY DEF Inv, TypeOK, LogInv, StoresOK, stores, Agrees

\* A step that leaves both files alone.
LEMMA DirsOnly ==
  ASSUME Inv, UNCHANGED <<lockfile, config>>,
         dir' \in [Plugins -> Trees], bak' \in [Plugins -> Trees]
  PROVE  StoresOK'
BY DEF Inv, TypeOK, LogInv, StoresOK, Agrees

\* What On says of an op.
LEMMA OnFacts ==
  ASSUME Inv, NEW p \in Ops, NEW n \in Plugins, NEW label, On(p, n, label)
  PROVE  pc[p] = label /\ UNCHANGED <<request, todo, asked, cur>> /\ TasksOK'
BY TypesNow DEF TasksOK, On, At, tasks

LEMMA FailKeeps ==
  ASSUME Inv, NEW p \in Ops, NEW n \in Plugins, NEW label, On(p, n, label), Fail(p), StoresOK'
  PROVE  Inv'
BY FinishKeeps, TypesNow DEF On, Fail, Results

LEMMA GoKeeps ==
  ASSUME Inv, NEW p \in Ops, NEW n \in Plugins, NEW label, On(p, n, label),
         NEW next \in Labels, Step(p, next), Fits(p, next, ver[p]), next # "next", next # "ended",
         next # "start", StoresOK'
  PROVE  Inv'
BY StepKeeps, OnFacts

LEMMA TreeTypes ==
  /\ NoTree \in Trees
  /\ \A b, m \in Versions \cup {0} : Tree(b, m) \in Trees
  /\ \A v \in Versions : Whole(v) \in Trees
  /\ \A t \in Trees \ {NoTree} : Partial(t) \subseteq Trees
BY DEF Trees, Tree, Whole, Partial, Missing

-----------------------------------------------------------------------------
(* One lemma per group of actions.                                         *)

LEMMA BeginKeeps == ASSUME Inv, NEW p \in Ops, Begin(p) PROVE Inv'
<1>1. TasksOK'
  <2>1. request[p] \in [verb : {"install", "uninstall", "update", "fix"}, name : Plugins]
    BY PluginAssumption DEF Inv, TypeOK
  <2>2. Wanted(p) \subseteq Plugins
    BY <2>1 DEF Wanted
  <2> QED
    BY <2>2, TypesNow DEF TasksOK, Begin
<1>2. ver[p] = 0 /\ ~ moved[p]
  BY DEF Inv, TypeOK, Begin, At
<1> QED
  BY <1>1, <1>2, StepKeeps, StoresStay DEF Begin, Fits, Labels, InstallLabels

LEMMA TakeNextKeeps == ASSUME Inv, NEW p \in Ops, TakeNext(p) PROVE Inv'
<1>1. pc[p] = "next" /\ ver[p] = 0 /\ ~ moved[p] /\ StoresOK' /\ UNCHANGED request
  BY StoresStay DEF Inv, TypeOK, TakeNext, At
<1>2. ASSUME NEW n \in todo[p],
             todo' = [todo EXCEPT ![p] = todo[p] \ {n}],
             asked' = [asked EXCEPT ![p] = <<n>>],
             cur' = [cur EXCEPT ![p] = <<n>>],
             Step(p, IF request[p].verb = "uninstall" THEN "lookup" ELSE "resolve")
      PROVE  Inv'
  <2>1. n \in Plugins
    BY DEF Inv, TypeOK
  <2>2. TasksOK'
    BY <1>2, <2>1, TypesNow DEF TasksOK
  <2>3. CASE Removing(p)
    BY <1>1, <1>2, <2>2, <2>3, StepKeeps DEF Removing, Fits, Labels, InstallLabels
  <2>4. CASE ~ Removing(p)
    BY <1>1, <1>2, <2>2, <2>4, StepKeeps DEF Removing, Fits, Labels, InstallLabels
  <2> QED
    BY <2>3, <2>4
<1>3. CASE /\ asked' = [asked EXCEPT ![p] = <<>>] /\ cur' = [cur EXCEPT ![p] = <<>>]
           /\ Step(p, "ended") /\ UNCHANGED todo
  <2>1. TasksOK'
    BY <1>3, TypesNow DEF TasksOK
  <2> QED
    BY <1>1, <1>3, <2>1, StepKeeps DEF Fits, Labels, InstallLabels
<1> QED
  BY <1>2, <1>3 DEF TakeNext

\* Installers: they change the two directories and move on, or fail.
LEMMA ResolveKeeps == ASSUME Inv, NEW p \in Ops, NEW n \in Plugins, Resolve(p, n) PROVE Inv'
<1>1. StoresOK' /\ UNCHANGED <<request, todo, asked>>
  BY StoresStay DEF Resolve
<1>2. CASE Fail(p) /\ UNCHANGED cur
  BY <1>1, <1>2, FinishKeeps, TypesNow DEF Fail, Results, tasks
<1>3. ASSUME NEW m \in Named[n], NEW v \in Versions,
             cur' = [cur EXCEPT ![p] = <<m>>], ver' = [ver EXCEPT ![p] = v],
             said' = [said EXCEPT ![m] = "installing"], Goto(p, FirstStep(m)),
             UNCHANGED <<moved, lf, cfg, result>>
      PROVE  Inv'
  <2>1. FirstStep(m) \in {"swap", "mkdir", "readlock"} /\ m \in Plugins
    BY PluginAssumption DEF FirstStep
  <2>2. /\ lf[p] \in Lockfiles /\ cfg[p] \in Entries /\ moved[p] \in BOOLEAN /\ Agrees(lf[p])
        /\ lf' = [lf EXCEPT ![p] = lf[p]] /\ cfg' = [cfg EXCEPT ![p] = cfg[p]]
        /\ moved' = [moved EXCEPT ![p] = moved[p]]
    BY <1>3 DEF Inv, TypeOK, LogInv
  <2>3. Fits(p, FirstStep(m), v) /\ FirstStep(m) \in Labels
    BY <2>1 DEF Fits, Labels
  <2>4. TasksOK' /\ said' \in [Plugins -> Saids]
    BY <1>1, <1>3, <2>1, TypesNow DEF TasksOK, Saids
  <2> QED
    BY <1>1, <1>3, <2>1, <2>2, <2>3, <2>4, MoveKeeps DEF Goto
<1> QED
  BY <1>2, <1>3 DEF Resolve

\* An installer's label carries its version.
LEMMA HasVersion ==
  ASSUME Inv, NEW p \in Ops, pc[p] \in InstallLabels
  PROVE  ver[p] \in Versions
BY DEF Inv, VerInv

LEMMA DirTypes == ASSUME Inv PROVE dir \in [Plugins -> Trees] /\ bak \in [Plugins -> Trees]
BY DEF Inv, TypeOK

LEMMA MoveAsideKeeps == ASSUME Inv, NEW p \in Ops, NEW n \in Plugins, MoveAside(p, n) PROVE Inv'
<1>1. On(p, n, "swap") /\ ver[p] \in Versions
  BY HasVersion, OnFacts DEF MoveAside, InstallLabels
<1>2. CASE dir[n] = NoTree /\ Step(p, "place") /\ UNCHANGED stores
  BY <1>1, <1>2, StoresStay, GoKeeps DEF Fits, Labels
<1>3. CASE dir[n] # NoTree /\ Fail(p) /\ UNCHANGED stores
  BY <1>1, <1>3, StoresStay, FailKeeps
<1>4. CASE /\ dir[n] # NoTree /\ CanReplace(bak[n])
           /\ bak' = [bak EXCEPT ![n] = dir[n]]
           /\ dir' = [dir EXCEPT ![n] = NoTree]
           /\ moved' = [moved EXCEPT ![p] = TRUE]
           /\ Goto(p, "place")
           /\ UNCHANGED <<lockfile, config, ver, lf, cfg, answers>>
  <2>1. StoresOK'
    BY <1>4, DirTypes, TreeTypes, DirsOnly
  <2>2. /\ ver[p] \in Versions \cup {0} /\ lf[p] \in Lockfiles /\ cfg[p] \in Entries /\ Agrees(lf[p])
        /\ lf' = [lf EXCEPT ![p] = lf[p]] /\ cfg' = [cfg EXCEPT ![p] = cfg[p]]
        /\ ver' = [ver EXCEPT ![p] = ver[p]]
    BY <1>1, <1>4 DEF Inv, TypeOK, LogInv
  <2>3. Fits(p, "place", ver[p]) /\ "place" \in Labels
    BY <1>1 DEF Fits, Labels
  <2> QED
    BY <1>1, <1>4, <2>1, <2>2, <2>3, MoveKeeps, OnFacts, TypesNow DEF Goto, answers
<1> QED
  BY <1>2, <1>3, <1>4 DEF MoveAside

LEMMA PlaceKeeps == ASSUME Inv, NEW p \in Ops, NEW n \in Plugins, Place(p, n) PROVE Inv'
<1>1. On(p, n, "place") /\ ver[p] \in Versions /\ UNCHANGED <<bak, lockfile, config>>
  BY HasVersion, OnFacts DEF Place, InstallLabels
<1>2. CASE dir' = [dir EXCEPT ![n] = Whole(ver[p])] /\ Step(p, IF moved[p] THEN "dropbak" ELSE "readlock")
  <2>1. StoresOK'
    BY <1>1, <1>2, DirTypes, TreeTypes, DirsOnly
  <2> QED
    BY <1>1, <1>2, <2>1, GoKeeps DEF Fits, Labels
<1>3. CASE UNCHANGED dir /\ IF moved[p] THEN Step(p, "restore") ELSE Fail(p)
  <2>1. StoresOK'
    BY <1>1, <1>3, DirTypes, DirsOnly
  <2> QED
    BY <1>1, <1>3, <2>1, GoKeeps, FailKeeps DEF Fits, Labels, InstallLabels
<1> QED
  BY <1>2, <1>3 DEF Place

LEMMA RestoreKeeps == ASSUME Inv, NEW p \in Ops, NEW n \in Plugins, Restore(p, n) PROVE Inv'
<1>1. On(p, n, "restore") /\ Fail(p)
  BY DEF Restore
<1>2. StoresOK'
  BY DirTypes, TreeTypes, DirsOnly DEF Restore
<1> QED
  BY <1>1, <1>2, FailKeeps

LEMMA DropBackupKeeps == ASSUME Inv, NEW p \in Ops, NEW n \in Plugins, DropBackup(p, n) PROVE Inv'
<1>1. On(p, n, "dropbak") /\ ver[p] \in Versions /\ Step(p, "readlock")
  BY HasVersion, OnFacts DEF DropBackup, InstallLabels
<1>2. bak' \in [Plugins -> Trees]
  BY DirTypes, TreeTypes DEF DropBackup
<1>3. StoresOK'
  BY <1>2, DirTypes, DirsOnly DEF DropBackup
<1> QED
  BY <1>1, <1>3, GoKeeps DEF Fits, Labels

LEMMA MakeDirKeeps == ASSUME Inv, NEW p \in Ops, NEW n \in Plugins, MakeDir(p, n) PROVE Inv'
<1>1. On(p, n, "mkdir") /\ ver[p] \in Versions
  BY HasVersion, OnFacts DEF MakeDir, InstallLabels
<1>2. StoresOK'
  BY DirTypes, TreeTypes, DirsOnly DEF MakeDir, Missing
<1> QED
  BY <1>1, <1>2, GoKeeps, FailKeeps DEF MakeDir, Fits, Labels

LEMMA PlaceModuleKeeps == ASSUME Inv, NEW p \in Ops, NEW n \in Plugins, PlaceModule(p, n) PROVE Inv'
<1>1. On(p, n, "module") /\ ver[p] \in Versions /\ UNCHANGED <<bak, lockfile, config>>
  BY HasVersion, OnFacts DEF PlaceModule, InstallLabels
<1>2. CASE dir[n] # NoTree /\ dir' = [dir EXCEPT ![n].body = ver[p]] /\ Step(p, "truncate")
  <2>1. dir[n] \in [body : Versions \cup {0}, manifest : Versions \cup {0}]
    BY <1>2, DirTypes DEF Trees
  <2>2. dir' = [dir EXCEPT ![n] = [dir[n] EXCEPT !.body = ver[p]]]
    BY <1>2
  <2>3. [dir[n] EXCEPT !.body = ver[p]] \in Trees
    BY <1>1, <2>1 DEF Trees
  <2>4. StoresOK'
    BY <1>1, <2>2, <2>3, DirTypes, DirsOnly
  <2> QED
    BY <1>1, <1>2, <2>4, GoKeeps DEF Fits, Labels
<1>3. CASE Fail(p) /\ UNCHANGED dir
  BY <1>1, <1>3, DirTypes, DirsOnly, FailKeeps
<1> QED
  BY <1>2, <1>3 DEF PlaceModule

LEMMA BodyType ==
  ASSUME Inv, NEW n \in Plugins, NEW v \in Versions \cup {0}, ManifestBecomes(n, v)
  PROVE  dir' \in [Plugins -> Trees]
<1>1. (IF dir[n] = NoTree THEN Missing ELSE dir[n].body) \in Versions \cup {0}
  BY DirTypes DEF Trees, Missing
<1> QED
  BY <1>1, DirTypes, TreeTypes DEF ManifestBecomes

LEMMA TruncateManifestKeeps ==
  ASSUME Inv, NEW p \in Ops, NEW n \in Plugins, TruncateManifest(p, n)
  PROVE  Inv'
<1>1. On(p, n, "truncate") /\ ver[p] \in Versions /\ UNCHANGED <<bak, lockfile, config>>
  BY HasVersion, OnFacts DEF TruncateManifest, InstallLabels
<1>2. StoresOK'
  BY <1>1, BodyType, DirTypes, DirsOnly DEF TruncateManifest, Missing
<1> QED
  BY <1>1, <1>2, GoKeeps, FailKeeps DEF TruncateManifest, Fits, Labels

LEMMA WriteManifestKeeps ==
  ASSUME Inv, NEW p \in Ops, NEW n \in Plugins, WriteManifest(p, n)
  PROVE  Inv'
<1>1. On(p, n, "manifest") /\ ver[p] \in Versions /\ UNCHANGED <<bak, lockfile, config>>
  BY HasVersion, OnFacts DEF WriteManifest, InstallLabels
<1>2. StoresOK'
  BY <1>1, BodyType, DirTypes, DirsOnly DEF WriteManifest
<1> QED
  BY <1>1, <1>2, GoKeeps, FailKeeps DEF WriteManifest, Fits, Labels

\* The two files: an op changes its own copy, then writes it out.
LEMMA ReadLockfileKeeps ==
  ASSUME Inv, NEW p \in Ops, NEW n \in Plugins, ReadLockfile(p, n)
  PROVE  Inv'
<1>1. On(p, n, "readlock") /\ ver[p] \in Versions /\ StoresOK'
  BY HasVersion, OnFacts, StoresStay DEF ReadLockfile, InstallLabels
<1>2. /\ lockfile \in Lockfiles /\ Agrees(lockfile) /\ cfg[p] \in Entries /\ moved[p] \in BOOLEAN
      /\ ver' = [ver EXCEPT ![p] = ver[p]] /\ cfg' = [cfg EXCEPT ![p] = cfg[p]]
      /\ moved' = [moved EXCEPT ![p] = moved[p]]
      /\ lf' = [lf EXCEPT ![p] = lockfile]
      /\ pc' = [pc EXCEPT ![p] = "writelock"]
      /\ UNCHANGED <<result, said>>
  BY DEF Inv, TypeOK, LogInv, ReadLockfile, Goto, answers
<1>3. Fits(p, "writelock", ver[p]) /\ "writelock" \in Labels
  BY <1>1 DEF Fits, Labels, InstallLabels
<1> QED
  BY <1>1, <1>2, <1>3, MoveKeeps, OnFacts, TypesNow

LEMMA WriteLockfileKeeps ==
  ASSUME Inv, NEW p \in Ops, NEW n \in Plugins, WriteLockfile(p, n)
  PROVE  Inv'
<1>1. On(p, n, "writelock") /\ UNCHANGED <<dir, bak, config>>
  BY DEF WriteLockfile
<1>2. (Removing(p) \/ ver[p] \in Versions) /\ lf[p] \in Lockfiles /\ Agrees(lf[p])
  BY <1>1, OnFacts DEF Inv, TypeOK, LogInv, VerInv
<1>3. CASE /\ lockfile' = IF Removing(p) THEN Unlocked(lf[p], n) ELSE Locked(lf[p], n, ver[p])
           /\ Step(p, "readconfig")
  <2>1. lockfile' \in Lockfiles /\ Agrees(lockfile')
    BY <1>2, <1>3, LockedAgrees, UnlockedAgrees
  <2>2. StoresOK'
    BY <1>1, <2>1 DEF Inv, TypeOK, StoresOK, Agrees
  <2> QED
    BY <1>1, <1>3, <2>2, GoKeeps DEF Fits, Labels, InstallLabels
<1>4. CASE Fail(p) /\ UNCHANGED lockfile
  BY <1>1, <1>4, DirTypes, DirsOnly, FailKeeps
<1> QED
  BY <1>3, <1>4 DEF WriteLockfile

LEMMA LoadConfigKeeps ==
  ASSUME Inv, NEW p \in Ops, NEW n \in Plugins, LoadConfig(p, n)
  PROVE  Inv'
<1>1. On(p, n, "readconfig") /\ StoresOK'
  BY StoresStay DEF LoadConfig
<1>2. /\ lf[p] \in Lockfiles /\ Agrees(lf[p]) /\ config \in Entries /\ moved[p] \in BOOLEAN
      /\ ver[p] \in Versions \cup {0}
      /\ ver' = [ver EXCEPT ![p] = ver[p]] /\ lf' = [lf EXCEPT ![p] = lf[p]]
      /\ moved' = [moved EXCEPT ![p] = moved[p]]
      /\ cfg' = [cfg EXCEPT ![p] = config]
      /\ pc' = [pc EXCEPT ![p] = "writeconfig"]
      /\ UNCHANGED <<result, said>>
  BY DEF Inv, TypeOK, LogInv, LoadConfig, Goto, answers
<1>3. Fits(p, "writeconfig", ver[p]) /\ "writeconfig" \in Labels
  BY DEF Fits, Labels, InstallLabels
<1> QED
  BY <1>1, <1>2, <1>3, MoveKeeps, OnFacts, TypesNow

LEMMA SaveConfigKeeps ==
  ASSUME Inv, NEW p \in Ops, NEW n \in Plugins, SaveConfig(p, n)
  PROVE  Inv'
<1>1. On(p, n, "writeconfig") /\ UNCHANGED <<dir, bak, lockfile>>
  BY DEF SaveConfig
<1>2. config' \in Entries
  <2>1. config \in Entries /\ cfg[p] \in Entries /\ ver[p] \in Versions \cup {0}
    BY DEF Inv, TypeOK
  <2>2. [cfg[p] EXCEPT ![n] = ver[p]] \in Entries
    BY <2>1 DEF Entries
  <2> QED
    BY <2>1, <2>2 DEF SaveConfig
<1>3. StoresOK'
  BY <1>1, <1>2 DEF Inv, TypeOK, LogInv, StoresOK, Agrees
<1>4. PICK a \in Results : Finish(p, a)
  BY DEF SaveConfig, Succeed, Absent, Fail, Results
<1>5. said' \in [Plugins -> Saids]
  BY TypesNow DEF SaveConfig, Succeed, Absent, Fail, Saids
<1> QED
  BY <1>1, <1>3, <1>4, <1>5, FinishKeeps DEF On

\* Uninstall.
LEMMA LookupKeeps ==
  ASSUME Inv, NEW p \in Ops, NEW n \in Plugins, Lookup(p, n)
  PROVE  Inv'
<1>1. On(p, n, "lookup") /\ StoresOK' /\ Removing(p)
  BY StoresStay, OnFacts DEF Lookup, Inv, VerInv
<1>2. CASE Fail(p)
  BY <1>1, <1>2, FailKeeps
<1>3. ASSUME NEW label \in {"readconfig", "remove"}, Goto(p, label),
             lf' = [lf EXCEPT ![p] = lockfile], said' = [said EXCEPT ![n] = "removing"],
             UNCHANGED <<ver, moved, cfg, result>>
      PROVE  Inv'
  <2>1. /\ lockfile \in Lockfiles /\ Agrees(lockfile) /\ cfg[p] \in Entries
        /\ moved[p] \in BOOLEAN /\ ver[p] \in Versions \cup {0}
        /\ ver' = [ver EXCEPT ![p] = ver[p]] /\ cfg' = [cfg EXCEPT ![p] = cfg[p]]
        /\ moved' = [moved EXCEPT ![p] = moved[p]]
    BY <1>3 DEF Inv, TypeOK, LogInv
  <2>2. Fits(p, label, ver[p]) /\ label \in Labels
    BY <1>1 DEF Fits, Labels, InstallLabels
  <2>3. said' \in [Plugins -> Saids]
    BY <1>3, TypesNow DEF Saids
  <2> QED
    BY <1>1, <1>3, <2>1, <2>2, <2>3, MoveKeeps, OnFacts DEF Goto
<1> QED
  BY <1>2, <1>3 DEF Lookup

LEMMA RemoveDirKeeps ==
  ASSUME Inv, NEW p \in Ops, NEW n \in Plugins, RemoveDir(p, n)
  PROVE  Inv'
<1>1. On(p, n, "remove") /\ UNCHANGED <<bak, lockfile, config>> /\ Removing(p)
  BY OnFacts DEF RemoveDir, Inv, VerInv
<1>2. dir' \in [Plugins -> Trees]
  BY DirTypes, TreeTypes DEF RemoveDir
<1>3. StoresOK'
  BY <1>1, <1>2, DirTypes, DirsOnly
<1>4. CASE Step(p, "writelock") \/ Step(p, "remove")
  BY <1>1, <1>3, <1>4, GoKeeps DEF Fits, Labels, InstallLabels
<1>5. CASE Fail(p)
  BY <1>1, <1>3, <1>5, FailKeeps
<1> QED
  BY <1>4, <1>5 DEF RemoveDir

LEMMA CrashKeeps == ASSUME Inv, NEW p \in Ops, Crash(p) PROVE Inv'
<1>1. StoresOK' /\ TasksOK' /\ UNCHANGED <<request, result, said>>
  BY StoresStay, TypesNow DEF TasksOK, Crash, answers
<1>2. /\ pc' = [pc EXCEPT ![p] = "crashed"] /\ ver' = [ver EXCEPT ![p] = 0]
      /\ moved' = [moved EXCEPT ![p] = FALSE] /\ lf' = [lf EXCEPT ![p] = Blank]
      /\ cfg' = [cfg EXCEPT ![p] = NoEntries]
  BY DEF Crash, Goto, Blank
<1>3. Fits(p, "crashed", 0) /\ "crashed" \in Labels
  BY DEF Fits, Labels, InstallLabels
<1> QED
  BY <1>1, <1>2, <1>3, BlankAgrees, TypesNow, MoveKeeps

-----------------------------------------------------------------------------
(* The invariant.                                                          *)

LEMMA InitInv == Init => Inv
<1> SUFFICES ASSUME Init PROVE Inv
  OBVIOUS
<1>1. PICK installed \in InitialVersions :
        /\ dir = [n \in Plugins |->
                    IF HasDir(n) /\ installed[n] # 0 THEN Whole(installed[n]) ELSE NoTree]
        /\ lockfile = [plugins |-> installed,
                       log |-> [n \in Plugins |-> IF installed[n] = 0 THEN 0 ELSE 1]]
        /\ config = installed
  BY DEF Init
<1>2. installed \in Entries
  BY PluginAssumption DEF Entries
<1>3. dir \in [Plugins -> Trees] /\ bak \in [Plugins -> Trees]
  BY <1>1, <1>2, TreeTypes DEF Init, Entries
<1>4. lockfile \in Lockfiles /\ Agrees(lockfile)
  BY <1>1, <1>2 DEF Lockfiles, Entries, Agrees
<1>5. lf \in [Ops -> Lockfiles] /\ cfg \in [Ops -> Entries] /\ \A p \in Ops : Agrees(lf[p])
  BY BlankAgrees DEF Init, Blank
<1>6. TypeOK
  BY <1>1, <1>2, <1>3, <1>4, <1>5 DEF Init, TypeOK, Labels
<1>7. LogInv
  BY <1>4, <1>5 DEF LogInv
<1>8. VerInv
  BY DEF Init, VerInv, InstallLabels
<1> QED
  BY <1>6, <1>7, <1>8 DEF Inv

LEMMA NextInv == Inv /\ [Next]_vars => Inv'
<1> SUFFICES ASSUME Inv, [Next]_vars PROVE Inv'
  OBVIOUS
<1>1. ASSUME NEW p \in Ops, Op(p) PROVE Inv'
  <2>1. CASE Begin(p) \/ TakeNext(p)
    BY <2>1, BeginKeeps, TakeNextKeeps
  <2>2. ASSUME NEW n \in Plugins, Install(p, n) PROVE Inv'
    BY <2>2, ResolveKeeps, MoveAsideKeeps, PlaceKeeps, RestoreKeeps, DropBackupKeeps, MakeDirKeeps,
       PlaceModuleKeeps, TruncateManifestKeeps, WriteManifestKeeps DEF Install
  <2>3. ASSUME NEW n \in Plugins, Uninstall(p, n) PROVE Inv'
    BY <2>3, LookupKeeps, RemoveDirKeeps DEF Uninstall
  <2>4. ASSUME NEW n \in Plugins, Record(p, n) PROVE Inv'
    BY <2>4, ReadLockfileKeeps, WriteLockfileKeeps, LoadConfigKeeps, SaveConfigKeeps DEF Record
  <2> QED
    BY <1>1, <2>1, <2>2, <2>3, <2>4 DEF Op
<1>2. ASSUME NEW p \in Ops, Crash(p) PROVE Inv'
  BY <1>2, CrashKeeps
<1>3. CASE UNCHANGED vars
  BY <1>3 DEF Inv, TypeOK, LogInv, VerInv, Agrees, Removing, vars, stores, locals, tasks, answers
<1> QED
  BY <1>1, <1>2, <1>3 DEF Next

\* Whatever the ops, and however they interleave, fail and die, every variable has its type:
\* no op carries the version or the backup of one plugin over to the next.
THEOREM TypeCorrect == Spec => []TypeOK
<1>1. Inv => TypeOK
  BY DEF Inv
<1> QED
  BY InitInv, NextInv, <1>1, PTL DEF Spec

\* Concurrent ops may lose each other's entries, but none of them ever leaves samuel.lock
\* with mutation records of a plugin it does not list.
THEOREM LogFollowsPlugins == Spec => []LogOnlyForLocked
<1>1. Inv => LogOnlyForLocked
  BY DEF Inv, LogInv, Agrees, LogOnlyForLocked
<1> QED
  BY InitInv, NextInv, <1>1, PTL DEF Spec
-----------------------------------------------------------------------------
(* Ops that do not overlap.  One op at most is under way (TurnInv); each   *)
(* plugin it has to deal with is yet to come, at hand, or answered for     *)
(* (ShareInv); and what the stores of the plugin at hand hold is known     *)
(* from the label (StageInv).                                              *)

Working(p) == pc[p] \notin {"start", "next", "ended", "crashed"}

TurnInv == \A p \in Ops : ~ At(p, "start") => Started(p)

\* What p has to do, does and has done.
Share(p) ==
  /\ At(p, "start") => cur[p] = <<>> /\ asked[p] = <<>> /\ \A n \in Plugins : result[p][n] = "none"
  /\ Ended(p) => cur[p] = <<>> /\ todo[p] = {}
  /\ \A n \in todo[p] : result[p][n] = "none"
  /\ \A n \in Plugins : asked[p] = <<n>> =>
       /\ n \notin todo[p]
       /\ Working(p) => result[p][n] = "none"
       /\ At(p, "next") => result[p][n] # "none"
  /\ \A n \in Plugins : Working(p) /\ cur[p] = <<n>> => Means(p, n)
  /\ At(p, "resolve") \/ (Working(p) /\ Removing(p)) => cur[p] = asked[p]

ShareInv == \A p \in Ops : Share(p)

\* From this label on an install has its plugin directory.
Installed(p, n) ==
  /\ ~ Removing(p) /\ ver[p] \in Versions
  /\ HasDir(n) => dir[n] = Whole(ver[p])

\* p's copy of the lockfile is the file, and lists the plugin it removes.
ToRemove(p, n) == Removing(p) /\ lf[p] = lockfile /\ lf[p].plugins[n] # 0

\* An uninstall that has found an entry has taken away the directory and the entry.
Removed(p, n) ==
  lf[p].plugins[n] # 0 => dir[n] = NoTree /\ lockfile.plugins[n] = 0 /\ lockfile.log[n] = 0

\* What is said of a plugin while an op changes its stores.
Busy(p) == IF Removing(p) THEN "removing" ELSE "installing"

Stage(p, n) ==
  /\ pc[p] \notin {"lookup", "resolve"} => said[n] = Busy(p)
  /\ pc[p] \in {"resolve", "swap", "place", "restore", "dropbak", "mkdir", "module", "truncate",
                "manifest"} => ~ Removing(p)
  /\ Removing(p) => ver[p] = 0
  /\ pc[p] \in {"swap", "place", "restore", "dropbak"} => Tier[n] = "skill"
  /\ pc[p] \in {"mkdir", "module", "truncate", "manifest"} => Tier[n] = "wasm"
  /\ pc[p] \in {"truncate", "manifest"} => dir[n] # NoTree /\ dir[n].body = ver[p]
  /\ pc[p] \in {"dropbak", "readlock"} => Installed(p, n)
  /\ At(p, "remove") => ToRemove(p, n)
  /\ At(p, "writelock") =>
       /\ lf[p] = lockfile
       /\ Installed(p, n) \/ (ToRemove(p, n) /\ dir[n] = NoTree)
  /\ pc[p] \in {"readconfig", "writeconfig"} =>
       \/ Installed(p, n) /\ lockfile.plugins[n] = ver[p]
       \/ Removing(p) /\ Removed(p, n)
  /\ At(p, "writeconfig") => cfg[p] = config

StageInv == \A p \in Ops, n \in Plugins : Working(p) /\ cur[p] = <<n>> => Stage(p, n)

\* What a repair is to leave of a plugin.
Healthy(n) == Loadable(n) /\ (CheckOnePlugin(n) \/ Refused(n))

\* p has failed at nothing, and was served the plugins it asked for; no later op has begun.
Served(p) ==
  /\ \A n \in Plugins : result[p][n] \in {"none", "ok"}
  /\ Working(p) => cur[p] = asked[p]
  /\ \A q \in Ops : p \in After[q] => At(q, "start")

\* As long as a repair goes well, every plugin is healthy but those it has yet to see to.
HealthyInv ==
  \A p \in Ops, n \in Plugins :
    /\ request[p].verb = "fix" /\ pc[p] \notin {"start", "crashed"} /\ Served(p)
    /\ n \notin todo[p] /\ ~ (Working(p) /\ cur[p] = <<n>>)
    /\ HasDir(n) /\ lockfile.plugins[n] # 0
    => Healthy(n)

-----------------------------------------------------------------------------
(* What one step of an op under way does (Outcome): it has its plugin's    *)
(* stores changed and no other's, and goes on in the stage of its new      *)
(* label, or answers for the plugin.                                       *)

Under(label) == label \in Labels \ {"start", "next", "ended", "crashed"}

\* What a reported success stands for.
InPlace(n) ==
  /\ lockfile.plugins[n] # 0 /\ config[n] = lockfile.plugins[n]
  /\ HasDir(n) => dir[n] = Whole(lockfile.plugins[n])

Gone(n) == dir[n] = NoTree /\ lockfile.plugins[n] = 0 /\ lockfile.log[n] = 0 /\ config[n] = 0

Complete(p, n) == IF Removing(p) THEN Gone(n) ELSE InPlace(n)

OnlyStore(n) == \A m \in Plugins \ {n} : Store(m)' = Store(m)

\* A success that is reported, or goes on being so.
Truthful(n) ==
  /\ said'[n] = "installed" => InPlace(n)' \/ (said[n] = "installed" /\ Store(n)' = Store(n))
  /\ said'[n] = "removed" => Gone(n)' \/ (said[n] = "removed" /\ Store(n)' = Store(n))

\* Only what is said of n changes.
OnlySaid(n) == \A m \in Plugins \ {n} : said'[m] = said[m]

\* No other op changes what it knows and says.
OnlyOp(p) ==
  /\ request' = request
  /\ \A q \in Ops \ {p} :
       /\ pc'[q] = pc[q] /\ todo'[q] = todo[q]
       /\ asked'[q] = asked[q] /\ cur'[q] = cur[q] /\ result'[q] = result[q]

Answers(p, n) ==
  /\ At(p, "next")'
  /\ \A m \in Plugins :
       IF asked[p] = <<m>>
         THEN /\ result'[p][m] # "none"
              /\ result'[p][m] = "ok" => m = n /\ Complete(p, n)'
         ELSE result'[p][m] = result[p][m]

Outcome(p, n) ==
  /\ Working(p) /\ cur[p] = <<n>>
  /\ cur'[p] = cur[p] /\ asked'[p] = asked[p] /\ todo'[p] = todo[p]
  /\ OnlyOp(p) /\ OnlyStore(n) /\ OnlySaid(n) /\ Truthful(n)
  /\ \/ Working(p)' /\ ~ At(p, "resolve")' /\ Stage(p, n)' /\ result'[p] = result[p]
     \/ Answers(p, n)

\* p has fetched a release that calls itself n.
Fetched(p, n) ==
  /\ At(p, "resolve") /\ ~ At(p, "resolve")' /\ Working(p)' /\ UNCHANGED stores
  /\ cur'[p] = <<n>> /\ Means(p, n) /\ Stage(p, n)'
  /\ asked'[p] = asked[p] /\ todo'[p] = todo[p] /\ result'[p] = result[p]
  /\ OnlyOp(p) /\ OnlySaid(n) /\ said'[n] = "installing"

SerialInv == Inv /\ TurnInv /\ ShareInv /\ StageInv

LEMMA FinishOutcome ==
  ASSUME Inv, NEW p \in Ops, NEW n \in Plugins, NEW label, On(p, n, label), Under(label),
         NEW a \in Results \ {"none"}, Finish(p, a), OnlyStore(n), OnlySaid(n), Truthful(n),
         a = "ok" => asked[p] = <<n>> /\ Complete(p, n)'
  PROVE  Outcome(p, n)
<1>1. Working(p) /\ cur[p] = <<n>> /\ UNCHANGED <<request, todo, asked, cur>>
  BY DEF On, Under, Working, At, tasks
<1>2. pc' = [pc EXCEPT ![p] = "next"] /\ pc \in [Ops -> Labels]
  BY DEF Inv, TypeOK, Finish, Goto
<1>3. /\ \A q \in Ops \ {p} : result'[q] = result[q]
      /\ \A m \in Plugins : result'[p][m] = IF asked[p] = <<m>> THEN a ELSE result[p][m]
  BY DEF Inv, TypeOK, Finish
<1>4. OnlyOp(p)
  BY <1>1, <1>2, <1>3 DEF OnlyOp
<1>5. Answers(p, n)
  BY <1>2, <1>3 DEF Answers, At
<1> QED
  BY <1>1, <1>4, <1>5 DEF Outcome

LEMMA MoveOutcome ==
  ASSUME Inv, NEW p \in Ops, NEW n \in Plugins, NEW label, On(p, n, label), Under(label),
         NEW next, Under(next), next # "resolve", Goto(p, next), UNCHANGED result, OnlyStore(n),
         OnlySaid(n), Truthful(n), Stage(p, n)'
  PROVE  Outcome(p, n)
<1>1. Working(p) /\ cur[p] = <<n>> /\ UNCHANGED <<request, todo, asked, cur>>
  BY DEF On, Under, Working, At, tasks
<1>2. pc \in [Ops -> Labels] /\ pc' = [pc EXCEPT ![p] = next]
  BY DEF Inv, TypeOK, Goto
<1>3. Working(p)' /\ ~ At(p, "resolve")' /\ OnlyOp(p)
  BY <1>1, <1>2 DEF OnlyOp, Working, Under, At
<1> QED
  BY <1>1, <1>3 DEF Outcome

\* The stage an op on n is in, and what a step that only moves on keeps.
LEMMA OnStage ==
  ASSUME SerialInv, NEW p \in Ops, NEW n \in Plugins, NEW label, On(p, n, label), Under(label)
  PROVE  Stage(p, n) /\ pc[p] = label /\ Inv
BY DEF SerialInv, StageInv, On, Under, Working, At

LEMMA StepFacts ==
  ASSUME Inv, NEW p \in Ops, NEW label, Step(p, label)
  PROVE  /\ Goto(p, label) /\ pc'[p] = label /\ UNCHANGED <<locals, answers>>
         /\ ver' = ver /\ moved' = moved /\ lf' = lf /\ cfg' = cfg /\ said' = said
BY DEF Inv, TypeOK, Step, Goto, locals, answers

\* While an op is busy with n, no success is reported of it.
LEMMA NothingSaid ==
  ASSUME NEW p \in Ops, NEW n \in Plugins, Stage(p, n), pc[p] \notin {"lookup", "resolve"},
         said' = said
  PROVE  OnlySaid(n) /\ Truthful(n)
BY DEF Stage, Busy, OnlySaid, Truthful

LEMMA BusyMove ==
  ASSUME SerialInv, NEW p \in Ops, NEW n \in Plugins, NEW label, On(p, n, label), Under(label),
         label \notin {"lookup", "resolve"}, NEW next, Under(next), next # "resolve",
         Goto(p, next), UNCHANGED answers, OnlyStore(n), Stage(p, n)'
  PROVE  Outcome(p, n)
BY MoveOutcome, OnStage, NothingSaid DEF answers

\* Only the directories of n change.
LEMMA DirOnlyStore ==
  ASSUME NEW n \in Plugins, UNCHANGED <<lockfile, config>>,
         \A m \in Plugins \ {n} : dir'[m] = dir[m] /\ bak'[m] = bak[m]
  PROVE  OnlyStore(n)
BY DEF OnlyStore, Store

LEMMA StoresStayOnly == ASSUME UNCHANGED stores, NEW n \in Plugins PROVE OnlyStore(n)
BY DEF OnlyStore, Store, stores

LEMMA FailOutcome ==
  ASSUME SerialInv, NEW p \in Ops, NEW n \in Plugins, NEW label, On(p, n, label), Under(label),
         label \notin {"lookup", "resolve"}, Fail(p), OnlyStore(n)
  PROVE  Outcome(p, n)
BY FinishOutcome, OnStage, NothingSaid DEF Fail, Results

\* A failure that changes no store.
LEMMA FailStays ==
  ASSUME SerialInv, NEW p \in Ops, NEW n \in Plugins, NEW label, On(p, n, label), Under(label),
         Fail(p), UNCHANGED stores
  PROVE  Outcome(p, n)
<1>1. OnlyStore(n) /\ OnlySaid(n) /\ Truthful(n)
  BY StoresStayOnly DEF Fail, OnlySaid, Truthful, Store, stores
<1> QED
  BY <1>1, FinishOutcome DEF Fail, Results, SerialInv

-----------------------------------------------------------------------------
(* One lemma per action of an op on a plugin.                              *)

LEMMA ResolveOutcome ==
  ASSUME SerialInv, NEW p \in Ops, NEW n \in Plugins, Resolve(p, n)
  PROVE  Outcome(p, n) \/ \E m \in Plugins : Fetched(p, m)
<1>1. /\ At(p, "resolve") /\ asked[p] = <<n>> /\ cur[p] = <<n>> /\ Under("resolve")
      /\ UNCHANGED <<stores, request, todo, asked>>
  BY DEF Resolve, Under, Labels, SerialInv, ShareInv, Share
<1>2. Working(p) /\ Stage(p, n) /\ Inv
  BY <1>1 DEF SerialInv, StageInv, Working, At
<1>3. CASE Fail(p) /\ UNCHANGED cur
  <2>1. On(p, n, "resolve")
    BY <1>1, <1>3 DEF On, tasks
  <2> QED
    BY <1>1, <1>3, <2>1, FailStays
<1>4. ASSUME NEW m \in Named[n], NEW v \in Versions,
             cur' = [cur EXCEPT ![p] = <<m>>], ver' = [ver EXCEPT ![p] = v],
             said' = [said EXCEPT ![m] = "installing"], Goto(p, FirstStep(m)),
             UNCHANGED <<moved, lf, cfg, result>>
      PROVE  m \in Plugins /\ Fetched(p, m)
  <2>1. m \in Plugins /\ Tier[m] \in {"skill", "wasm", "oci"}
    BY PluginAssumption
  <2>2. ~ Removing(p) /\ ver'[p] = v /\ said'[m] = "installing" /\ OnlySaid(m)
    BY <1>1, <1>2, <1>4, <2>1 DEF Stage, At, Inv, TypeOK, OnlySaid
  <2>3. FirstStep(m) \in {"swap", "mkdir", "readlock"}
    BY DEF FirstStep
  <2>4. /\ pc'[p] = FirstStep(m) /\ cur'[p] = <<m>>
        /\ \A q \in Ops \ {p} : pc'[q] = pc[q] /\ cur'[q] = cur[q]
    BY <1>2, <1>4 DEF Goto, Inv, TypeOK
  <2>5. Stage(p, m)'
    BY <1>1, <2>1, <2>2, <2>3, <2>4 DEF Stage, Busy, FirstStep, Installed, HasDir, Removing, At
  <2>6. OnlyOp(p)
    BY <1>1, <1>4, <2>4 DEF OnlyOp
  <2>7. Working(p)' /\ ~ At(p, "resolve")'
    BY <2>3, <2>4 DEF Working, At
  <2> QED
    BY <1>1, <1>4, <2>1, <2>2, <2>4, <2>5, <2>6, <2>7 DEF Fetched, Means
<1> QED
  BY <1>3, <1>4 DEF Resolve

LEMMA MoveAsideOutcome ==
  ASSUME SerialInv, NEW p \in Ops, NEW n \in Plugins, MoveAside(p, n)
  PROVE  Outcome(p, n)
<1>1. On(p, n, "swap") /\ Under("swap") /\ Under("place")
  BY DEF MoveAside, Under, Labels
<1>2. Stage(p, n) /\ pc[p] = "swap" /\ Inv /\ dir \in [Plugins -> Trees] /\ bak \in [Plugins -> Trees]
  BY <1>1, OnStage, DirTypes
<1>3. OnlyStore(n)
  BY <1>2, DirOnlyStore, StoresStayOnly DEF MoveAside
<1>4. CASE Fail(p)
  BY <1>1, <1>2, <1>3, <1>4, FailOutcome
<1>5. ASSUME Goto(p, "place"), UNCHANGED <<ver, lf, cfg, answers>>
      PROVE  Outcome(p, n)
  <2>1. pc'[p] = "place" /\ request' = request /\ ver' = ver /\ said' = said
    BY <1>1, <1>2, <1>5 DEF Goto, Inv, TypeOK, On, tasks, answers
  <2>2. Stage(p, n)'
    BY <1>2, <2>1 DEF Stage, Busy, Removing, At
  <2> QED
    BY <1>1, <1>2, <1>3, <1>5, <2>2, BusyMove
<1> QED
  BY <1>4, <1>5 DEF MoveAside, Step, locals, answers

LEMMA PlaceOutcome ==
  ASSUME SerialInv, NEW p \in Ops, NEW n \in Plugins, Place(p, n)
  PROVE  Outcome(p, n)
<1>1. /\ On(p, n, "place") /\ Under("place") /\ Under("restore") /\ Under("dropbak")
      /\ Under("readlock") /\ UNCHANGED <<bak, lockfile, config>>
  BY DEF Place, Under, Labels
<1>2. /\ Stage(p, n) /\ pc[p] = "place" /\ Inv /\ dir \in [Plugins -> Trees]
      /\ ver[p] \in Versions /\ ~ Removing(p) /\ request' = request /\ Tier[n] = "skill"
  BY <1>1, OnStage, DirTypes, HasVersion DEF InstallLabels, Stage, On, tasks
<1>3. OnlyStore(n)
  BY <1>1, <1>2, DirOnlyStore DEF Place
<1>4. CASE dir' = [dir EXCEPT ![n] = Whole(ver[p])] /\ Step(p, IF moved[p] THEN "dropbak" ELSE "readlock")
  <2>1. PICK next \in {"dropbak", "readlock"} : Step(p, next)
    BY <1>4
  <2>2. Stage(p, n)'
    BY <1>2, <1>4, <2>1, StepFacts DEF Stage, Busy, Installed, Removing, At
  <2> QED
    BY <1>1, <1>2, <1>3, <2>1, <2>2, BusyMove, StepFacts
<1>5. CASE Step(p, "restore")
  <2>1. Stage(p, n)'
    BY <1>2, <1>5, StepFacts DEF Stage, Busy, Removing, At
  <2> QED
    BY <1>1, <1>2, <1>3, <1>5, <2>1, BusyMove, StepFacts
<1>6. CASE Fail(p)
  BY <1>1, <1>2, <1>3, <1>6, FailOutcome
<1> QED
  BY <1>4, <1>5, <1>6 DEF Place

LEMMA RestoreOutcome ==
  ASSUME SerialInv, NEW p \in Ops, NEW n \in Plugins, Restore(p, n)
  PROVE  Outcome(p, n)
<1>1. On(p, n, "restore") /\ Under("restore") /\ Fail(p)
  BY DEF Restore, Under, Labels
<1>2. Inv /\ dir \in [Plugins -> Trees] /\ bak \in [Plugins -> Trees]
  BY DirTypes DEF SerialInv
<1>3. OnlyStore(n)
  BY <1>2, DirOnlyStore DEF Restore
<1> QED
  BY <1>1, <1>2, <1>3, FailOutcome

LEMMA DropBackupOutcome ==
  ASSUME SerialInv, NEW p \in Ops, NEW n \in Plugins, DropBackup(p, n)
  PROVE  Outcome(p, n)
<1>1. /\ On(p, n, "dropbak") /\ Under("dropbak") /\ Under("readlock") /\ Step(p, "readlock")
      /\ UNCHANGED <<dir, lockfile, config>>
  BY DEF DropBackup, Under, Labels
<1>2. Stage(p, n) /\ pc[p] = "dropbak" /\ Inv /\ bak \in [Plugins -> Trees] /\ request' = request
  BY <1>1, OnStage, DirTypes DEF On, tasks
<1>3. OnlyStore(n)
  BY <1>1, <1>2, DirOnlyStore DEF DropBackup
<1>4. Stage(p, n)'
  BY <1>1, <1>2, StepFacts DEF Stage, Busy, Installed, Removing, At
<1> QED
  BY <1>1, <1>2, <1>3, <1>4, BusyMove, StepFacts

LEMMA MakeDirOutcome ==
  ASSUME SerialInv, NEW p \in Ops, NEW n \in Plugins, MakeDir(p, n)
  PROVE  Outcome(p, n)
<1>1. /\ On(p, n, "mkdir") /\ Under("mkdir") /\ Under("module")
      /\ UNCHANGED <<bak, lockfile, config>>
  BY DEF MakeDir, Under, Labels
<1>2. Stage(p, n) /\ pc[p] = "mkdir" /\ Inv /\ dir \in [Plugins -> Trees] /\ request' = request
  BY <1>1, OnStage, DirTypes DEF On, tasks
<1>3. OnlyStore(n)
  BY <1>1, <1>2, DirOnlyStore DEF MakeDir
<1>4. CASE Step(p, "module")
  <2>1. Stage(p, n)'
    BY <1>2, <1>4, StepFacts DEF Stage, Busy, Removing, At
  <2> QED
    BY <1>1, <1>2, <1>3, <1>4, <2>1, BusyMove, StepFacts
<1>5. CASE Fail(p)
  BY <1>1, <1>2, <1>3, <1>5, FailOutcome
<1> QED
  BY <1>4, <1>5 DEF MakeDir

LEMMA PlaceModuleOutcome ==
  ASSUME SerialInv, NEW p \in Ops, NEW n \in Plugins, PlaceModule(p, n)
  PROVE  Outcome(p, n)
<1>1. /\ On(p, n, "module") /\ Under("module") /\ Under("truncate")
      /\ UNCHANGED <<bak, lockfile, config>>
  BY DEF PlaceModule, Under, Labels
<1>2. /\ Stage(p, n) /\ pc[p] = "module" /\ Inv /\ dir \in [Plugins -> Trees]
      /\ ver[p] \in Versions /\ request' = request
  BY <1>1, OnStage, DirTypes, HasVersion DEF InstallLabels, On, tasks
<1>3. CASE dir[n] # NoTree /\ dir' = [dir EXCEPT ![n].body = ver[p]] /\ Step(p, "truncate")
  <2>1. dir[n] \in [body : Versions \cup {0}, manifest : Versions \cup {0}]
    BY <1>2, <1>3 DEF Trees
  <2>2. dir' = [dir EXCEPT ![n] = [dir[n] EXCEPT !.body = ver[p]]]
    BY <1>3
  <2>3. dir'[n].body = ver[p] /\ dir'[n] # NoTree
    BY <1>2, <2>1, <2>2, PluginAssumption
  <2>4. Stage(p, n)'
    BY <1>2, <1>3, <2>3, StepFacts DEF Stage, Busy, Removing, At
  <2>5. OnlyStore(n)
    BY <1>1, <1>2, <2>2, DirOnlyStore
  <2> QED
    BY <1>1, <1>2, <1>3, <2>4, <2>5, BusyMove, StepFacts
<1>4. CASE Fail(p) /\ UNCHANGED dir
  <2>1. OnlyStore(n)
    BY <1>1, <1>4, DirOnlyStore
  <2> QED
    BY <1>1, <1>2, <1>4, <2>1, FailOutcome
<1> QED
  BY <1>3, <1>4 DEF PlaceModule

LEMMA TruncateManifestOutcome ==
  ASSUME SerialInv, NEW p \in Ops, NEW n \in Plugins, TruncateManifest(p, n)
  PROVE  Outcome(p, n)
<1>1. /\ On(p, n, "truncate") /\ Under("truncate") /\ Under("manifest")
      /\ UNCHANGED <<bak, lockfile, config>>
  BY DEF TruncateManifest, Under, Labels
<1>2. /\ Stage(p, n) /\ pc[p] = "truncate" /\ Inv /\ dir \in [Plugins -> Trees]
      /\ ver[p] \in Versions /\ request' = request
  BY <1>1, OnStage, DirTypes, HasVersion DEF InstallLabels, On, tasks
<1>3. OnlyStore(n)
  BY <1>1, <1>2, DirOnlyStore DEF TruncateManifest, ManifestBecomes
<1>4. CASE ManifestBecomes(n, Missing) /\ Step(p, "manifest")
  <2>1. dir[n] # NoTree /\ dir[n].body = ver[p]
    BY <1>2 DEF Stage
  <2>2. dir'[n] = Tree(ver[p], Missing)
    BY <1>2, <1>4, <2>1 DEF ManifestBecomes
  <2>3. dir'[n] # NoTree /\ dir'[n].body = ver[p]
    BY <1>2, <2>2, PluginAssumption DEF Tree, Missing
  <2>4. Stage(p, n)'
    BY <1>2, <1>4, <2>3, StepFacts DEF Stage, Busy, Removing, At
  <2> QED
    BY <1>1, <1>2, <1>3, <1>4, <2>4, BusyMove, StepFacts
<1>5. CASE Fail(p)
  BY <1>1, <1>2, <1>3, <1>5, FailOutcome
<1> QED
  BY <1>4, <1>5 DEF TruncateManifest

LEMMA WriteManifestOutcome ==
  ASSUME SerialInv, NEW p \in Ops, NEW n \in Plugins, WriteManifest(p, n)
  PROVE  Outcome(p, n)
<1>1. /\ On(p, n, "manifest") /\ Under("manifest") /\ Under("readlock")
      /\ UNCHANGED <<bak, lockfile, config>>
  BY DEF WriteManifest, Under, Labels
<1>2. /\ Stage(p, n) /\ pc[p] = "manifest" /\ Inv /\ dir \in [Plugins -> Trees]
      /\ ver[p] \in Versions /\ request' = request
  BY <1>1, OnStage, DirTypes, HasVersion DEF InstallLabels, On, tasks
<1>3. OnlyStore(n)
  BY <1>1, <1>2, DirOnlyStore DEF WriteManifest, ManifestBecomes
<1>4. CASE ManifestBecomes(n, ver[p]) /\ Step(p, "readlock")
  <2>1. dir[n] # NoTree /\ dir[n].body = ver[p] /\ ~ Removing(p)
    BY <1>2 DEF Stage
  <2>2. dir'[n] = Whole(ver[p])
    BY <1>2, <1>4, <2>1 DEF ManifestBecomes, Whole
  <2>3. Stage(p, n)'
    BY <1>2, <1>4, <2>1, <2>2, StepFacts DEF Stage, Busy, Installed, Removing, At
  <2> QED
    BY <1>1, <1>2, <1>3, <1>4, <2>3, BusyMove, StepFacts
<1>5. CASE Fail(p)
  BY <1>1, <1>2, <1>3, <1>5, FailOutcome
<1> QED
  BY <1>4, <1>5 DEF WriteManifest

LEMMA ReadLockfileOutcome ==
  ASSUME SerialInv, NEW p \in Ops, NEW n \in Plugins, ReadLockfile(p, n)
  PROVE  Outcome(p, n)
<1>1. /\ On(p, n, "readlock") /\ Under("readlock") /\ Under("writelock") /\ OnlyStore(n)
      /\ UNCHANGED stores
  BY StoresStayOnly DEF ReadLockfile, Under, Labels
<1>2. Stage(p, n) /\ pc[p] = "readlock" /\ Inv /\ request' = request
  BY <1>1, OnStage DEF On, tasks
<1>3. pc'[p] = "writelock" /\ lf'[p] = lockfile /\ ver' = ver /\ said' = said
  BY <1>2 DEF ReadLockfile, Goto, Inv, TypeOK, answers
<1>4. Stage(p, n)'
  BY <1>1, <1>2, <1>3 DEF Stage, Busy, Installed, ToRemove, Removing, At, stores
<1> QED
  BY <1>1, <1>2, <1>4, BusyMove DEF ReadLockfile

LEMMA WriteLockfileOutcome ==
  ASSUME SerialInv, NEW p \in Ops, NEW n \in Plugins, WriteLockfile(p, n)
  PROVE  Outcome(p, n)
<1>1. /\ On(p, n, "writelock") /\ Under("writelock") /\ Under("readconfig")
      /\ UNCHANGED <<dir, bak, config>>
  BY DEF WriteLockfile, Under, Labels
<1>2. /\ Stage(p, n) /\ pc[p] = "writelock" /\ Inv /\ request' = request
      /\ lf[p] = lockfile /\ lockfile \in Lockfiles
  BY <1>1, OnStage DEF On, tasks, Inv, TypeOK, Stage, At
<1>3. CASE /\ lockfile' = IF Removing(p) THEN Unlocked(lf[p], n) ELSE Locked(lf[p], n, ver[p])
           /\ Step(p, "readconfig")
  <2>1. OnlyStore(n)
    BY <1>1, <1>2, <1>3 DEF OnlyStore, Store, Locked, Unlocked, Lockfiles, Entries
  <2>2. pc'[p] = "readconfig" /\ ver' = ver /\ lf' = lf /\ said' = said /\ (Removing(p)' <=> Removing(p))
    BY <1>2, <1>3, StepFacts DEF Removing
  <2>3. CASE Removing(p)
    <3>1. ToRemove(p, n) /\ dir[n] = NoTree /\ ver[p] = 0
      BY <1>2, <2>3 DEF Stage, Busy, Installed, At
    <3>2. lockfile'.plugins[n] = 0 /\ lockfile'.log[n] = 0
      BY <1>2, <1>3, <2>3 DEF Unlocked, Lockfiles, Entries
    <3> QED
      BY <1>1, <1>2, <1>3, <2>1, <2>2, <2>3, <3>1, <3>2, BusyMove, StepFacts
      DEF Stage, Busy, Removed, Removing, At
  <2>4. CASE ~ Removing(p)
    <3>1. Installed(p, n)
      BY <1>2, <2>4 DEF Stage, Busy, ToRemove, At
    <3>2. lockfile'.plugins[n] = ver[p]
      BY <1>2, <1>3, <2>4 DEF Locked, Lockfiles, Entries
    <3>3. Stage(p, n)'
      BY <1>1, <1>2, <2>2, <2>4, <3>1, <3>2 DEF Stage, Busy, Installed, Removing, At
    <3> QED
      BY <1>1, <1>2, <1>3, <2>1, <3>3, BusyMove, StepFacts
  <2> QED
    BY <2>3, <2>4
<1>4. CASE Fail(p) /\ UNCHANGED lockfile
  <2>1. OnlyStore(n)
    BY <1>1, <1>4, DirOnlyStore
  <2> QED
    BY <1>1, <1>2, <1>4, <2>1, FailOutcome
<1> QED
  BY <1>3, <1>4 DEF WriteLockfile

LEMMA LoadConfigOutcome ==
  ASSUME SerialInv, NEW p \in Ops, NEW n \in Plugins, LoadConfig(p, n)
  PROVE  Outcome(p, n)
<1>1. /\ On(p, n, "readconfig") /\ Under("readconfig") /\ Under("writeconfig") /\ OnlyStore(n)
      /\ UNCHANGED stores
  BY StoresStayOnly DEF LoadConfig, Under, Labels
<1>2. Stage(p, n) /\ pc[p] = "readconfig" /\ Inv /\ request' = request
  BY <1>1, OnStage DEF On, tasks
<1>3. pc'[p] = "writeconfig" /\ cfg'[p] = config /\ ver' = ver /\ lf' = lf /\ said' = said
  BY <1>2 DEF LoadConfig, Goto, Inv, TypeOK, answers
<1>4. Stage(p, n)'
  BY <1>1, <1>2, <1>3 DEF Stage, Busy, Installed, Removed, Removing, At, stores
<1> QED
  BY <1>1, <1>2, <1>4, BusyMove DEF LoadConfig

LEMMA SaveConfigOutcome ==
  ASSUME SerialInv, NEW p \in Ops, NEW n \in Plugins, SaveConfig(p, n)
  PROVE  Outcome(p, n)
<1>1. /\ On(p, n, "writeconfig") /\ Under("writeconfig") /\ UNCHANGED <<dir, bak, lockfile>>
  BY DEF SaveConfig, Under, Labels
<1>2. /\ Stage(p, n) /\ pc[p] = "writeconfig" /\ Inv /\ request' = request
      /\ cfg[p] = config /\ config \in Entries /\ said \in [Plugins -> Saids]
  BY <1>1, OnStage, TypesNow DEF On, tasks, Inv, TypeOK, Stage, At
<1>3. OnlyStore(n)
  BY <1>1, <1>2 DEF SaveConfig, OnlyStore, Store, Entries
<1>4. CASE config' = [cfg[p] EXCEPT ![n] = ver[p]] /\ ~ NotInstalled(p, n) /\ Succeed(p, n)
  <2>1. config'[n] = ver[p]
    BY <1>2, <1>4 DEF Entries
  <2>2. Complete(p, n)'
    <3>1. CASE Removing(p)
      <4>1. dir[n] = NoTree /\ lockfile.plugins[n] = 0 /\ lockfile.log[n] = 0 /\ ver[p] = 0
        BY <1>2, <1>4, <3>1 DEF Stage, Installed, Removed, NotInstalled
      <4> QED
        BY <1>1, <1>2, <2>1, <3>1, <4>1 DEF Complete, Gone, Removing
    <3>2. CASE ~ Removing(p)
      <4>1. /\ ver[p] \in Versions /\ lockfile.plugins[n] = ver[p]
            /\ HasDir(n) => dir[n] = Whole(ver[p])
        BY <1>2, <3>2 DEF Stage, Installed
      <4> QED
        BY <1>1, <1>2, <2>1, <3>2, <4>1, PluginAssumption DEF Complete, InPlace, Removing, HasDir
    <3> QED
      BY <3>1, <3>2
  <2>3. /\ said' = [said EXCEPT ![n] = IF Removing(p) THEN "removed" ELSE "installed"]
        /\ Finish(p, IF asked[p] = <<n>> THEN "ok" ELSE "other")
    BY <1>4 DEF Succeed
  <2>4. OnlySaid(n) /\ Truthful(n)
    BY <1>2, <2>2, <2>3 DEF OnlySaid, Truthful, Complete, Removing
  <2> QED
    BY <1>1, <1>2, <1>3, <2>2, <2>3, <2>4, FinishOutcome DEF Results
<1>5. CASE Absent(p) \/ Fail(p)
  <2>1. OnlySaid(n) /\ Truthful(n)
    BY <1>2, <1>5, NothingSaid DEF Absent, Fail
  <2> QED
    BY <1>1, <1>2, <1>3, <1>5, <2>1, FinishOutcome DEF Absent, Fail, Results
<1> QED
  BY <1>4, <1>5 DEF SaveConfig

LEMMA LookupOutcome ==
  ASSUME SerialInv, NEW p \in Ops, NEW n \in Plugins, Lookup(p, n)
  PROVE  Outcome(p, n)
<1>1. /\ On(p, n, "lookup") /\ Under("lookup") /\ Under("readconfig") /\ Under("remove")
      /\ OnlyStore(n) /\ UNCHANGED stores
  BY StoresStayOnly DEF Lookup, Under, Labels
<1>2. /\ Stage(p, n) /\ pc[p] = "lookup" /\ Inv /\ Removing(p) /\ request' = request
      /\ said \in [Plugins -> Saids]
  BY <1>1, OnStage, TypesNow DEF On, tasks, Inv, VerInv
<1>3. CASE Fail(p)
  BY <1>1, <1>3, FailStays
<1>4. CASE /\ lf' = [lf EXCEPT ![p] = lockfile]
           /\ said' = [said EXCEPT ![n] = "removing"]
           /\ Goto(p, IF lockfile.plugins[n] = 0 THEN "readconfig" ELSE "remove")
           /\ UNCHANGED <<ver, moved, cfg, result>>
  <2>1. /\ lf'[p] = lockfile /\ ver' = ver /\ Removing(p)' /\ said'[n] = "removing"
        /\ pc'[p] = IF lockfile.plugins[n] = 0 THEN "readconfig" ELSE "remove"
    BY <1>2, <1>4 DEF Goto, Inv, TypeOK, Removing
  <2>2. Stage(p, n)'
    BY <1>1, <1>2, <2>1 DEF Stage, Busy, Removed, ToRemove, Removing, At, stores
  <2>3. OnlySaid(n) /\ Truthful(n)
    BY <1>2, <1>4 DEF OnlySaid, Truthful
  <2> QED
    BY <1>1, <1>2, <1>4, <2>2, <2>3, MoveOutcome
<1> QED
  BY <1>3, <1>4 DEF Lookup

LEMMA RemoveDirOutcome ==
  ASSUME SerialInv, NEW p \in Ops, NEW n \in Plugins, RemoveDir(p, n)
  PROVE  Outcome(p, n)
<1>1. /\ On(p, n, "remove") /\ Under("remove") /\ Under("writelock")
      /\ UNCHANGED <<bak, lockfile, config>>
  BY DEF RemoveDir, Under, Labels
<1>2. /\ Stage(p, n) /\ pc[p] = "remove" /\ Inv /\ dir \in [Plugins -> Trees] /\ Removing(p)
      /\ request' = request
  BY <1>1, OnStage, DirTypes DEF On, tasks, Inv, VerInv
<1>3. OnlyStore(n)
  BY <1>1, <1>2, DirOnlyStore DEF RemoveDir
<1>4. CASE Step(p, "remove")
  <2>1. Stage(p, n)'
    BY <1>1, <1>2, <1>4, StepFacts DEF Stage, Busy, ToRemove, Removing, At
  <2> QED
    BY <1>1, <1>2, <1>3, <1>4, <2>1, BusyMove, StepFacts
<1>5. CASE dir' = [dir EXCEPT ![n] = NoTree] /\ Step(p, "writelock")
  <2>1. dir'[n] = NoTree
    BY <1>2, <1>5
  <2>2. Stage(p, n)'
    BY <1>1, <1>2, <1>5, <2>1, StepFacts DEF Stage, Busy, ToRemove, Removing, At
  <2> QED
    BY <1>1, <1>2, <1>3, <1>5, <2>2, BusyMove, StepFacts
<1>6. CASE Fail(p)
  BY <1>1, <1>2, <1>3, <1>6, FailOutcome
<1> QED
  BY <1>4, <1>5, <1>6 DEF RemoveDir

LEMMA EveryOutcome ==
  ASSUME SerialInv, NEW p \in Ops, NEW n \in Plugins,
         Install(p, n) \/ Uninstall(p, n) \/ Record(p, n)
  PROVE  Outcome(p, n) \/ \E m \in Plugins : Fetched(p, m)
BY ResolveOutcome, MoveAsideOutcome, PlaceOutcome, RestoreOutcome, DropBackupOutcome,
   MakeDirOutcome, PlaceModuleOutcome, TruncateManifestOutcome, WriteManifestOutcome,
   ReadLockfileOutcome, WriteLockfileOutcome, LoadConfigOutcome, SaveConfigOutcome,
   LookupOutcome, RemoveDirOutcome
DEF Install, Uninstall, Record

-----------------------------------------------------------------------------
(* The whole step: one op acts, and nobody else is under way.              *)

Actor(p) ==
  /\ ~ Ended(p) /\ ~ At(p, "start")'
  /\ At(p, "start") => Started(p)
  /\ OnlyOp(p)

LEMMA BeginFacts ==
  ASSUME Inv, NEW p \in Ops, Begin(p)
  PROVE  /\ Actor(p) /\ UNCHANGED <<stores, asked, cur, answers>>
         /\ At(p, "start") /\ At(p, "next")' /\ todo'[p] = Wanted(p)
BY DEF Inv, TypeOK, Begin, Step, Goto, At, Actor, OnlyOp, Ended, locals, answers

TakesUp(p, n) ==
  /\ n \in todo[p] /\ todo'[p] = todo[p] \ {n} /\ asked'[p] = <<n>> /\ cur'[p] = <<n>>
  /\ pc'[p] = IF Removing(p) THEN "lookup" ELSE "resolve"

Ends(p) ==
  /\ todo[p] = {} /\ todo'[p] = {} /\ asked'[p] = <<>> /\ cur'[p] = <<>>
  /\ At(p, "ended")'

LEMMA TakeNextFacts ==
  ASSUME Inv, NEW p \in Ops, TakeNext(p)
  PROVE  /\ Actor(p) /\ UNCHANGED <<stores, locals, answers>> /\ At(p, "next")
         /\ (\E n \in Plugins : TakesUp(p, n)) \/ Ends(p)
<1>1. /\ pc \in [Ops -> Labels] /\ todo \in [Ops -> SUBSET Plugins] /\ pc[p] = "next"
      /\ asked \in [Ops -> {<<>>} \cup {<<n>> : n \in Plugins}]
      /\ cur \in [Ops -> {<<>>} \cup {<<n>> : n \in Plugins}]
      /\ UNCHANGED <<stores, request>>
  BY DEF Inv, TypeOK, TakeNext, At
<1>2. ASSUME NEW n \in todo[p],
             todo' = [todo EXCEPT ![p] = todo[p] \ {n}],
             asked' = [asked EXCEPT ![p] = <<n>>],
             cur' = [cur EXCEPT ![p] = <<n>>],
             Step(p, IF request[p].verb = "uninstall" THEN "lookup" ELSE "resolve")
      PROVE  /\ n \in Plugins /\ TakesUp(p, n) /\ Actor(p) /\ UNCHANGED <<stores, locals, answers>>
             /\ At(p, "next")
  <2>1. n \in Plugins /\ TakesUp(p, n)
    BY <1>1, <1>2 DEF TakesUp, Removing, Step, Goto
  <2>2. Actor(p)
    BY <1>1, <1>2 DEF Actor, OnlyOp, Ended, At, Step, Goto, answers
  <2> QED
    BY <1>1, <1>2, <2>1, <2>2 DEF Step, At
<1>3. CASE /\ todo[p] = {} /\ asked' = [asked EXCEPT ![p] = <<>>] /\ cur' = [cur EXCEPT ![p] = <<>>]
           /\ Step(p, "ended") /\ UNCHANGED todo
  <2>1. Ends(p) /\ Actor(p)
    BY <1>1, <1>3 DEF Ends, Actor, OnlyOp, Ended, At, Step, Goto, answers
  <2> QED
    BY <1>1, <1>3, <2>1 DEF Step, At
<1> QED
  BY <1>2, <1>3 DEF TakeNext

LEMMA CrashFacts ==
  ASSUME Inv, NEW p \in Ops, Crash(p)
  PROVE  /\ Actor(p) /\ UNCHANGED <<stores, asked, answers>> /\ At(p, "crashed")'
         /\ ~ At(p, "start") /\ todo'[p] = {} /\ cur'[p] = <<>>
BY DEF Inv, TypeOK, Crash, Goto, At, Actor, OnlyOp, Ended, answers

LEMMA OutcomeFacts ==
  ASSUME NEW p \in Ops, NEW n \in Plugins, Outcome(p, n) \/ Fetched(p, n)
  PROVE  Actor(p)
BY DEF Outcome, Fetched, Answers, Actor, Working, Ended, At

\* What the actor of a step does.
Acts(p) ==
  \/ Begin(p) \/ TakeNext(p) \/ Crash(p)
  \/ \E n \in Plugins : Outcome(p, n) \/ Fetched(p, n)

LEMMA SomeoneActs ==
  ASSUME SerialInv, [Next]_vars
  PROVE  UNCHANGED vars \/ \E p \in Ops : Acts(p) /\ Actor(p)
<1>1. Inv
  BY DEF SerialInv
<1>2. ASSUME NEW p \in Ops, Op(p) \/ Crash(p) PROVE Acts(p)
  <2>1. CASE Crash(p) \/ Begin(p) \/ TakeNext(p)
    BY <2>1 DEF Acts
  <2>2. CASE \E n \in Plugins : Install(p, n) \/ Uninstall(p, n) \/ Record(p, n)
    BY <2>2, EveryOutcome DEF Acts
  <2> QED
    BY <1>2, <2>1, <2>2 DEF Op
<1>3. ASSUME NEW p \in Ops, Acts(p) PROVE Actor(p)
  BY <1>1, <1>3, BeginFacts, TakeNextFacts, CrashFacts, OutcomeFacts DEF Acts
<1> QED
  BY <1>2, <1>3 DEF Next

LEMMA Alone ==
  ASSUME OneAtATime, TurnInv, NEW p \in Ops, Working(p), NEW q \in Ops, Actor(q)
  PROVE  q = p
<1> SUFFICES ASSUME q # p PROVE FALSE
  OBVIOUS
<1>1. Started(p) /\ ~ Ended(p) /\ Started(q)
  BY DEF TurnInv, Working, At, Ended, Actor
<1> QED
  BY <1>1 DEF OneAtATime, Started, Actor

-----------------------------------------------------------------------------
(* The three invariants.                                                   *)

LEMMA TurnStays == ASSUME SerialInv, NEW p \in Ops, Actor(p) PROVE TurnInv'
<1>1. ASSUME NEW q \in Ops, Ended(q) PROVE Ended(q)'
  BY <1>1 DEF Actor, OnlyOp, Ended
<1>2. ASSUME NEW q \in Ops, ~ At(q, "start")' PROVE Started(q)
  BY <1>2 DEF SerialInv, TurnInv, Actor, OnlyOp, At
<1> QED
  BY <1>1, <1>2, PluginAssumption DEF TurnInv, Started

LEMMA ShareStays ==
  ASSUME SerialInv, NEW p \in Ops, Acts(p), Actor(p)
  PROVE  ShareInv'
<1>1. ASSUME NEW q \in Ops \ {p} PROVE Share(q)'
  BY DEF SerialInv, ShareInv, Share, Actor, OnlyOp, Working, Ended, At, Means, Removing
<1>2. /\ Share(p) /\ Inv /\ todo[p] \subseteq Plugins /\ request' = request
      /\ asked[p] \in {<<>>} \cup {<<n>> : n \in Plugins}
  BY DEF SerialInv, ShareInv, Inv, TypeOK, Actor, OnlyOp
<1>3. ASSUME Begin(p) PROVE Share(p)'
  <2>1. /\ UNCHANGED <<asked, cur, result>> /\ At(p, "start") /\ At(p, "next")'
        /\ todo'[p] = Wanted(p)
    BY <1>2, <1>3, BeginFacts DEF answers
  <2>2. /\ cur'[p] = <<>>
        /\ \A n \in Plugins : result'[p][n] = "none" /\ asked'[p] # <<n>> /\ cur'[p] # <<n>>
    BY <1>2, <2>1 DEF Share
  <2>3. Wanted(p) \subseteq Plugins
    BY <1>2, PluginAssumption DEF Wanted, Inv, TypeOK
  <2> QED
    BY <2>1, <2>2, <2>3 DEF Share, Working, Ended, At
<1>4. ASSUME TakeNext(p) PROVE Share(p)'
  <2>1. result' = result /\ ((\E n \in Plugins : TakesUp(p, n)) \/ Ends(p))
    BY <1>2, <1>4, TakeNextFacts DEF answers
  <2>2. ASSUME NEW n \in Plugins, TakesUp(p, n) PROVE Share(p)'
    <3>1. /\ asked'[p] = <<n>> /\ cur'[p] = <<n>> /\ pc'[p] \in {"lookup", "resolve"}
          /\ \A m \in Plugins : asked'[p] = <<m>> => m = n
      BY <2>2 DEF TakesUp
    <3>2. result'[p][n] = "none" /\ n \notin todo'[p] /\ todo'[p] \subseteq todo[p]
      BY <1>2, <2>1, <2>2 DEF TakesUp, Share
    <3> QED
      BY <1>2, <2>1, <3>1, <3>2 DEF Share, Working, Ended, At, Means
  <2>3. CASE Ends(p)
    BY <1>2, <2>1, <2>3 DEF Ends, Share, Working, Ended, At
  <2> QED
    BY <2>1, <2>2, <2>3
<1>5. ASSUME Crash(p) PROVE Share(p)'
  <2>1. /\ todo'[p] = {} /\ cur'[p] = <<>> /\ asked' = asked /\ result' = result
        /\ At(p, "crashed")'
    BY <1>2, <1>5, CrashFacts DEF answers
  <2> QED
    BY <2>1 DEF Share, Working, Ended, At
<1>6. ASSUME NEW n \in Plugins, Outcome(p, n) PROVE Share(p)'
  <2>1. /\ Working(p) /\ cur[p] = <<n>> /\ cur'[p] = <<n>> /\ asked'[p] = asked[p]
        /\ todo'[p] = todo[p] /\ Means(p, n)
    BY <1>2, <1>6 DEF Outcome, Share
  <2>2. CASE Working(p)' /\ ~ At(p, "resolve")' /\ result'[p] = result[p]
    <3>1. ~ At(p, "start")' /\ ~ Ended(p)' /\ ~ At(p, "next")'
      BY <2>2 DEF Working, Ended, At
    <3>2. \A m \in Plugins : cur'[p] = <<m>> => Means(p, m)'
      BY <2>1 DEF Means
    <3> QED
      BY <1>2, <2>1, <2>2, <3>1, <3>2 DEF Share, Removing
  <2>3. CASE Answers(p, n)
    <3>1. /\ ~ At(p, "start")' /\ ~ Ended(p)' /\ ~ Working(p)' /\ ~ At(p, "resolve")'
      BY <2>3 DEF Answers, Working, Ended, At
    <3>2. \A m \in todo'[p] : result'[p][m] = "none"
      BY <1>2, <2>1, <2>3 DEF Answers, Share
    <3>3. \A m \in Plugins : asked'[p] = <<m>> => m \notin todo'[p] /\ result'[p][m] # "none"
      BY <1>2, <2>1, <2>3 DEF Answers, Share
    <3> QED
      BY <3>1, <3>2, <3>3 DEF Share
  <2> QED
    BY <1>6, <2>2, <2>3 DEF Outcome
<1>7. ASSUME NEW n \in Plugins, Fetched(p, n) PROVE Share(p)'
  <2>1. /\ Working(p) /\ Working(p)' /\ cur'[p] = <<n>> /\ asked'[p] = asked[p]
        /\ todo'[p] = todo[p] /\ result'[p] = result[p] /\ Means(p, n)
        /\ ~ At(p, "start")' /\ ~ Ended(p)' /\ ~ At(p, "next")' /\ ~ At(p, "resolve")'
    BY <1>7 DEF Fetched, Working, Ended, At
  <2>2. ~ Removing(p)
    BY <1>2, <1>7 DEF Fetched, Means, SerialInv, StageInv, Stage, Share, At, Working
  <2>3. \A m \in Plugins : cur'[p] = <<m>> => Means(p, m)'
    BY <2>1 DEF Means
  <2> QED
    BY <1>2, <2>1, <2>2, <2>3 DEF Share, Removing
<1> QED
  BY <1>1, <1>3, <1>4, <1>5, <1>6, <1>7 DEF Acts, ShareInv

LEMMA StageStays ==
  ASSUME OneAtATime, SerialInv, NEW p \in Ops, Acts(p), Actor(p)
  PROVE  StageInv'
<1> SUFFICES ASSUME NEW q \in Ops, NEW m \in Plugins, Working(q)', cur'[q] = <<m>>
             PROVE  Stage(q, m)'
  BY DEF StageInv
<1>1. q = p
  <2>1. CASE q # p
    <3>1. Working(q)
      BY <2>1 DEF Actor, OnlyOp, Working
    <3> QED
      BY <3>1, Alone DEF SerialInv
  <2> QED
    BY <2>1
<1>2. Inv
  BY DEF SerialInv
<1>3. CASE Begin(p) \/ Crash(p)
  BY <1>1, <1>2, <1>3, BeginFacts, CrashFacts DEF Working, At
<1>4. CASE TakeNext(p)
  <2>1. /\ UNCHANGED locals /\ At(p, "next") /\ request' = request
        /\ (\E n \in Plugins : TakesUp(p, n)) \/ Ends(p)
    BY <1>2, <1>4, TakeNextFacts DEF Actor, OnlyOp
  <2>2. pc'[p] = IF Removing(p) THEN "lookup" ELSE "resolve"
    BY <1>1, <2>1 DEF TakesUp, Ends, Working, At
  <2>3. ver'[p] = 0
    BY <1>2, <2>1 DEF Inv, TypeOK, At, locals
  <2> QED
    BY <1>1, <2>1, <2>2, <2>3 DEF Stage, Removing, At
<1>5. ASSUME NEW n \in Plugins, Outcome(p, n) \/ Fetched(p, n) PROVE Stage(q, m)'
  <2>1. n = m
    BY <1>1, <1>5 DEF Outcome, Fetched
  <2> QED
    BY <1>1, <1>5, <2>1 DEF Outcome, Fetched, Answers, Working, At
<1> QED
  BY <1>3, <1>4, <1>5 DEF Acts

LEMMA SerialStays == ASSUME OneAtATime, SerialInv, [Next]_vars PROVE SerialInv'
<1>1. Inv'
  BY NextInv DEF SerialInv
<1>2. CASE UNCHANGED vars
  <2>1. TurnInv' /\ ShareInv'
    BY <1>2 DEF SerialInv, TurnInv, ShareInv, Share, Started, Ended, Working, At, Means, Removing, vars,
      tasks, answers
  <2>2. StageInv'
    BY <1>2 DEF SerialInv, StageInv, Stage, Installed, ToRemove, Removed, Removing, Busy, Working, At,
      vars, stores, tasks, locals, answers
  <2> QED
    BY <1>1, <2>1, <2>2 DEF SerialInv
<1>3. ASSUME NEW p \in Ops, Acts(p), Actor(p) PROVE SerialInv'
  BY <1>1, <1>3, TurnStays, ShareStays, StageStays DEF SerialInv
<1> QED
  BY <1>2, <1>3, SomeoneActs

LEMMA InitSerial == Init => SerialInv
<1> SUFFICES ASSUME Init PROVE SerialInv
  OBVIOUS
<1>1. \A p \in Ops : pc[p] = "start" /\ todo[p] = {} /\ asked[p] = <<>> /\ cur[p] = <<>>
  BY DEF Init
<1>2. \A p \in Ops, n \in Plugins : result[p][n] = "none" /\ asked[p] # <<n>> /\ cur[p] # <<n>>
  BY <1>1 DEF Init
<1> QED
  BY <1>1, <1>2, InitInv DEF SerialInv, TurnInv, ShareInv, Share, StageInv, Working, Ended, At

-----------------------------------------------------------------------------
(* What lasts.                                                             *)

LEMMA DealtStays ==
  ASSUME SerialInv, [Next]_vars, NEW q \in Ops, NEW n \in Plugins, Dealt(q, n)
  PROVE  Dealt(q, n)'
<1>1. CASE UNCHANGED vars
  BY <1>1 DEF Dealt, vars, tasks, answers
<1>2. ASSUME NEW p \in Ops, Acts(p), Actor(p) PROVE Dealt(q, n)'
  <2>1. CASE q # p
    BY <1>2, <2>1 DEF Actor, OnlyOp, Dealt
  <2>2. CASE q = p
    <3>1. Inv /\ Share(p)
      BY DEF SerialInv, ShareInv
    <3>2. CASE Begin(p) \/ Crash(p)
      BY <2>2, <3>1, <3>2, BeginFacts, CrashFacts DEF Dealt, answers
    <3>3. CASE TakeNext(p)
      BY <2>2, <3>1, <3>3, TakeNextFacts DEF Dealt, Share, answers
    <3>4. ASSUME NEW m \in Plugins, Outcome(p, m) \/ Fetched(p, m) PROVE Dealt(q, n)'
      BY <2>2, <3>4 DEF Outcome, Fetched, Answers, Dealt
    <3> QED
      BY <1>2, <3>2, <3>3, <3>4 DEF Acts
  <2> QED
    BY <2>1, <2>2
<1> QED
  BY <1>1, <1>2, SomeoneActs

\* A step that changes a plugin's stores is one of an op at work on that plugin.
LEMMA StoreChanges ==
  ASSUME SerialInv, [Next]_vars, NEW n \in Plugins, Store(n)' # Store(n)
  PROVE  \E p \in Ops : Outcome(p, n) /\ Actor(p)
<1>1. ASSUME UNCHANGED stores PROVE FALSE
  BY <1>1 DEF Store, stores
<1>2. PICK p \in Ops : Acts(p) /\ Actor(p)
  BY <1>1, SomeoneActs DEF vars
<1>3. PICK m \in Plugins : Outcome(p, m)
  BY <1>1, <1>2, BeginFacts, TakeNextFacts, CrashFacts DEF Acts, SerialInv, Fetched
<1>4. m = n
  BY <1>3 DEF Outcome, OnlyStore
<1> QED
  BY <1>2, <1>3, <1>4

\* What the last op on a plugin reported a success of is as it reported.
AckInv ==
  \A n \in Plugins : (said[n] = "installed" => InPlace(n)) /\ (said[n] = "removed" => Gone(n))

LEMMA AckStays == ASSUME SerialInv, AckInv, [Next]_vars PROVE AckInv'
<1> SUFFICES ASSUME NEW n \in Plugins
             PROVE  (said'[n] = "installed" => InPlace(n)') /\ (said'[n] = "removed" => Gone(n)')
  BY DEF AckInv
<1>1. ASSUME Store(n)' = Store(n) PROVE (InPlace(n) => InPlace(n)') /\ (Gone(n) => Gone(n)')
  BY <1>1 DEF Store, InPlace, Gone, HasDir
<1>2. CASE UNCHANGED vars
  BY <1>1, <1>2 DEF AckInv, Store, vars, stores, answers
<1>3. ASSUME NEW p \in Ops, Begin(p) \/ TakeNext(p) \/ Crash(p)
      PROVE  Store(n)' = Store(n) /\ said' = said
  BY <1>3, BeginFacts, TakeNextFacts, CrashFacts DEF Store, stores, answers, SerialInv
<1>4. ASSUME NEW p \in Ops, NEW m \in Plugins, Fetched(p, m)
      PROVE  Store(n)' = Store(n) /\ (said'[n] = said[n] \/ said'[n] = "installing")
  BY <1>4 DEF Store, stores, Fetched, OnlySaid
<1>5. ASSUME NEW p \in Ops, NEW m \in Plugins, Outcome(p, m), m # n
      PROVE  Store(n)' = Store(n) /\ said'[n] = said[n]
  BY <1>5 DEF Outcome, OnlyStore, OnlySaid
<1>6. ASSUME NEW p \in Ops, Outcome(p, n) PROVE Truthful(n)
  BY <1>6 DEF Outcome
<1> QED
  BY <1>1, <1>2, <1>3, <1>4, <1>5, <1>6, SomeoneActs DEF Acts, AckInv, Truthful

\* What an op says of a plugin it was asked for.
LEMMA AnswersAre ==
  ASSUME SerialInv, [Next]_vars, NEW p \in Ops, NEW n \in Plugins, result'[p][n] # result[p][n]
  PROVE  result'[p][n] = "ok" => Complete(p, n)'
<1>1. PICK q \in Ops : Acts(q) /\ Actor(q)
  BY SomeoneActs DEF vars, answers
<1>2. q = p
  BY <1>1 DEF Actor, OnlyOp
<1>3. PICK m \in Plugins : Outcome(p, m)
  BY <1>1, <1>2, BeginFacts, TakeNextFacts, CrashFacts DEF Acts, SerialInv, Fetched, answers
<1>4. Answers(p, m)
  BY <1>3 DEF Outcome
<1> QED
  BY <1>4 DEF Answers

LEMMA RequestStays == ASSUME SerialInv, [Next]_vars PROVE request' = request
BY SomeoneActs DEF Actor, OnlyOp, vars, tasks

-----------------------------------------------------------------------------
(* A repair.                                                               *)

LEMMA HealthyLasts ==
  ASSUME NEW n \in Plugins, Store(n)' = Store(n), Healthy(n)
  PROVE  Healthy(n)'
BY DEF Healthy, Loadable, CheckOnePlugin, Refused, Store, HasDir

\* What an install has put in place is healthy.
LEMMA InPlaceIsHealthy ==
  ASSUME Inv, NEW n \in Plugins, HasDir(n), InPlace(n)
  PROVE  Healthy(n)
<1>1. lockfile.plugins[n] \in Versions /\ dir[n] = Whole(lockfile.plugins[n])
  BY DEF InPlace, Inv, TypeOK, Lockfiles, Entries
<1>2. /\ dir[n] # NoTree /\ dir[n].body # Missing /\ dir[n].manifest = lockfile.plugins[n]
  BY <1>1, PluginAssumption DEF Whole, Tree, Missing
<1> QED
  BY <1>2 DEF Healthy, Loadable, CheckOnePlugin, Refused

\* Where ops take turns, no other one acts between a repair's first step and the next op's.
LEMMA OnlyTheRepair ==
  ASSUME OneAtATime, SerialInv, NEW p \in Ops, ~ At(p, "start"),
         \A q \in Ops : p \in After[q] => At(q, "start")',
         NEW q \in Ops, Actor(q)
  PROVE  q = p
<1> SUFFICES ASSUME q # p PROVE FALSE
  OBVIOUS
<1>1. q \in After[p]
  BY DEF OneAtATime, Actor
<1>2. Started(p)
  BY DEF SerialInv, TurnInv
<1> QED
  BY <1>1, <1>2 DEF Started, Actor

\* A step of a repair: what it has served, and leaves to be done, only ever grows smaller.
LEMMA RepairSteps ==
  ASSUME SerialInv, NEW p \in Ops, NEW n \in Plugins, Acts(p), Actor(p), ~ Removing(p),
         pc[p] \notin {"start", "crashed"}, ~ At(p, "crashed")', Served(p)',
         n \notin todo'[p], ~ (Working(p)' /\ cur'[p] = <<n>>)
  PROVE  \/ /\ Store(n)' = Store(n)
            /\ \A m \in Plugins : result[p][m] \in {"none", "ok"}
            /\ Working(p) => cur[p] = asked[p]
            /\ n \notin todo[p] /\ ~ (Working(p) /\ cur[p] = <<n>>)
         \/ InPlace(n)'
<1>1. Inv /\ Share(p) /\ result[p] \in [Plugins -> Results]
  BY DEF SerialInv, ShareInv, Inv, TypeOK, Results
<1>2. \A m \in Plugins : result'[p][m] \in {"none", "ok"}
  BY DEF Served
<1>3. CASE Begin(p) \/ Crash(p)
  BY <1>1, <1>3, BeginFacts, CrashFacts DEF At
<1>4. CASE TakeNext(p)
  <2>1. /\ UNCHANGED <<stores, answers>> /\ ~ Working(p)
        /\ (\E m \in Plugins : TakesUp(p, m)) \/ Ends(p)
    BY <1>1, <1>4, TakeNextFacts DEF Working, At
  <2>2. n \notin todo[p]
    BY <2>1 DEF TakesUp, Ends, Working, At
  <2> QED
    BY <1>2, <2>1, <2>2 DEF Store, stores, answers
<1>5. ASSUME NEW m \in Plugins, Fetched(p, m)
      PROVE  /\ Store(n)' = Store(n)
             /\ \A k \in Plugins : result[p][k] \in {"none", "ok"}
             /\ Working(p) => cur[p] = asked[p]
             /\ n \notin todo[p] /\ ~ (Working(p) /\ cur[p] = <<n>>)
  <2>1. cur[p] = asked[p] /\ cur'[p] = asked'[p] /\ asked'[p] = asked[p]
    BY <1>1, <1>5 DEF Fetched, Share, Served
  <2>2. Store(n)' = Store(n) /\ result'[p] = result[p] /\ todo'[p] = todo[p] /\ cur'[p] # <<n>>
    BY <1>5 DEF Fetched, Store, stores
  <2> QED
    BY <1>2, <2>1, <2>2
<1>6. ASSUME NEW m \in Plugins, Outcome(p, m), Working(p)', result'[p] = result[p]
      PROVE  /\ Store(n)' = Store(n)
             /\ \A k \in Plugins : result[p][k] \in {"none", "ok"}
             /\ Working(p) => cur[p] = asked[p]
             /\ n \notin todo[p] /\ ~ (Working(p) /\ cur[p] = <<n>>)
  <2>1. m # n /\ cur[p] # <<n>>
    BY <1>6 DEF Outcome
  <2> QED
    BY <1>2, <1>6, <2>1 DEF Outcome, OnlyStore, Served
<1>7. ASSUME NEW m \in Plugins, Outcome(p, m), Answers(p, m)
      PROVE  \/ /\ Store(n)' = Store(n)
                /\ \A k \in Plugins : result[p][k] \in {"none", "ok"}
                /\ Working(p) => cur[p] = asked[p]
                /\ n \notin todo[p] /\ ~ (Working(p) /\ cur[p] = <<n>>)
             \/ InPlace(n)'
  <2>1. cur[p] = <<m>> /\ Working(p) /\ Means(p, m) /\ request' = request
    BY <1>1, <1>7 DEF Outcome, Share, OnlyOp
  <2>2. PICK k \in Plugins : asked[p] = <<k>>
    BY <2>1 DEF Means
  <2>3. result'[p][k] = "ok" /\ k = m /\ Complete(p, m)'
    BY <1>2, <1>7, <2>2 DEF Answers
  <2>4. CASE m = n
    BY <2>1, <2>3, <2>4 DEF Complete, Removing
  <2>5. CASE m # n
    <3>1. \A h \in Plugins : result[p][h] \in {"none", "ok"}
      BY <1>1, <1>2, <1>7, <2>1, <2>2 DEF Answers, Share
    <3>2. Store(n)' = Store(n) /\ todo'[p] = todo[p]
      BY <1>7, <2>5 DEF Outcome, OnlyStore
    <3> QED
      BY <2>1, <2>2, <2>3, <2>5, <3>1, <3>2
  <2> QED
    BY <2>4, <2>5
<1> QED
  BY <1>3, <1>4, <1>5, <1>6, <1>7 DEF Acts, Outcome

LEMMA HealthyStays == ASSUME OneAtATime, SerialInv, HealthyInv, [Next]_vars PROVE HealthyInv'
<1> SUFFICES ASSUME NEW p \in Ops, NEW n \in Plugins,
                    request'[p].verb = "fix", pc'[p] \notin {"start", "crashed"}, Served(p)',
                    n \notin todo'[p], ~ (Working(p)' /\ cur'[p] = <<n>>),
                    HasDir(n), lockfile'.plugins[n] # 0
             PROVE  Healthy(n)'
  BY DEF HealthyInv, HasDir
<1>1. request' = request /\ Inv /\ Inv' /\ ~ Removing(p)
  BY RequestStays, NextInv DEF SerialInv, Removing
<1>2. CASE UNCHANGED vars
  <2>1. Served(p) /\ lockfile.plugins[n] # 0 /\ Store(n)' = Store(n)
    BY <1>2 DEF Served, Store, Working, At, vars, stores, tasks, answers
  <2>2. Healthy(n)
    BY <1>2, <2>1 DEF HealthyInv, Working, vars, tasks
  <2> QED
    BY <2>1, <2>2, HealthyLasts
<1>3. ASSUME NEW q \in Ops, Acts(q), Actor(q) PROVE Healthy(n)'
  <2>1. CASE At(p, "start")
    <3>1. q = p
      BY <1>3, <2>1 DEF Actor, OnlyOp, At
    <3>2. Begin(p)
      BY <1>1, <1>3, <2>1, <3>1, TakeNextFacts, CrashFacts DEF Acts, Outcome, Fetched, Working, At
    <3>3. UNCHANGED stores /\ n \notin Wanted(p)
      BY <1>1, <3>2, BeginFacts
    <3>4. lockfile.plugins[n] # 0 /\ CheckOnePlugin(n)
      BY <1>1, <3>3 DEF Wanted, stores
    <3>5. Healthy(n) /\ Store(n)' = Store(n)
      BY <3>3, <3>4 DEF CheckOnePlugin, Loadable, Healthy, Store, stores
    <3> QED
      BY <3>5, HealthyLasts
  <2>2. CASE ~ At(p, "start")
    <3>1. q = p
      BY <1>3, <2>2, OnlyTheRepair DEF Served
    <3>2. pc[p] \notin {"start", "crashed"} /\ ~ At(p, "crashed")'
      BY <1>3, <2>2, <3>1 DEF Actor, Ended, At
    <3>3. CASE InPlace(n)'
      <4>1. Inv => (HasDir(n) /\ InPlace(n) => Healthy(n))
        BY InPlaceIsHealthy
      <4>2. (Inv => (HasDir(n) /\ InPlace(n) => Healthy(n)))'
        BY InPlaceIsHealthy, PTL
      <4> QED
        BY <1>1, <3>3, <4>2 DEF HasDir
    <3>4. CASE /\ Store(n)' = Store(n)
               /\ \A m \in Plugins : result[p][m] \in {"none", "ok"}
               /\ Working(p) => cur[p] = asked[p]
               /\ n \notin todo[p] /\ ~ (Working(p) /\ cur[p] = <<n>>)
      <4>1. \A k \in Ops : p \in After[k] => At(k, "start")
        BY <1>3, <3>1 DEF Served, Actor, OnlyOp, At
      <4>2. Served(p) /\ lockfile.plugins[n] # 0
        BY <3>4, <4>1 DEF Served, Store
      <4>3. Healthy(n)
        BY <1>1, <3>2, <3>4, <4>2 DEF HealthyInv
      <4> QED
        BY <3>4, <4>3, HealthyLasts
    <3> QED
      BY <1>1, <1>3, <3>1, <3>2, <3>3, <3>4, RepairSteps
  <2> QED
    BY <2>1, <2>2
<1> QED
  BY <1>2, <1>3, SomeoneActs

-----------------------------------------------------------------------------
(* An upgrade keeps the skill or its backup.                               *)

WholeSomewhere(n) == IsWhole(dir[n]) \/ IsWhole(bak[n])

LEMMA WholeIsWhole == \A v \in Versions : IsWhole(Whole(v)) /\ ~ CanReplace(Whole(v))
BY PluginAssumption DEF IsWhole, Whole, Tree, CanReplace, Missing

LEMMA ReplacedIsNotWhole == \A t : CanReplace(t) => ~ IsWhole(t)
BY DEF IsWhole, CanReplace

LEMMA InstallKeepsSkill ==
  ASSUME SerialInv, NEW p \in Ops, NEW n \in Plugins,
         Install(p, n) \/ Uninstall(p, n) \/ Record(p, n),
         Tier[n] = "skill", ~ Removing(p), lockfile'.plugins[n] # 0,
         lockfile.plugins[n] # 0 => WholeSomewhere(n)
  PROVE  WholeSomewhere(n)'
<1>1. Inv /\ dir \in [Plugins -> Trees] /\ bak \in [Plugins -> Trees]
  BY DirTypes DEF SerialInv
<1>2. ASSUME UNCHANGED <<dir, bak>>, lockfile.plugins[n] # 0 PROVE WholeSomewhere(n)'
  BY <1>2 DEF WholeSomewhere, IsWhole
<1>3. CASE Resolve(p, n) \/ ReadLockfile(p, n) \/ LoadConfig(p, n) \/ SaveConfig(p, n)
  BY <1>2, <1>3 DEF Resolve, ReadLockfile, LoadConfig, SaveConfig, stores
<1>4. CASE MoveAside(p, n)
  <2>1. CASE UNCHANGED stores
    BY <1>2, <2>1 DEF stores
  <2>2. CASE /\ CanReplace(bak[n]) /\ bak' = [bak EXCEPT ![n] = dir[n]] /\ UNCHANGED lockfile
    <3>1. IsWhole(dir[n])
      BY <2>2, ReplacedIsNotWhole DEF WholeSomewhere
    <3> QED
      BY <1>1, <2>2, <3>1 DEF WholeSomewhere
  <2> QED
    BY <1>4, <2>1, <2>2 DEF MoveAside
<1>5. CASE Place(p, n)
  <2>1. ver[p] \in Versions
    BY <1>1, <1>5, OnFacts, HasVersion DEF Place, InstallLabels
  <2>2. CASE dir' = [dir EXCEPT ![n] = Whole(ver[p])]
    BY <1>1, <2>1, <2>2, WholeIsWhole DEF WholeSomewhere
  <2> QED
    BY <1>2, <1>5, <2>2 DEF Place
<1>6. CASE Restore(p, n)
  <2>1. CASE CanReplace(dir[n]) /\ dir' = [dir EXCEPT ![n] = bak[n]] /\ UNCHANGED lockfile
    <3>1. IsWhole(bak[n])
      BY <2>1, ReplacedIsNotWhole DEF WholeSomewhere
    <3> QED
      BY <1>1, <2>1, <3>1 DEF WholeSomewhere
  <2> QED
    BY <1>2, <1>6, <2>1 DEF Restore
<1>7. CASE DropBackup(p, n)
  <2>1. Stage(p, n) /\ pc[p] = "dropbak" /\ dir' = dir
    BY <1>7, OnStage DEF DropBackup, Under, Labels
  <2>2. ver[p] \in Versions /\ dir[n] = Whole(ver[p])
    BY <2>1 DEF Stage, Installed, HasDir
  <2> QED
    BY <2>1, <2>2, WholeIsWhole DEF WholeSomewhere
<1>8. CASE MakeDir(p, n) \/ PlaceModule(p, n) \/ TruncateManifest(p, n) \/ WriteManifest(p, n)
  <2>1. PICK label \in {"mkdir", "module", "truncate", "manifest"} : On(p, n, label)
    BY <1>8 DEF MakeDir, PlaceModule, TruncateManifest, WriteManifest
  <2>2. Stage(p, n) /\ pc[p] = label
    BY <2>1, OnStage DEF Under, Labels
  <2> QED
    BY <2>2 DEF Stage
<1>9. CASE WriteLockfile(p, n)
  <2>1. Stage(p, n) /\ pc[p] = "writelock" /\ dir' = dir
    BY <1>9, OnStage DEF WriteLockfile, Under, Labels
  <2>2. ver[p] \in Versions /\ dir[n] = Whole(ver[p])
    BY <2>1 DEF Stage, Installed, ToRemove, HasDir, At
  <2> QED
    BY <2>1, <2>2, WholeIsWhole DEF WholeSomewhere
<1>10. CASE Uninstall(p, n)
  BY <1>1, <1>10, OnFacts DEF Uninstall, Lookup, RemoveDir, Inv, VerInv
<1> QED
  BY <1>3, <1>4, <1>5, <1>6, <1>7, <1>8, <1>9, <1>10 DEF Install, Record

LEMMA HalfRemovedBefore ==
  ASSUME SerialInv, [Next]_vars, NEW n \in Plugins, ~ HalfRemoved(n)', lockfile'.plugins[n] # 0
  PROVE  ~ HalfRemoved(n)
<1> SUFFICES ASSUME NEW q \in Ops, Removing(q), Dealt(q, n), result[q][n] # "ok" PROVE FALSE
  BY DEF HalfRemoved
<1>1. Removing(q)' /\ Dealt(q, n)'
  BY DealtStays, RequestStays DEF Removing
<1>2. result'[q][n] = "ok"
  BY <1>1 DEF HalfRemoved
<1>3. Complete(q, n)'
  BY <1>2, AnswersAre
<1> QED
  BY <1>1, <1>3 DEF Complete, Gone

LEMMA UpgradeStays ==
  ASSUME SerialInv, UpgradeLosesNothing, [Next]_vars
  PROVE  UpgradeLosesNothing'
<1> SUFFICES ASSUME NEW n \in Plugins, Tier[n] = "skill", ~ HalfRemoved(n)',
                    lockfile'.plugins[n] # 0
             PROVE  WholeSomewhere(n)'
  BY DEF UpgradeLosesNothing, WholeSomewhere
<1>1. ~ HalfRemoved(n) /\ (lockfile.plugins[n] # 0 => WholeSomewhere(n))
  BY HalfRemovedBefore DEF UpgradeLosesNothing, WholeSomewhere
<1>2. CASE Store(n)' = Store(n)
  BY <1>1, <1>2 DEF Store, WholeSomewhere, IsWhole
<1>3. CASE Store(n)' # Store(n)
  <2>1. UNCHANGED stores => FALSE
    BY <1>3 DEF Store, stores
  <2>2. PICK p \in Ops : Op(p) \/ Crash(p)
    BY <2>1 DEF Next, vars
  <2>3. PICK m \in Plugins : Install(p, m) \/ Uninstall(p, m) \/ Record(p, m)
    BY <2>1, <2>2, BeginFacts, TakeNextFacts, CrashFacts DEF Op, SerialInv
  <2>4. Outcome(p, m) \/ Resolve(p, m)
    BY <2>1, <2>3, EveryOutcome DEF Fetched
  <2>5. Outcome(p, m) /\ ~ Resolve(p, m)
    BY <2>1, <2>4 DEF Resolve
  <2>6. m = n
    BY <1>3, <2>5 DEF Outcome, OnlyStore
  <2>7. ~ Removing(p)
    <3> SUFFICES ASSUME Removing(p) PROVE FALSE
      OBVIOUS
    <3>1. asked[p] = <<n>> /\ result[p][n] = "none"
      BY <2>5, <2>6 DEF Outcome, SerialInv, ShareInv, Share
    <3> QED
      BY <1>1, <3>1 DEF HalfRemoved, Dealt
  <2> QED
    BY <1>1, <2>3, <2>6, <2>7, InstallKeepsSkill
<1> QED
  BY <1>2, <1>3

-----------------------------------------------------------------------------
(* The theorems about ops in turn.                                         *)

LEMMA InitLasting == Init => AckInv /\ HealthyInv /\ UpgradeLosesNothing
<1> SUFFICES ASSUME Init PROVE AckInv /\ HealthyInv /\ UpgradeLosesNothing
  OBVIOUS
<1>1. AckInv /\ HealthyInv
  BY DEF Init, AckInv, HealthyInv
<1>2. PICK installed \in InitialVersions :
        /\ dir = [n \in Plugins |->
                    IF HasDir(n) /\ installed[n] # 0 THEN Whole(installed[n]) ELSE NoTree]
        /\ lockfile.plugins = installed
  BY DEF Init
<1>3. installed \in Entries
  BY PluginAssumption DEF Entries
<1>4. ASSUME NEW n \in Plugins, Tier[n] = "skill", lockfile.plugins[n] # 0 PROVE IsWhole(dir[n])
  BY <1>2, <1>3, <1>4, WholeIsWhole DEF HasDir, Entries
<1> QED
  BY <1>1, <1>4 DEF UpgradeLosesNothing

LEMMA SerialAlways == ASSUME OneAtATime PROVE Spec => []SerialInv
<1>1. SerialInv /\ [Next]_vars => SerialInv'
  BY SerialStays
<1> QED
  BY InitSerial, <1>1, PTL DEF Spec

\* If no two ops overlap, a success an install reports means that the directory, the lockfile
\* and the config agree on one version of the plugin its manifest names, whatever failed or was
\* killed before it and whatever was done to other plugins since.
THEOREM AckedInstallCompleteHolds == ASSUME OneAtATime PROVE Spec => []AckedInstallComplete
<1>1. SerialInv /\ AckInv /\ [Next]_vars => AckInv'
  BY AckStays
<1>2. AckInv => AckedInstallComplete
  BY DEF AckInv, AckedInstallComplete, InPlace
<1> QED
  BY InitLasting, SerialAlways, <1>1, <1>2, PTL DEF Spec

\* Under the same condition a success an uninstall reports means that no store has anything
\* of the plugin left, mutation records included.
THEOREM AckedUninstallCompleteHolds == ASSUME OneAtATime PROVE Spec => []AckedUninstallComplete
<1>1. SerialInv /\ AckInv /\ [Next]_vars => AckInv'
  BY AckStays
<1>2. AckInv => AckedUninstallComplete
  BY DEF AckInv, AckedUninstallComplete, Gone
<1> QED
  BY InitLasting, SerialAlways, <1>1, <1>2, PTL DEF Spec

\* If no two ops overlap, an upgrade killed or failing anywhere leaves the skill or its backup.
THEOREM UpgradeLosesNothingHolds == ASSUME OneAtATime PROVE Spec => []UpgradeLosesNothing
<1>1. SerialInv /\ UpgradeLosesNothing /\ [Next]_vars => UpgradeLosesNothing'
  BY UpgradeStays
<1> QED
  BY InitLasting, SerialAlways, <1>1, PTL DEF Spec

\* If no two ops overlap, a repair that reported success for each plugin it set out to repair,
\* and was served those plugins, leaves every locked plugin loadable, the ones it found healthy
\* and left alone included; and doctor accepts them all but the releases it refuses for good.
THEOREM FixRepairsHolds == ASSUME OneAtATime PROVE Spec => []FixRepairs
<1>1. SerialInv /\ HealthyInv /\ [Next]_vars => HealthyInv'
  BY HealthyStays
<1>2. SerialInv /\ HealthyInv => FixRepairs
  <2> SUFFICES ASSUME SerialInv, HealthyInv, NEW p \in Ops,
                      request[p].verb = "fix", pc[p] = "ended",
                      \A n \in Plugins : result[p][n] \in {"none", "ok"},
                      \A q \in Ops : p \in After[q] => At(q, "start"),
                      NEW n \in Plugins, HasDir(n), lockfile.plugins[n] # 0
               PROVE  Healthy(n)
    BY DEF FixRepairs, Healthy
  <2>1. todo[p] = {} /\ ~ Working(p)
    BY DEF SerialInv, ShareInv, Share, Working, Ended
  <2>2. Served(p)
    BY <2>1 DEF Served
  <2> QED
    BY <2>1, <2>2 DEF HealthyInv
<1> QED
  BY InitLasting, SerialAlways, <1>1, <1>2, PTL DEF Spec

\* If no two ops overlap, no step changes anything of a plugin but one of an op that was asked
\* for it, or for one whose release calls itself so, though two of the four stores are files
\* that hold every plugin.
THEOREM OthersUntouchedHolds == ASSUME OneAtATime PROVE Spec => OthersUntouched
<1> DEFINE Touch ==
      \A n \in Plugins : Store(n)' # Store(n) =>
        \E p \in Ops : ~ Ended(p) /\ cur[p] = <<n>> /\ Means(p, n)
<1>1. SerialInv /\ [Next]_vars => [Touch]_vars
  <2> SUFFICES ASSUME SerialInv, [Next]_vars, NEW n \in Plugins, Store(n)' # Store(n)
               PROVE  \E p \in Ops : ~ Ended(p) /\ cur[p] = <<n>> /\ Means(p, n)
    OBVIOUS
  <2>1. PICK p \in Ops : Outcome(p, n) /\ Actor(p)
    BY StoreChanges
  <2> QED
    BY <2>1 DEF Outcome, Actor, SerialInv, ShareInv, Share
<1>2. Spec => [][Touch]_vars
  BY SerialAlways, <1>1, PTL DEF Spec
<1> QED
  BY <1>2 DEF OthersUntouched
=============================================================================
