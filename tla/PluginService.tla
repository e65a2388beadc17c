--------------------------- MODULE PluginService ---------------------------
(***************************************************************************)
(* Installing, removing, updating and repairing plugins in a project:      *)
(* service.go, the installers of the three tiers, and `samuel doctor`.     *)
(*                                                                         *)
(* An op is one process: `samuel install|uninstall <plugin>`, `samuel       *)
(* update --all` or `samuel doctor --fix`.  For each plugin it deals with  *)
(* it changes three stores in turn, none of them under a lock: the plugin  *)
(* directory, samuel.lock and samuel.toml.  The two files are replaced by  *)
(* a rename from a temporary name of their own (config.saveAtomic), so a   *)
(* read sees a whole file, but a read and the write that follows it are    *)
(* two steps.  Any step may fail and any process may be killed.            *)
(*                                                                         *)
(* A directory is known by two of its files: the body (SKILL.md or         *)
(* plugin.wasm) and the manifest copied next to it, each by the version it *)
(* is of, or Missing.  An OCI plugin has no directory: its image is in the *)
(* container engine's store, which no other step looks at.                 *)
(*                                                                         *)
(* An install is asked for a plugin by the name the registry lists, and    *)
(* installs the one the fetched manifest names; nothing compares the two.  *)
(***************************************************************************)
EXTENDS Naturals

CONSTANTS
  Ops,
  Plugins,
  Tier,            \* Tier[n]: "skill", "wasm" or "oci"
  Versions,        \* what a release may call its version
  Named,           \* Named[n]: the plugins that what is fetched for n may call itself
  Drifting,        \* <<n, v>>: the releases that install, and that doctor never accepts
  NoTree,          \* where there is no directory
  Requests,        \* the assignments of a request to every op
  After,           \* After[p]: the ops that are over before p is started
  InitialVersions  \* what may be installed at first: version 0 where nothing is

Missing == 0

ASSUME PluginAssumption ==
  /\ Tier \in [Plugins -> {"skill", "wasm", "oci"}]
  /\ Versions \subseteq Nat \ {0}
  /\ Named \in [Plugins -> SUBSET Plugins]
  /\ Drifting \subseteq {n \in Plugins : Tier[n] = "wasm"} \X Versions
  /\ Requests \subseteq
       [Ops -> [verb : {"install", "uninstall", "update", "fix"}, name : Plugins]]
  /\ After \in [Ops -> SUBSET Ops]
  /\ InitialVersions \subseteq [Plugins -> Versions \cup {0}]
  /\ NoTree \notin [body : Versions \cup {0}, manifest : Versions \cup {0}]

VARIABLES
  dir,       \* .samuel/plugins/<name>
  bak,       \* .samuel/plugins/<name>.bak
  lockfile,  \* samuel.lock: the version of each plugin, and its mutation records
  config,    \* the [[plugins]] of samuel.toml: the version of each plugin
  request,   \* what each op is asked to do
  pc,
  todo,      \* the plugins an op has yet to deal with
  asked,     \* <<n>> while it deals with plugin n of todo
  cur,       \* <<n>> while it changes what the stores hold of plugin n
  ver,       \* the version it installs
  moved,     \* whether it has moved a directory aside
  lf, cfg,   \* the lockfile and config it has read
  result,    \* what it says of each plugin it has been asked for
  said       \* history: the last op on each plugin, and whether it reported success

stores == <<dir, bak, lockfile, config>>
locals == <<ver, moved, lf, cfg>>
tasks == <<request, todo, asked, cur>>
answers == <<result, said>>
vars == <<stores, tasks, pc, locals, answers>>

Tree(b, m) == [body |-> b, manifest |-> m]
Whole(v) == Tree(v, v)
Partial(t) == {Tree(b, m) : b \in {t.body, Missing}, m \in {t.manifest, Missing}}

HasDir(n) == Tier[n] # "oci"
NoEntries == [n \in Plugins |-> 0]

Init ==
  /\ \E installed \in InitialVersions :
       /\ dir = [n \in Plugins |->
                   IF HasDir(n) /\ installed[n] # 0 THEN Whole(installed[n]) ELSE NoTree]
       /\ lockfile = [plugins |-> installed,
                      log |-> [n \in Plugins |-> IF installed[n] = 0 THEN 0 ELSE 1]]
       /\ config = installed
  /\ bak = [n \in Plugins |-> NoTree]
  /\ request \in Requests
  /\ pc = [p \in Ops |-> "start"]
  /\ todo = [p \in Ops |-> {}]
  /\ asked = [p \in Ops |-> <<>>]
  /\ cur = [p \in Ops |-> <<>>]
  /\ ver = [p \in Ops |-> 0]
  /\ moved = [p \in Ops |-> FALSE]
  /\ lf = [p \in Ops |-> [plugins |-> NoEntries, log |-> NoEntries]]
  /\ cfg = [p \in Ops |-> NoEntries]
  /\ result = [p \in Ops |-> [n \in Plugins |-> "none"]]
  /\ said = [n \in Plugins |-> "none"]

\* Of any two ops, one is over before the other is started.
OneAtATime == \A p, q \in Ops : p # q => p \in After[q] \/ q \in After[p]

Ended(p) == pc[p] \in {"ended", "crashed"}
Started(p) == \A q \in After[p] : Ended(q)

At(p, label) == pc[p] = label
Goto(p, label) == pc' = [pc EXCEPT ![p] = label]

\* What this op does to a plugin: it has one removed, or installed.
Removing(p) == request[p].verb = "uninstall"

\* The op is done with what it was asked for and goes on with the next plugin: an error stops
\* `install`, which has no next one, and is only printed by `update` and `doctor --fix`.
Finish(p, answer) ==
  /\ result' = [result EXCEPT ![p] =
                   [n \in Plugins |-> IF asked[p] = <<n>> THEN answer ELSE result[p][n]]]
  /\ Goto(p, "next")
  /\ ver' = [ver EXCEPT ![p] = 0]
  /\ moved' = [moved EXCEPT ![p] = FALSE]
  /\ lf' = [lf EXCEPT ![p] = [plugins |-> NoEntries, log |-> NoEntries]]
  /\ cfg' = [cfg EXCEPT ![p] = NoEntries]

Fail(p) == Finish(p, "error") /\ UNCHANGED said

\* A success, of the plugin asked for or of another one the manifest named.
Succeed(p, n) ==
  /\ Finish(p, IF asked[p] = <<n>> THEN "ok" ELSE "other")
  /\ said' = [said EXCEPT ![n] = IF Removing(p) THEN "removed" ELSE "installed"]

\* A step of p that only moves on.
Step(p, label) == Goto(p, label) /\ UNCHANGED <<locals, answers>>
-----------------------------------------------------------------------------
(* What an op deals with.                                                  *)

\* Mutant: doctor only looks for the directory.
CheckDirOnly(n) == dir[n] # NoTree

\* doctor's verdict on a locked plugin.  The body is only looked for.  A WASM module is looked
\* for under the name its manifest gives it, though the installer always calls it plugin.wasm;
\* and a manifest with two lists of exports that differ is refused, though it installs.
CheckOnePlugin(n) ==
  /\ dir[n] # NoTree
  /\ dir[n].manifest = lockfile.plugins[n]
  /\ HasDir(n) => dir[n].body # Missing
  /\ <<n, dir[n].manifest>> \notin Drifting

Wanted(p) ==
  CASE request[p].verb \in {"install", "uninstall"} -> {request[p].name}
    [] request[p].verb = "update" -> {n \in Plugins : config[n] # 0}
    [] request[p].verb = "fix" -> {n \in Plugins : lockfile.plugins[n] # 0 /\ ~ CheckOnePlugin(n)}

Begin(p) ==
  /\ At(p, "start") /\ Started(p)
  /\ todo' = [todo EXCEPT ![p] = Wanted(p)]
  /\ Step(p, "next")
  /\ UNCHANGED <<stores, request, asked, cur>>

TakeNext(p) ==
  /\ At(p, "next")
  /\ \/ \E n \in todo[p] :
          /\ todo' = [todo EXCEPT ![p] = todo[p] \ {n}]
          /\ asked' = [asked EXCEPT ![p] = <<n>>]
          /\ cur' = [cur EXCEPT ![p] = <<n>>]
          /\ Step(p, IF request[p].verb = "uninstall" THEN "lookup" ELSE "resolve")
     \/ /\ todo[p] = {}
        /\ asked' = [asked EXCEPT ![p] = <<>>]
        /\ cur' = [cur EXCEPT ![p] = <<>>]
        /\ Step(p, "ended")
        /\ UNCHANGED todo
  /\ UNCHANGED <<stores, request>>

\* The plugin an op deals with at this label.
On(p, n, label) == At(p, label) /\ cur[p] = <<n>> /\ UNCHANGED tasks
-----------------------------------------------------------------------------
(* Install: up to the plugin directory.                                    *)

\* Where the installer of each tier begins to change the project.
FirstStep(n) ==
  CASE Tier[n] = "skill" -> "swap" [] Tier[n] = "wasm" -> "mkdir" [] OTHER -> "readlock"

\* Registry, version, fetch, manifest, signature, capabilities; then the installer stages a
\* skill in a temporary directory of its own, compiles a module, or pulls an image.  From here
\* on the op goes by the name and the version of the manifest.
Resolve(p, n) ==
  /\ At(p, "resolve") /\ asked[p] = <<n>>
  /\ \/ Fail(p) /\ UNCHANGED cur
     \/ \E m \in Named[n], v \in Versions :
          /\ cur' = [cur EXCEPT ![p] = <<m>>]
          /\ ver' = [ver EXCEPT ![p] = v]
          /\ said' = [said EXCEPT ![m] = "installing"]
          /\ Goto(p, FirstStep(m))
          /\ UNCHANGED <<moved, lf, cfg, result>>
  /\ UNCHANGED <<stores, request, todo, asked>>

\* Go's os.Rename refuses a directory that exists, an empty one too.
CanReplace(t) == t = NoTree

\* Mutant: the old directory is removed instead of being moved aside.
MoveAsideDeletes(p, n) ==
  /\ On(p, n, "swap")
  /\ dir' = [dir EXCEPT ![n] = NoTree]
  /\ Step(p, "place")
  /\ UNCHANGED <<bak, lockfile, config>>

\* Mutant: a backup that is in the way is waited for.
MoveAsideWaits(p, n) ==
  /\ On(p, n, "swap")
  /\ CanReplace(bak[n])
  /\ bak' = [bak EXCEPT ![n] = dir[n]]
  /\ dir' = [dir EXCEPT ![n] = NoTree]
  /\ moved' = [moved EXCEPT ![p] = dir[n] # NoTree]
  /\ Goto(p, "place")
  /\ UNCHANGED <<lockfile, config, ver, lf, cfg, answers>>

\* Stat(target), and rename(target, target.bak) if it is there.
MoveAside(p, n) ==
  /\ On(p, n, "swap")
  /\ \/ /\ dir[n] = NoTree
        /\ Step(p, "place")
        /\ UNCHANGED stores
     \/ /\ dir[n] # NoTree /\ CanReplace(bak[n])
        /\ bak' = [bak EXCEPT ![n] = dir[n]]
        /\ dir' = [dir EXCEPT ![n] = NoTree]
        /\ moved' = [moved EXCEPT ![p] = TRUE]
        /\ Goto(p, "place")
        /\ UNCHANGED <<lockfile, config, ver, lf, cfg, answers>>
     \/ dir[n] # NoTree /\ Fail(p) /\ UNCHANGED stores

\* rename(tmp, target)
Place(p, n) ==
  /\ On(p, n, "place")
  /\ \/ /\ CanReplace(dir[n])
        /\ dir' = [dir EXCEPT ![n] = Whole(ver[p])]
        /\ Step(p, IF moved[p] THEN "dropbak" ELSE "readlock")
     \/ /\ IF moved[p] THEN Step(p, "restore") ELSE Fail(p)
        /\ UNCHANGED dir
  /\ UNCHANGED <<bak, lockfile, config>>

\* The backup is moved back, or not: the error of that rename is dropped.
Restore(p, n) ==
  /\ On(p, n, "restore")
  /\ Fail(p)
  /\ \/ /\ CanReplace(dir[n]) /\ bak[n] # NoTree
        /\ dir' = [dir EXCEPT ![n] = bak[n]]
        /\ bak' = [bak EXCEPT ![n] = NoTree]
     \/ UNCHANGED <<dir, bak>>
  /\ UNCHANGED <<lockfile, config>>

\* RemoveAll, whose error is dropped, whatever it has left.
DropBackup(p, n) ==
  /\ On(p, n, "dropbak")
  /\ bak[n] # NoTree => \E t \in {NoTree} \cup Partial(bak[n]) : bak' = [bak EXCEPT ![n] = t]
  /\ bak[n] = NoTree => UNCHANGED bak
  /\ Step(p, "readlock")
  /\ UNCHANGED <<dir, lockfile, config>>

\* A WASM plugin's directory is made first and filled file by file.
MakeDir(p, n) ==
  /\ On(p, n, "mkdir")
  /\ \/ /\ dir' = [dir EXCEPT ![n] = IF dir[n] = NoTree THEN Tree(Missing, Missing) ELSE dir[n]]
        /\ Step(p, "module")
     \/ Fail(p) /\ UNCHANGED dir
  /\ UNCHANGED <<bak, lockfile, config>>

\* plugin.wasm.tmp is written and renamed onto plugin.wasm.
PlaceModule(p, n) ==
  /\ On(p, n, "module")
  /\ \/ /\ dir[n] # NoTree
        /\ dir' = [dir EXCEPT ![n].body = ver[p]]
        /\ Step(p, "truncate")
     \/ Fail(p) /\ UNCHANGED dir
  /\ UNCHANGED <<bak, lockfile, config>>

ManifestBecomes(n, v) ==
  dir' = [dir EXCEPT ![n] = Tree(IF dir[n] = NoTree THEN Missing ELSE dir[n].body, v)]

\* CopyTree makes the directory again if need be and overwrites the manifest in place.
TruncateManifest(p, n) ==
  /\ On(p, n, "truncate")
  /\ \/ ManifestBecomes(n, Missing) /\ Step(p, "manifest")
     \/ Fail(p) /\ UNCHANGED dir
  /\ UNCHANGED <<bak, lockfile, config>>

WriteManifest(p, n) ==
  /\ On(p, n, "manifest")
  /\ \/ ManifestBecomes(n, ver[p]) /\ Step(p, "readlock")
     \/ Fail(p) /\ UNCHANGED dir
  /\ UNCHANGED <<bak, lockfile, config>>
-----------------------------------------------------------------------------
(* Install: the two files.  A read that fails ends the op as the write     *)
(* after it does when that fails, and is not told apart from it.           *)

\* Mutant: a plugin that has an entry keeps it.
LockedKeepsOld(l, n, v) ==
  [plugins |-> [l.plugins EXCEPT ![n] = IF l.plugins[n] = 0 THEN v ELSE l.plugins[n]],
   log |-> [l.log EXCEPT ![n] = l.log[n] + 1]]

\* recordLockfile: one entry, but one more mutation record every time.  An OCI pull, a
\* directory and a module are one mutation each.
Locked(l, n, v) ==
  [plugins |-> [l.plugins EXCEPT ![n] = v],
   log |-> [l.log EXCEPT ![n] = l.log[n] + 1]]

\* Mutant: the mutation records stay.
UnlockedKeepsLog(l, n) ==
  [plugins |-> [l.plugins EXCEPT ![n] = 0], log |-> l.log]

Unlocked(l, n) ==
  [plugins |-> [l.plugins EXCEPT ![n] = 0],
   log |-> [l.log EXCEPT ![n] = 0]]

ReadLockfile(p, n) ==
  /\ On(p, n, "readlock")
  /\ lf' = [lf EXCEPT ![p] = lockfile]
  /\ Goto(p, "writelock")
  /\ UNCHANGED <<stores, ver, moved, cfg, answers>>

WriteLockfile(p, n) ==
  /\ On(p, n, "writelock")
  /\ \/ /\ lockfile' = IF Removing(p) THEN Unlocked(lf[p], n) ELSE Locked(lf[p], n, ver[p])
        /\ Step(p, "readconfig")
     \/ Fail(p) /\ UNCHANGED lockfile
  /\ UNCHANGED <<dir, bak, config>>

\* Mutant: the entry is added to the defaults, whatever the file says.
LoadConfigDefaults(p, n) ==
  /\ On(p, n, "readconfig")
  /\ cfg' = [cfg EXCEPT ![p] = NoEntries]
  /\ Goto(p, "writeconfig")
  /\ UNCHANGED <<stores, ver, moved, lf, answers>>

LoadConfig(p, n) ==
  /\ On(p, n, "readconfig")
  /\ cfg' = [cfg EXCEPT ![p] = config]
  /\ Goto(p, "writeconfig")
  /\ UNCHANGED <<stores, ver, moved, lf, answers>>

\* An uninstall that found no entry says "not installed", saved or not.
NotInstalled(p, n) == Removing(p) /\ lf[p].plugins[n] = 0
Absent(p) == Finish(p, "absent") /\ UNCHANGED said

\* appendConfig, removeFromConfig
SaveConfig(p, n) ==
  /\ On(p, n, "writeconfig")
  /\ \/ config' = [cfg[p] EXCEPT ![n] = ver[p]] /\ ~ NotInstalled(p, n) /\ Succeed(p, n)
     \/ config' = [cfg[p] EXCEPT ![n] = ver[p]] /\ NotInstalled(p, n) /\ Absent(p)
     \/ UNCHANGED config /\ IF NotInstalled(p, n) THEN Absent(p) ELSE Fail(p)
  /\ UNCHANGED <<dir, bak, lockfile>>
-----------------------------------------------------------------------------
(* Uninstall.  The lockfile it writes at the end is the one it reads here. *)

Lookup(p, n) ==
  /\ On(p, n, "lookup")
  /\ \/ /\ lf' = [lf EXCEPT ![p] = lockfile]
        /\ said' = [said EXCEPT ![n] = "removing"]
        /\ Goto(p, IF lockfile.plugins[n] = 0 THEN "readconfig" ELSE "remove")
        /\ UNCHANGED <<ver, moved, cfg, result>>
     \/ Fail(p)
  /\ UNCHANGED stores

\* RemoveAll takes the files one by one.  For an OCI plugin the engine is asked to remove
\* the registry's repository, which names no image.
RemoveDir(p, n) ==
  /\ On(p, n, "remove")
  /\ \/ dir' = [dir EXCEPT ![n] = NoTree] /\ Step(p, "writelock")
     \/ /\ dir[n] # NoTree
        /\ \E t \in Partial(dir[n]) \ {dir[n]} : dir' = [dir EXCEPT ![n] = t]
        /\ Step(p, "remove")
     \/ Fail(p) /\ UNCHANGED dir
  /\ UNCHANGED <<bak, lockfile, config>>
-----------------------------------------------------------------------------
\* A kill at any point.  What it was asked for last stays known, for HalfRemoved.
Crash(p) ==
  /\ pc[p] \notin {"start", "ended", "crashed"}
  /\ Goto(p, "crashed")
  /\ ver' = [ver EXCEPT ![p] = 0]
  /\ moved' = [moved EXCEPT ![p] = FALSE]
  /\ lf' = [lf EXCEPT ![p] = [plugins |-> NoEntries, log |-> NoEntries]]
  /\ cfg' = [cfg EXCEPT ![p] = NoEntries]
  /\ todo' = [todo EXCEPT ![p] = {}]
  /\ cur' = [cur EXCEPT ![p] = <<>>]
  /\ UNCHANGED <<stores, request, asked, answers>>

Install(p, n) ==
  \/ Resolve(p, n)
  \/ MoveAside(p, n) \/ Place(p, n) \/ Restore(p, n) \/ DropBackup(p, n)
  \/ MakeDir(p, n) \/ PlaceModule(p, n) \/ TruncateManifest(p, n) \/ WriteManifest(p, n)
Uninstall(p, n) == Lookup(p, n) \/ RemoveDir(p, n)
Record(p, n) ==
  ReadLockfile(p, n) \/ WriteLockfile(p, n) \/ LoadConfig(p, n) \/ SaveConfig(p, n)

Op(p) ==
  \/ Begin(p) \/ TakeNext(p)
  \/ \E n \in Plugins : Install(p, n) \/ Uninstall(p, n) \/ Record(p, n)

Next == \E p \in Ops : Op(p) \/ Crash(p)

Spec == Init /\ [][Next]_vars

\* A started command keeps running: it waits for nobody, only for downloads that return.
FairSpec == Spec /\ \A p \in Ops : WF_vars(Op(p))
-----------------------------------------------------------------------------
(* Properties.                                                             *)

Trees == [body : Versions \cup {0}, manifest : Versions \cup {0}] \cup {NoTree}
Entries == [Plugins -> Versions \cup {0}]
Lockfiles == [plugins : Entries, log : [Plugins -> Nat]]
Labels ==
  {"start", "next", "resolve", "swap", "place", "restore", "dropbak", "mkdir", "module",
   "truncate", "manifest", "lookup", "remove", "readlock", "writelock", "readconfig",
   "writeconfig", "ended", "crashed"}

\* Every variable has its type, and what an op remembers of one plugin is gone when it
\* takes the next one.
TypeOK ==
  /\ dir \in [Plugins -> Trees] /\ bak \in [Plugins -> Trees]
  /\ lockfile \in Lockfiles /\ lf \in [Ops -> Lockfiles]
  /\ config \in Entries /\ cfg \in [Ops -> Entries]
  /\ request \in Requests
  /\ pc \in [Ops -> Labels]
  /\ asked \in [Ops -> {<<>>} \cup {<<n>> : n \in Plugins}]
  /\ cur \in [Ops -> {<<>>} \cup {<<n>> : n \in Plugins}]
  /\ todo \in [Ops -> SUBSET Plugins]
  /\ ver \in [Ops -> Versions \cup {0}] /\ moved \in [Ops -> BOOLEAN]
  /\ result \in [Ops -> [Plugins -> {"none", "ok", "other", "error", "absent"}]]
  /\ said \in [Plugins -> {"none", "installing", "installed", "removing", "removed"}]
  /\ \A p \in Ops : pc[p] \in {"start", "next", "ended"} => ver[p] = 0 /\ ~ moved[p]

\* The mutation log speaks of locked plugins only, in whatever order ops run and die: the
\* log is what an uninstall would replay.
LogOnlyForLocked ==
  \A n \in Plugins : lockfile.log[n] > 0 => lockfile.plugins[n] # 0

\* An install that reported success leaves the three stores agreeing on one version of the
\* plugin its manifest names, and that plugin's directory whole, whatever crashes and failures
\* came before it: to install again repairs everything ("`samuel doctor --fix` reinstalls
\* anything reporting unhealthy").
AckedInstallComplete ==
  \A n \in Plugins : said[n] = "installed" =>
    LET v == lockfile.plugins[n]
    IN  /\ v # 0 /\ config[n] = v
        /\ HasDir(n) => dir[n] = Whole(v)

\* An uninstall that reported success leaves nothing of the plugin in any store.
AckedUninstallComplete ==
  \A n \in Plugins : said[n] = "removed" =>
    dir[n] = NoTree /\ lockfile.plugins[n] = 0 /\ lockfile.log[n] = 0 /\ config[n] = 0

\* p has dealt with n, or died while it did.
Dealt(p, n) == result[p][n] # "none" \/ asked[p] = <<n>>

\* Some uninstall of n has not run to its end.
HalfRemoved(n) ==
  \E q \in Ops : Removing(q) /\ Dealt(q, n) /\ result[q][n] # "ok"

IsWhole(t) == t # NoTree /\ t.body # Missing /\ t.body = t.manifest

\* No upgrade loses a locked skill: whoever is killed or fails where, the plugin or its
\* backup is there and whole.
UpgradeLosesNothing ==
  \A n \in Plugins :
    Tier[n] = "skill" /\ ~ HalfRemoved(n) /\ lockfile.plugins[n] # 0 =>
      IsWhole(dir[n]) \/ IsWhole(bak[n])

\* What loading needs, spelled out: the manifest of the locked version next to a body.
Loadable(n) ==
  /\ dir[n] # NoTree /\ dir[n].body # Missing
  /\ dir[n].manifest = lockfile.plugins[n]

\* A release that installs and that doctor refuses for good.
Refused(n) == <<n, lockfile.plugins[n]>> \in Drifting

\* A `doctor --fix` that reported success for each plugin it set out to repair, and was served
\* those plugins, leaves every locked skill and WASM plugin loadable, those it did not touch
\* included; and doctor accepts them all, but the releases it refuses for good.
FixRepairs ==
  \A p \in Ops :
    /\ request[p].verb = "fix" /\ pc[p] = "ended"
    /\ \A n \in Plugins : result[p][n] \in {"none", "ok"}
    /\ \A q \in Ops : p \in After[q] => At(q, "start")
    => \A n \in Plugins : HasDir(n) /\ lockfile.plugins[n] # 0 =>
         Loadable(n) /\ (CheckOnePlugin(n) \/ Refused(n))

Store(n) == <<dir[n], bak[n], lockfile.plugins[n], lockfile.log[n], config[n]>>

\* Op p was asked for plugin n, or for one whose release calls itself n.
Means(p, n) == asked[p] = <<n>> \/ \E m \in Plugins : asked[p] = <<m>> /\ n \in Named[m]

\* Ops that do not overlap leave every plugin alone but the one they were asked for or, where
\* the release that was fetched calls itself something else, the one it names, though each of
\* them writes back two whole files.
OthersUntouched ==
  [][\A n \in Plugins : Store(n)' # Store(n) =>
       \E p \in Ops : ~ Ended(p) /\ cur[p] = <<n>> /\ Means(p, n)]_vars

\* Every op that is not killed comes to an end.
EveryOpEnds == \A p \in Ops : <>Ended(p)

=============================================================================
