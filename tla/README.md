# Samuel v2, modelled and proved

Samuel is a Go command-line framework for AI coding assistants.  It keeps a task queue in
a project (`.samuel/run/prd.toon`), runs an agent over it in a loop (the *Ralph* loop), and
installs plugins (skills, WASM modules, OCI images) into the project.  There is no server:
everything is a short-lived process working on shared files, plus the long-lived
`samuel run start`, whose agents call the `samuel` commands themselves.  What is hard to get
right is therefore what happens *between* processes and *inside* a file update: interleaved
loads and saves, kills, failing writes, stale decisions, and retries.  Two packages are
libraries for many goroutines, the WASM runtime and the socket servers of OCI plugins; their
difficulty is what happens between two lock operations.

This directory holds TLA+ modules of these parts, the TLC configurations that check them on
small instances, and theorems about them with proofs checked by TLAPS.

## 1. Inventory

| Part | State it keeps | Operations | Hard behaviour | What makes it correct |
| --- | --- | --- | --- | --- |
| Task queue document (`ralph/prd/model.go`) | tasks, dependencies, rollup | next task, complete, skip, reset, add, enqueue, recalculate | id allocation, order of ids, sticky status | the rollup matches the tasks; ids are unique; settled tasks are not handed out |
| Queue store (`prd.go`, `run_mutations.go`, `run.go`, `lock_unix.go`) | `prd.toon`, `prd.toon.tmp`, `.samuel/lock` | load, save, the six commands, the loop's bookkeeping, init, convert, pilot | concurrent writers, kills, short writes, the shared temporary name | acknowledged changes survive; the file is whole; the lock excludes and never leaks |
| Autonomous loop (`ralph/loop.go`, `pilot.go`, `defaults.go`) | iteration, failures, last discovery, the agent process | start, gate, invoke, bookkeeping | stale choice of task, strict hooks, failure streaks, orphaned agents, resumed and parallel runs | it ends; caps hold; no rework; honest counters |
| Hook registry (`hooks.go`) | handlers by source and order, strictness | register, replace, configure, run | order of registration against order of configuration, strictness, several answers | the run goes on or stops as configured; no answer sends an agent out without a task |
| Plugin service (`plugin/service`, `commands/plugins.go`, `doctor.go`) | plugin directories, `samuel.lock`, `samuel.toml` | install, uninstall, update --all, doctor --fix, list | crash between the three stores, concurrent installs, retry | the three agree, or a retry repairs them |
| Tier installers (`plugin/skill`, `wasm`, `oci`) | plugin directory, staging and backup directories | install, reinstall, uninstall, reverse | crash between renames, stale backup | a plugin is whole and never lost by an upgrade |
| Orchestrator and builtins (`orchestrator`, `components/samuel`) | components, mutation log, home lock | init, install, rollback, uninstall | failure in the middle, failing rollback | all or nothing, reverse order |
| WASM runtime (`plugin/wasm/runtime.go`, `plugin.go`) | module cache, byte count, LRU list, host module | load, evict, register, instantiate, close | two loads of one module, eviction in use, a flag read without a lock | the cache and the list agree; nothing closed is handed out; nothing leaks; a call alone succeeds |
| OCI bridge (`plugin/oci/bridge`) | listener, connections, handlers, WaitGroup | serve, dispatch, register, stop; the plugin's calls | stop during accept and dispatch, clients that die or never hang up | nothing (but one connection) is served after Stop; everybody returns |
| Network consent (`oci/policy`, `policy/proxy`, `commands/policy.go`) | `network.toml`, its copy in a session | decide, prompt, record; preauth, reset | prompts open for minutes, failed writes, kills | an acknowledged decision stands; a prompt holds up nobody else |
| Per-folder sync (`sync`, `translator/claude`, `commands/sync.go`, `init.go`) | `AGENTS.md` and `CLAUDE.md` of every folder, `.samuel/`, `samuel.toml` | init, sync, mirror | writes in place, kills, users editing the same files | a user's text is replaced only by who may; what is not in order was recorded; a finished init is whole |
| Registry index (`plugin/registry`) | cached index and its age, per source | load, find first, refresh, fall back | two refreshers, stale fallback, failed fetches | the cached index is one that was served; a search is at most one TTL behind; an update is current |
| Admission (`semver`, `registry.ResolveVersion`, `source`, `manifest`, `verify`, `capability`, `service.Install` up to its first write) | cache of verdicts, trust root | resolve, fetch, validate, verify, grant | retry over tags, order of prereleases, verdicts that outlive their conditions | the highest match; files of one release; no waiver from the cache; one trust root per service |
| Text and terminal (`encoding/toon`, `ralph/context`, `ralph/templates`, `ui`, CLI) | generated files | render | best effort | not modelled, see section 7 |

They meet in the file system: the loop, its agents and the user's terminal share
`prd.toon`; the plugin service, `samuel init` and `samuel sync` share `samuel.toml` and
`samuel.lock`; the flock at `.samuel/lock` of the project (or of the home directory, for the
orchestrator) is the only thing that keeps processes apart.  Within the loop the parts meet
by calls: the loop calls the hook registry, the registry the handlers, and the default gate
handler loads the queue a second time.  An installation is a chain of calls: the registry's
client, the source, the manifest, the verifier, the grant decision, then the tier's installer
and the two files.

## 2. Plan

Built, in this order:

1. **PrdModel, PrdQueue, PrdStore** with **PrdModel_proofs, PrdStore_proofs**: the queue on
   disk.  Everything else stands on it.
2. **RalphLoop**, on PrdModel and **HookRegistry**, with loads and saves as steps, and
   **RalphLoop_proofs**.
3. **PluginService** with **PluginService_proofs**: commands as steps on directory, backup,
   lockfile and config, with failures, kills and retries.
4. **AtomicInstall, Orchestrator**: `samuel init`'s install of components, its LIFO rollback
   and its uninstall under the home lock, shown to implement an all-or-nothing installation,
   on the instance and in general; and **FolderSync**, the project's half of `samuel init` and
   `samuel sync`.  **Init_proofs** is about both.
5. **WasmRuntime** and **BridgeServer**: the multi-threaded parts.  Threads are processes
   whose steps are the sections between lock operations.  **NetworkPolicy**: the consent a
   running plugin asks for.  **PluginRuntime_proofs** is about the three, each by itself.
6. **RegistryCache** with **RegistryCache_proofs**: the index that commands share.
7. **SemVer, Admission** with **Admission_proofs**: what an install decides before it writes.

Left, in order of importance:

8. The other writers of `samuel.toml` and `samuel.lock` (`init --force`, `update --agents`)
   in PluginService, and in Orchestrator the backup directory, which `doctor --fix`'s
   unlocked install of a component needs.
9. The proxy's own accept loop and Stop, as a second use of BridgeServer.
10. Proofs: that HookRegistry's sorted handlers are those registered, in the order configured,
    and that AtomicInstall's promise gives what a reader of the home directory relies on.

PluginService composes with no other module: the only thing it shares with the queue is the
file system, and they use different files of it.  RalphLoop and PrdStore are two views of
one file at two granularities; both are built from PrdModel.  Orchestrator is about the home
directory, which no other module writes.  RalphLoop runs its hooks through HookRegistry, and
Admission resolves through SemVer; Admission ends where PluginService's `Resolve` stands.

## 3. The modules and the code

### PrdModel

Operators for `prd/model.go` on one in-memory document: `NewAutoPRD`,
`RecalculateProgress`, `NextAvailableID`, `GetNextTask`, the mutations of
`run_mutations.go` (`Accepts`, `Mutated`), and the loop's entry in the rollup (`Recorded`).
A document is a record of a task function and a rollup, `IsDocument` is its type and says
that the rollup is that of the tasks.  An id is a pair (number, sub-number), because the
code compares ids as strings and the model must order `10` before `2` as the code does
(`StringBefore`).  Titles, descriptions and times are opaque: one value says "set by this
commit", another "not set".

### PrdStore and PrdQueue

PrdStore is `prd.toon` and its writers, one system call per step.

| State | Code |
| --- | --- |
| `path`, `tmp` | which inode the names `prd.toon` and `prd.toon.tmp` hold |
| `data` | what each inode holds: `<<>>` after `O_TRUNC`, `<<d>>` a document, longer where two writers overlapped (unparsable) |
| `fd`, `buf`, `pc` | a process's open file, the document it is about to save, its place in the code |
| `lock` | the flock on `.samuel/lock` |
| `result`, `taskId`, `cmd` | what each command was asked, reports, and the id it reports |

A *client* is one mutation command: `Acquire` (non-blocking flock), `Load` (load and apply),
the save, `Release`.  A *saver* takes no lock: `RecordIteration` (the loop), `RunInit` (init
and convert), `RunPilot`.  A save is `CreateTmp`, `WriteTmp` or `WriteFails`, `RenameTmp`,
or `RenameFails` and then `RemoveTmp`.  `Crash` is a kill before any step.  `After`
orders processes: the documented use of the loop is that it waits for its agent, whose
commands have exited, before it saves; a command from another terminal is not ordered.

PrdQueue is what all that promises: one queue on which each writer acts at one instant and
at most once, or refuses.  `Queue == INSTANCE PrdQueue` maps its queue to the content of
the inode named `prd.toon` and its answers to the results.

### RalphLoop

`RunAutoLoop` with a registry of hooks (`defaults.go`, `pilot.go`, plugins).  Each loop is one
`samuel run start`; `pc` is its stage and `run` its local variables (`iter`, `type`, `task`,
`fails`, `last`, and the document `recordIterationProgress` has loaded).  The actions follow
the loop's body: `Start`, `Reload` or `CapReached`, `Gate`, `InvokeAgent`, `AgentReturns`,
`RecordLoad`, `RecordSave`, with `RunHooks` for stretches of hooks that touch nothing the
model keeps.  Around it: commands from agents and users (`CommandLoads`, `CommandSaves`,
`CommandDies`; the project lock lets one command at a time be between its two steps),
`Kill` of the loop with or without its agent, `OrphanReturns`, and further loops.  `outcomes`
and `settled` are history variables: what each agent came to, and which tasks commands have
saved as done or skipped, whoever sent them: the agent of a live run, one a killed run left
behind, or a user.  Only a command saved between the load and the save of a loop's own bookkeeping
is not counted: the loop takes no lock (`loop.go:305-311`) and its save may undo the command,
which is what `prd_race` shows.

### HookRegistry

`hooks.go` as operators on a record: `entries`, for each of the thirteen hooks the handlers in
the order of their registration, and `config`, each hook's strictness and order overrides.
`Register`, `RegisterWithOrder`, `Replace` and `SetConfig` return the changed registry,
`Handlers` the sorted handlers, `Run` what one run of a hook comes to when its handlers do what
`does` says: whether it goes on, the last answer about the iteration, and the warnings.  A
handler is the set of what it may do; its answer, if any, is one of the two iteration types the
hook documents (`hooks.go:93-94`), though the code would pass on any other text.  RalphLoop has the registry as its constant `Registry`
and takes its steps from `MayDo` and `Run`.  The program itself registers only the defaults
(`run.go:322`); `MCRalphLoop` adds what plugins may: a checker in two strict hooks, one of which
it enters before the default, a planner with an opinion on every iteration, and a hook that
always fails.

### PluginService

One op is one process: `install`, `uninstall`, `update --all` or `doctor --fix`.

| State | Code |
| --- | --- |
| `dir`, `bak` | `.samuel/plugins/<name>` and its `.bak`: the versions of the body and of the manifest in it, or `NoTree` |
| `lockfile` | `samuel.lock`: each plugin's version and number of mutation records |
| `config` | the `[[plugins]]` of `samuel.toml` |
| `todo`, `asked`, `cur` | the plugins the op still has to deal with, the one it is asked for now, and the one whose stores it changes |
| `ver`, `moved`, `lf`, `cfg` | the locals of an install or uninstall: version, whether there is a backup, the two files as read |
| `result` | what the op says of each plugin it was asked for ("other": it has installed another one) |
| `said` | history: what the last op on each plugin is at, or reported |

`Begin` takes the names the command is about (`Wanted`: for doctor, the locked plugins
`CheckOnePlugin` finds fault with), `TakeNext` the next of them.  An install is `Resolve`
(registry to staging: nothing in the project changes).  From there on the op goes by the name
in the manifest, which nothing compares with the name asked for: `Named` says what the releases
fetched for a plugin may call themselves.  The tier goes with the name.  `Drifting` are the
releases that install and that doctor refuses whenever it looks.  Then by tier: a skill is swapped
(`MoveAside`, `Place`, `Restore` or `DropBackup`), a WASM plugin is filled file by file
(`MakeDir`, `PlaceModule`, `TruncateManifest`, `WriteManifest`), an OCI plugin has no
directory.  Then `ReadLockfile`, `WriteLockfile`, `LoadConfig`, `SaveConfig`.  An uninstall
is `Lookup`, `RemoveDir` (file by file, and it may stop part of the way), and the two writes.
Every step but a read has a failing alternative, and `Crash` is a kill anywhere.  A write of
either file is one step because `config.saveAtomic` renames a temporary file with a name of
its own; the read before it is another step.

### Orchestrator and AtomicInstall

Orchestrator is `orchestrator.Install` and `orchestrator.Uninstall` on a list of components,
with the file operations of the one component the program registers, `samuel-builtins`.  The
orchestrator's interface takes any list, so the model has N components of M paths each.

| State | Code |
| --- | --- |
| `tree` | each path's content: absent, "new" (what this build carries: the content hash agrees) or "old" (anything else: an earlier build's tree, or a part of one) |
| `holder` | the flock on `~/.samuel/lock` |
| `found` | history: the paths as the holder found them |
| `call`, `pc`, `at`, `k` | the call, its stage, the component and path it is at |
| `aside` | the content renamed to the backup and not yet replaced |
| `res`, `applied` | the mutations of the component at hand, and those of the components before it |
| `todo`, `errs` | how many mutations rollback has left, and whether one of its undos (or a removal) failed |
| `answer` | what the caller was told |

`Begin` or `Refuse` is the lock (not awaited; a dry run takes none).  An install is, for each
path, `LeaveAlone` when it is up to date, or `SetAside` and `Place`; `NextComponent` collects
the mutations; `Installed` returns.  `ComponentFails` at any path renames back what is
renamed away (which may fail, and the code ignores that) and starts the rollback: `Reverse`
for each mutation from the last, `RolledBack` to return.  An uninstall is `RemovePath` or
`RemoveFails`, `PrevComponent`, `Uninstalled`.  `Kill` comes between any two steps, and in
the middle of a removal.  A mutation without a `Reverse` (`Irreversible`) is skipped by
rollback, as in the code.

AtomicInstall is the promise: whoever finds the lock free finds the paths as if every earlier
call had happened at one instant.  Undoing is removing, so a path that a failed call replaced
is gone and not back to what it was: that is what the code does, and `Undone` says so.  The
refinement maps the promise's `store` to `tree` while the lock is free and to `found` while
somebody has it; a call that holds the lock takes its effect when it lets go.

### WasmRuntime

| State | Code |
| --- | --- |
| `cache`, `lru`, `used` | `moduleCache`, `moduleCacheLRU`, `cacheBytes` |
| `open`, `made` | the compiled modules nobody has closed, and how many there were |
| `hostBuilt`, `hostModule` | the flag of `RegisterHost`, and whether wazero knows the host module |
| `pc`, `kind`, `body`, `cm` | a thread's step, its call and the module it holds |
| `shut`, `alone`, `doubled` | Close was called; history: nobody overlapped a call, a module was added over another |

A call of the cached kind is `Hit` or `Miss`, `Compile`, `Add` (with eviction), then for every
kind `Register`, `Build`, `Mark`, `Instantiate`, `Finish`; the install's probe, `Check` and `Run`
compile for themselves.  Each step is a section under the mutex or one call of wazero.
In the program at this commit only the probe, Check and Run are called; the cached entry point
is a library's, and its mutex says it is meant for several goroutines.

### BridgeServer

The accept loop (`Listen`, `Accept`, `Spawn`, `AcceptFails`), Stop in its three parts, one
registration (`Registers`), the plugin's calls (`Dial`, `Send`, `Die`), and one goroutine per connection
(`Read`, `Dispatch`, `HandlerReturns`, `Respond`).  `counted` is what the WaitGroup counts.
Go's RWMutex is modelled with its rule that a waiting writer keeps new readers out.  Accept
returning and `wg.Add` are two steps: that is the race.

### NetworkPolicy

`disk` and `tmp` are `network.toml` and its temporary file, `mem` the copy of the running
session, `mu` the store's mutex.  A request goes through `Lookup` (stored decision, manifest,
mode, prompt), `Answer`, `Record`, `Write`, `Rename` or `SaveFails`, `Reply`, `HangUp`; `at` is
where it is.  Sessions `Start` (and load), `End` or are killed.  `policy preauth` and `policy
reset` are processes of their own.  `Overlap` says whether they may run beside a session.
`latest` and `acked` are history: the last decision on each key, and the last one written
without an error.

### FolderSync

A text is what the code can tell of it: absent, a stub without the marker, cut off but marked,
a user's with or without the marker, a copy, the template, or generated: from a version of the
folder's other files (`facts`) and the number of AGENTS.md and CLAUDE.md there were, which
`AnalyzeFolder` counts with the rest.  `Order` is the order of the walk; of each runner, `step` is
where it is, `opts` its flags, `ahead` the folders its walk has still to visit (`Here` is the first
of them) and `recorded` those in its Results as skipped or failed.  `BeginRun` is any of the
commands; init then writes `samuel.toml` (`SaveConfig`), the parts of `.samuel/` (`MakeDirs`,
`MirrorBuiltins`, `WriteReadme`, `WriteGitignore`; `layout` says of each whether it is there, cut
off or whole) and the root's file, and goes on as a sync: `Analyze`, `Truncate`, `Write` per folder
in the order of the walk, `EndSync`, then the mirror walk: `ReadSource`, `Compare`,
`MirrorTruncate`, `MirrorWrite`.  Users edit (`EditAgents`, `EditMirror`, `EditFolder`) between any
two steps, and runs are killed.  Writes fail (`WriteFails`, `MirrorFails`, `InitFails`), and so do
reads, which the code mostly does not notice: it takes what it cannot read for missing (`Sees`),
passes over a source it cannot read (`ReadSource`), folders it cannot list (`WalkMisses`) and the
whole mirror when `samuel.toml` does not load (`EndSync`).  `unseen` and `missed` are history: who
replaces a text it has not seen, and which folders a failed read has kept from it.

### RegistryCache

`remote` is the index each registry serves now (its number), `cache` and `tmp` the two files of
each place in the cache, `fresh` whether the cache is younger than the TTL.  `Load`, `Fetch` or
`FetchFails` or `Garbled`, then `Open`, `Write`, `Close`, `Rename` or `SaveFails`; `Return`
is what FindFirst, Refresh and the listing after it make of the result.  Registries `Publish`,
caches `Expire`.  `CachePath` gives each source its file, which two may share (host and path of
the URL decide, `registry.go:307`).  Processes may write one file at a time: `apart` and `mixed`
are history, of who has had the file to itself since opening it and of which files two writers or
two sources have had since somebody last wrote them alone.

### SemVer and Admission

SemVer is `version.go` and `range.go` as operators, with `ResolveVersion`: a version is its
numbers and its prerelease identifiers, a constraint a set of parts.  Admission is
`Service.Install` up to its first write: `ResolveStep`; `Route` to a release or a clone,
`DownloadStep` per asset and tag, `Downloaded` or `ReleaseFails`; `Manifest` (every check of
`Validate`); `Verify`, `Trust` (with `Load`, the trust root and its attempts), `Bundle`; `Decide`.
`Begin` builds a service, as `install`, `update` and each repair of `doctor --fix` do, and
`NextPlugin` goes on with it, as `update --all` does: its one load of the trust root (`once`), its
verb and its `--allow-unsigned` stay the same.  The other flags are drawn for each plugin.  The
cache of verdicts and the trust root's file outlive the service.  `Short` is what the cache keeps
of a digest for a file name.  What is read from flags, registries or fetched files is chosen at
the step that reads it.

## 4. What the runs check

All cfgs say `CHECK_DEADLOCK FALSE`: every process exits, and then the system has stopped.

| Run | Question |
| --- | --- |
| `prd_phases` | Used as documented, does the queue keep every acknowledged change, is the file always whole, and do the files implement PrdQueue? |
| `ralph_single` | Does one run end, respect its cap, stop on exactly the failure streaks it should, and give implementing agents a task? |
| `ralph_resume` | Does a second run, after a first that may have been killed with its agent left behind, avoid rework and count each iteration once? |
| `plugin_serial` | Do a command's success reports mean that the three stores agree, whatever an earlier command left behind? Is a skill ever lost or half there? Does a repair repair? |
| `orchestrator_calls` | Is every install and uninstall, whatever fails and whoever is killed, an atomic one to whoever finds the home lock free? Does every call end? |
| `wasm_shared` | Does the cache ever hand out a closed module? Does anything leak, or the list drift, before two calls compile one body at once? Does a call alone succeed? |
| `bridge_stop` | What is still served when Stop returns? Does everybody return? |
| `policy_session` | Does an acknowledged decision stand? Does a prompt hold up anybody else? |
| `sync_runs` | Who can replace a user's text, is everything that is not in order recorded, is a finished init whole? |
| `registry_commands` | Is a cached index one that was served, a search at most one TTL behind, an update current? |
| `admission_commands` | Is the highest match taken, are the files of one release, is a waiver ever served from the cache, do the plugins of one update meet one answer about the trust root? |
| `prd_race` | The disagreement of section 5. |

The properties of each, with the code they are about, are stated above their definitions.
Why they need interleavings and failures to be wrong:

* `AckedDoneSurvives` and `AckedTasksDistinct` relate what a command *reported* to the file
  after any number of further writers; either breaks if the lock does not span load and
  save (mutant `AcquireBlindly`) or an id is not checked at the right moment.
* `PathWhole` breaks if an error of the write is dropped before the rename
  (`WriteFailsUnseen`).
* `StopsOnStreak` says *exactly when*: neither an interrupted streak may stop a run, nor may
  a run outlive a full one.  `NotCountedTwice` compares the rollup on disk with the agents
  that really ran, over kills and dropped saves.
* `NoRework` is about a task settled by one actor, possibly the agent of a run killed since, and
  handed out by a *later* load of another run.
* `AckedInstallComplete` and `AckedUninstallComplete` start from whatever an earlier command,
  killed or failed anywhere, left; they break when a write merges with the old entry
  (`LockedKeepsOld`) or forgets one of the records (`UnlockedKeepsLog`).
* `UpgradeLosesNothing` breaks when the old directory is removed instead of moved
  (`MoveAsideDeletes`).
* `FixRepairs` includes the plugins a repair did *not* touch, so it breaks when the check is
  too weak (`CheckDirOnly`).  It does not say that doctor is satisfied with everything: a release
  of `Drifting` is repaired, reported as repaired, and refused again.  And it speaks of repairs
  that were served what they asked for: one that fetches a release of another name has installed
  that, and says so.
* `OthersUntouched` breaks when a file is rewritten from the defaults (`LoadConfigDefaults`).  A
  plugin may be replaced by an install of another one whose manifest has its name, and only so.
* `ImplementsPromise` breaks when the failing component's own mutations are not among those
  rolled back (`ToUndoForgets`): the call then reports a clean failure and leaves a path.
  `EveryCallEnds` breaks when a failing undo is tried again (`ReverseRetries`).
* `CacheSound` relates the cache, the list and what is open over any mixture of hits, misses and
  evictions; it breaks when a hit loses its key (`BumpLosesKey`).  `TidyUntilDoubled` breaks
  when a direct call forgets to close (`FailKeepsModule`), `LoneCallSucceeds` when eviction may
  take the newest module (`EvictionsAll`).  Both say *until*: after a double compilation the
  code does leak, and a call alone can then meet a closed module.
* `StopLeavesAtMostOne` breaks when Stop does not wait (`StopReturnsAtOnce`), `EveryoneReturns`
  when it waits with the lock in hand (`WriterStays`): a handler's dispatch and Stop then wait
  for each other.
* `PolicyKept` needs a session, a later one or a command, and a write that failed in between;
  it breaks when a session starts with an empty copy (`StartUnloaded`).  `OnlyTheAskedWait`
  breaks when the prompt is made under the store's lock (`LookupKeepsLock`).
* `UserTextKept` names its exceptions, the edit that falls between a run's read and its write and
  the read that failed; it is about every other step of two walks over files that overlapping runs
  and users write, and breaks when a text without the marker passes for Samuel's (`WritableAlways`).
  `SyncedUnlessRecorded` is about a run after any number of failed, killed or concurrent ones; it
  breaks when a failed write is dropped (`WriteFailsSilently`).  It says what is in the Results of
  the run, which sync prints and init does not (section 5), and leaves out what a failed read made
  the run miss, which nothing records.  `InitWhole` breaks when init goes on after an error
  (`InitGoesOn`); of README.md and .gitignore, which are written in place and never again, it
  promises no more than that they are there once anything has failed.
* `CacheServed` breaks when the cache is written in place (`OpenInPlace`).  `FindsRecent` is about
  *every* source that a search passed over, whichever process filled its cache or is filling it;
  without its exception, a file that two writers have mixed, TLC finds it violated at once.  It
  breaks when a cache is used however old it is (`LoadIgnoresAge`); `UpdateIsCurrent` breaks when the forced pass takes the cache (`LoadIgnoresForce`).
* `ResolvesHighest` measures the code's comparison, operators and selection against a ladder of
  versions in the order of SemVer 2.0, for every list of two and every constraint of the
  instance.  That the ladder can measure is an assumption of `MCAdmission`, which TLC evaluates;
  the invariant breaks when a caret range below 1.0.0 runs to the next major version
  (`NextMajor`).  `OneRelease` breaks when the second tag goes on where the first one stopped
  (`DownloadKeepsPlace`), `UnsignedNotSticky` when the key of the cache leaves out the flag.  It promises
  no more than the cache can keep: the verdict is that of *some* artifact of the same short digest
  (section 5).  `OneTrustRoot` breaks when each plugin has the trust root loaded anew
  (`LoadedEach`): the network or the root's expiry then decides half-way through an update.

### Bounds

| Run | Instance | Why it is enough |
| --- | --- | --- |
| `prd_phases` | three commands (of five kinds, two agents), init, pilot and one bookkeeping save; one task at first, or no queue | a loss needs a writer, a victim, and an acknowledged command before them; init, pilot and record differ in what they look at, so all three are there |
| `ralph_single` | three iterations, a failure limit of two, interval two, two commands (`MaxCommands`), a chain of two tasks, or a queue whose tasks wait for a lost row | three iterations hold a streak, its interruption, and an elapsed interval; two commands can settle one task and reset another |
| `ralph_resume` | two runs of two iterations and one | the second run's first load is the step in question |
| `plugin_serial` | two ops in turn, three plugins (one of each tier), two versions, of which doctor refuses one of the module; what is fetched for the module may call itself the skill; a new project or one with the skill and the module at version 1; at most one of the two goes through several plugins, and the OCI plugin meets only its own commands and repairs | the first op leaves any wreck a kill or failure can leave, the second works on it; a command on one plugin shows what it does to the others; two versions make an upgrade and a mixture |
| `orchestrator_calls` | two calls of any kind, at once or in turn, on two components of two paths; the second path of the first cannot be undone; every mix of whole components to begin with | the component that fails has one before it and mutations of its own; a rollback meets a mutation it must skip between two it must not; the second call works on the first one's wreck |
| `wasm_shared` | two threads, four bodies (one that does not compile, one larger than the whole budget of three), four calls | two small modules and a third fill the budget; a double compilation, an eviction and a call after both fit into four calls |
| `bridge_stop` | two clients of two methods, one registration | one client in the race with Stop, one being served |
| `policy_session` | three requests, two keys, one command, one fault; sessions without end | two requests for one host may both be prompting; the third shows what is written along |
| `sync_runs` | two processes, two runs, one edit, one fault; a folder, in it an unreadable one with one inside, no depth limit; a folder with a user's files, and a project synced before the user wrote CLAUDE.md files, with the translator on or off | a first run that is killed or fails, and a second that meets its leavings and an edit; one fault is a failed read that replaces a text, or a cut that a later run finds |
| `registry_commands` | two processes, three runs, two registries, of which the first takes the plugin in with its second index and the other has it from the start; one fault | a search passes over one source and finds in the other; each answer can be stale or current; two writers overlap on one file, and a third command reads what they left |
| `admission_commands` | two installs, by one service or two; two digests that the cache files under one name, the first also with a suffix; thirteen versions, lists of two, 23 constraints, manifests of every kind with one thing wrong | the second install meets the first one's cache and its trust root, and can collide with its artifact; each rule of comparison separates two versions of the ladder |

`MaxIterations`, `MaxConsecFails` and `Interval` are settings of the program; `MaxCommands`,
`MaxCalls`, `MaxRuns`, `MaxEdits` and `MaxFaults` are bounds of the instances.
`Versions` bounds what a registry may offer.  The number of
mutation records is not bounded by a guard: it grows once per install, and installs are
bounded by the ops.

### Fairness

`EveryWriterEnds`, `EveryRunEnds`, `EveryOpEnds` and `EveryCallEnds` use weak fairness of
each process's own steps.  That is what the code justifies: each process is sequential,
takes no blocking lock (the flock is tried, not awaited), and the operating system
schedules it.  It amounts to assuming that what a process calls returns: `EveryRunEnds`
assumes that agents come back, though the loop gives them no timeout, and `EveryOpEnds`
that downloads do.  `EveryoneReturns` uses weak fairness of the accept loop, of Stop, of
registration and of each goroutine, and of a client's *sending* once it has dialled (or its
death): the code gives a connection no deadline, and a client that stays silent does hold up
Stop (section 5).  `OnlyTheAskedWait` uses weak fairness of the proxy's goroutines only; no
user has to answer, but a connection that was let through ends.  Handlers of hooks return.
Kills are never fair: nothing is promised about them, and no property needs one.  In RalphLoop a
command that has loaded saves or dies; that a new command is ever issued is not assumed.
WasmRuntime, FolderSync, RegistryCache and Admission state no fairness: their properties are
about what is so when a call has ended.

## 5. Where the code and its documents disagree

One has a run of its own, `prd_race`, whose only property states the document and which TLC
refutes: commands lock "so a concurrent `samuel run start` can't race the agent's `samuel run
done`" (`run_mutations.go:14`), and the loop's bookkeeping takes no lock (`loop.go:305`).  A
`done` that falls between its load and its save is acknowledged and lost.

The others were met while modelling.  Each line follows from the modelled definitions.

| The document | The code |
| --- | --- |
| `run start` "does not reset the iteration counter" (`docs/concepts/ralph-wiggum-methodology.md:37`) | the first iteration of a second run sets it to 1 (`loop.go:311`; RalphLoop's `Recorded`) |
| a discovery after the "configured interval elapsed since the last discovery" (`pilot.go:18`) | the default gate takes every previous iteration for a discovery and overrules the loop (`defaults.go:58`; `GateLast`) |
| `before:loop` acquires a lock (`docs/core/methodology.md:40`) | nothing does; two runs work on one task (`loop.go:103`) |
| each hook has `strict` and `timeout` overrides in `samuel.toml` (`docs/core/methodology.md:54`) | nothing calls `SetConfig` (`hooks.go:238`); the warnings of hooks that fail softly are never taken out |
| "manifest + artifact intact" (`doctor.go:417`) | the artifact is only looked for (`doctor.go:365`); after a WASM upgrade killed between module and manifest it is not the locked version |
| `samuel doctor --fix` "reinstalls anything reporting unhealthy" (`docs/getting-started/quick-start.md:79`) | a module that its manifest calls other than `plugin.wasm`, or whose two lists of exports differ, installs and stays unhealthy (`doctor.go:359-390`, `wasm/plugin.go:102`; `Drifting`) |
| `samuel install <plugin>` installs that plugin | the manifest's name is never compared with it: directory and entries are those of the plugin the manifest names (`service.go:129-190`, `:314`, `:327`; `Named`) |
| install, update and uninstall work "under the project file lock" (`docs/core/plugins.md:59`) | they take none; two of them can lose an entry (PluginService without `InTurn`) |
| a manifest copy under `.samuel/plugins/<name>/` (`oci/plugin.go:71`) | no code writes it: doctor reports every OCI plugin as missing and repairs it in vain |
| Stop "waits for in-flight handlers" (`bridge.go:228`) | a connection accepted just before is counted too late (`bridge.go:220`); `StopLeavesAtMostOne` is what remains true |
| the cache of an index "is repopulated atomically" (`registry.go:134-136`) | two processes share one temporary file (`registry.go:376`); a truncated one that the other renames parses as an index of no plugin, and a search that met no fault reports a listed plugin as unknown (RegistryCache: what `mixed` excepts) |
| the WASM cache evicts when it exceeds `[wasm].cache_budget` (`docs/plugin-authors/wasm.md:171`) | the setting is never read, and eviction subtracts the size of the module added (`runtime.go:220`), so the count drifts from what is cached |
| the verification policy "comes from samuel.toml [security]" (`verify.go:10`, `:341`) | commands use `DefaultPolicy()` (`plugins.go:122`); no code reads that section |
| `--allow-unsigned` does not extend to installs from registries that are not listed (`docs/plugin-authors/signing.md:127`) | the flag is looked at before the list and waives the signature everywhere (`sigstore.go:446`; `Waived`) |
| a verdict is cached "per-digest" (`verify.go:204`) | its file is named by the first 16 characters and nothing compares the digest (`verify.go:307`, `:266`); an artifact that shares them is served another's verdict (Admission's `Short`) |
| flipping `--allow-unsigned` "always misses the cache" (`verify.go:255-258`) | not for an `[oci].digest` that itself ends in `+unsigned`: nothing validates that field (`service.go:245`; `Suffixed`) |
| `update --non-interactive` "Fail-closed on prompts (CI use; matches install)" (`plugins.go:73`) | update passes `Yes: true` and never prompts (`plugins.go:607`): what a new version asks for in addition is granted; `doctor --fix` does so for "capabilities already trusted in samuel.lock" (`doctor.go:203`), though the version it installs may ask for others |
| the trust root is fetched anew by every version of the program (`sigstore.go:107-108`) | nothing passes a version, so the cache is always that of `unversioned` (`sigstore.go:400`) |
| the marker tells `samuel sync` "what to leave alone" (`docs/getting-started/quick-start.md:24`) | a file with the marker is replaced whole, and one without it is left alone (`sync.go:168`; `Writable`) |
| `samuel init` is idempotent (`docs/getting-started/quick-start.md:20`) | after a kill behind `config.Save` it reports the project as initialised and does not finish it; a README.md or .gitignore of `.samuel/` that was cut off stays so under `--force` too (`project_layout.go:152`, `:178`) |
| "user-customized -> skip unless opts.Force" (`sync.go:154`) | any error of the read counts as "missing file -> create": a file that may be written and not read is replaced (`sync.go:158`, `translator.go:130`; `Sees`) |
| a Result has the "outcomes" of a run (`sync.go:76`) | init drops the errors in it (`init.go:229-252`, `:316-354`), which only sync prints; a source that the mirror cannot read, and folders that cannot be listed, are in no Result (`translator.go:113`, `:86`) |

Some code has no reader or no effect, and the models show it as such: the kind and version
that a registry lends to a manifest without them (`service.go:133-141`) come after a validation
that has refused it; a `meta` plugin passes `Validate` and has no installer (`NoTier`); without a
constraint and without `latest` the *last listed* version is taken, whatever its number
(`registry.go:210`); `^1.0.0` with prereleases allowed takes `2.0.0-alpha`, which precedes 2.0.0.
`policy preauth` and `reset` beside a running session are overwritten by the session's next
decision (NetworkPolicy with `Overlap = TRUE`), which no document excludes.  The analysis of a folder counts the AGENTS.md and CLAUDE.md that the
run is about to make (`sync.go:211`; `AnalyzeFolder`), so that a second sync of an unchanged project
rewrites what the first one wrote.

## 6. What is proved

The proofs hold for every set of processes, plugins, versions, commands, threads and files that
the assumptions of the modules allow, each named where the constant is declared: names are
distinct from the "nothing" values, and configured values have their types.  `DocsAssumption` of
RalphLoop says that the queues a run may find are documents, whose rollup is that of their
tasks; every writer of the program leaves one (PrdModel_proofs).

**PrdStore, unconditionally** (`DisciplineHolds`, `MutualExclusionHolds`, `NoLockLeakHolds`).
Mutual exclusion is not inductive.  `LockInv` adds that whoever is inside holds the lock and
that nobody else does; `OrderInv` that a process that has started finds the ones before it
over, which needs that an ended process stays ended.  `Discipline` is both.

**PrdStore, for the documented use** (`TypeCorrect`, `PathWholeHolds`, `Implementation`,
under `Serialised`: a saver and any other process are never both running).  From
`Serialised` and `Discipline` follows `Alone`: at most one process is between its start and
its end.  That is what the shared temporary name needs.  `StoreInv` then says of names that
an inode has at most one (`NamesInv`), of files that `prd.toon` is whole and its document
well-formed (`FilesInv`), and of each process what its label knows: the one about to write
has opened an empty inode that is not `prd.toon`, the one about to rename has its own
document in it (`SaveInv`).  Each action has a lemma.  The refinement follows from the
invariant: a successful rename is the queue's step (`RenameIsQueueStep`), an error report a
refusal, everything else a stutter.  Its heart is that the document renamed is the one made
from the content loaded, and that this content has not changed since.
`PrdModel_proofs` supplies that every mutation maps documents to documents, so that the
rollup is always that of the tasks.

**PrdStore, what commands have reported** (`AckedDoneSurvivesHolds`, `AckedTasksDistinctHolds`,
under `Serialised` and `NewQueueFirst`).  `run init` and `run convert` put a new queue in the
place of the old one, and nobody means the old tasks to survive that; so they come before the
commands in question, and the bookkeeping and `run pilot`, which keep the tasks, come anywhere.
`AckInv` says what the published document owes to each command that has reported: its task is
there, completed and stamped unless another command has reported a change of it, and an id
reported as new is nobody else's.  `TargetInv` ties the id a command will report to the document
it loaded.  Only a rename changes the document, and the renamed one is made from the one that
was there (`StoreInv`).

**PluginService, unconditionally** (`TypeCorrect`, `LogFollowsPlugins`).  That the log in
`samuel.lock` is about listed plugins holds for overlapping ops too, although they overwrite
each other's entries.  The invariant says it of every *copy* of the file as well (`LogInv`),
since any copy in a process's memory may become the file, and that an op about to write an
entry has a version to write (`VerInv`); without the latter, an entry of version 0 would
break the log.  Two lemmas, `FinishKeeps` and `MoveKeeps`, cover the two ways a step can end,
so each action's lemma is about the stores only.

**PluginService, ops in turn** (`AckedInstallCompleteHolds`, `AckedUninstallCompleteHolds`,
`UpgradeLosesNothingHolds`, `FixRepairsHolds`, `OthersUntouchedHolds`, under `OneAtATime`: of two
ops one waits for the other; the file lock that the documents claim would give it).  An op at
work is then the only one (`TurnInv`), and every plugin is on its list, in its hand or answered
for; the one in its hand is the one it was asked for or a name that may have been fetched for it
(`ShareInv`).  `StageInv` says label by label what it has made of the plugin in its hand: from
the placing of a directory to the lockfile that the directory is the new version, at the write of
either file that its copy is still the file.  One lemma per step says that the step changes the
stores of that plugin only, and goes to a stage that is as described or answers (`Outcome`); one
says the same of the step that learns the manifest's name and changes no store (`Fetched`).
`AckInv` then says that a reported success stands for agreement of the three stores until another
op takes the plugin up, and `HealthyInv` that a repair that has failed at nothing so far leaves
behind it, and has left alone, only what can be loaded and what doctor accepts or refuses for good.

**Orchestrator, unconditionally** (`TypeCorrect`, `Implementation`), for any number of
processes, components and paths and any set of irreversible ones.  The invariant has two
parts.  `ShapeOf` ties the lock, the stage, the call and the answer of each process together;
from it follows that only one process changes `tree`.  `HolderOf` says what that process has
made of the paths it found, by stage.  While it installs, what it has recorded is new and
may have been replaced, what it is past is new, and the rest is as found, but for the path
it has renamed away (`Installing`).  While it rolls back, what is not among its mutations is
as found or gone, and unless an undo failed the mutations it is past are gone or
irreversible (`RollingBack`).  While it uninstalls, what it is past is gone unless a removal
failed (`Uninstalling`).  Each action has a lemma that it keeps this.  The refinement reads
it off at the points where a call lets go of the lock: `InstalledMaps`, `RolledBackMaps`,
`UninstalledMaps` and `KillMaps`; every other step is a stutter, because the promise's store
is then `found`, which the holder does not change.

**RalphLoop, unconditionally** (`TypeCorrect`, `CapIsRespected`, `StopsExactlyOnStreak`,
`ImplementsOneOfTheTasks`), for any number of runs in any order, any registry of hooks, any
commands, caps and limits.  None of the three properties is inductive, since they speak of the
agents a run has had and the loop decides on counters.  `CountInv` says of each stage how the
iteration counter relates to the number of outcomes: ahead by one from the gate to the agent,
equal elsewhere.  `StreakInv` says that the last `fails` outcomes are failures and the one
before them is not, and that a full streak is found only in a run that has ended.  `TaskInv`
carries the task from the gate to the agent.  A lemma on the hooks (any stage, any handlers)
covers the stretches in between, and commands disturb only the queue.

**RalphLoop, several runs.**  `NeverCountedTwice` holds however runs overlap, resume and are
killed, for a queue that nobody has worked on yet.  `CountsInv` bounds the rollup of every copy of
the queue, that of the file and those in the hands of loops and commands, by the agents that have
come back, less the ones whose bookkeeping is still ahead; so saving an old copy loses counts and
never adds any.  `NoSettledTaskAgain` (that is `NoRework`) holds however runs overlap, whatever
users, kills and orphaned agents do, for every report but the ones `settled` leaves out.
`WorkInv` says that every copy that may still be saved knows what commands have settled, but for
the task of a reset under way.

**BridgeServer, unconditionally** (`BridgeTypeCorrect`, `StopLeaves`).  `ServedInv` says that a
connection being served is one the WaitGroup counts or the one Accept has just returned;
`LeftInv` that after a Stop that closed the listener nothing but that one is left.

**WasmRuntime, unconditionally** (`TypeCorrect`, `CacheIsSound`, `TidyTillThen`,
`AloneSucceeds`).  `CacheInv`: no module is cached under two keys.  `HeldInv`: a module about to be
added is known to nobody else, and one compiled directly never to the cache; so whatever eviction
or a deferred Close closes is not something the cache goes on listing.  `OwnInv`: until a double
compilation an open module of a cached call is the cache's.  `LoneInv`: while a call is alone the
others are idle, nobody stands between the host module and its flag, and its module is open.
How many entries an eviction drops is a least number, whose existence is by well-founded
induction on the naturals (`WellFoundedInduction`).

**NetworkPolicy, where no command runs beside a session or another command** (`PolicyIsKept`,
under `~Overlap`; beside each other they lose decisions, section 5).  `PolicyInv`: the file is at
every instant what was last written to it without an error; the session's copy differs from it by
its own later decisions only (`SessionInv`), so writing it whole puts nothing back; who renames
holds the lock and has written the temporary file (`HolderInv`, `CommandInv`).

**FolderSync, unconditionally** (`UserTextIsKept`, `SyncedOrRecorded`, `InitLeavesWhole`), for any
tree, limits and options and any number of runs at once.  `SyncInv` says of a run what it is
about to write (`Writing`), that what it is about to replace is no user's text unless it has not
seen it (`Keeping`), and how far an init has come (`Preparation`, `RootFirst`); and that a part of
the layout that is cut off is being written, or something has failed.  Of a run that nobody has
disturbed it says that every folder it is past has a text that describes it, was recorded or was
missed, and in the second walk the mirror (`Synced`, `Mirrored`); that such a run is alone
(`Undisturbed`) is needed because two runs may mix their texts.  The order of the walk is a
constant, and the next folder a least number, as above.

**RegistryCache, with any number of writers of one cache file** (`CacheIsServed`,
`FindIsRecent`, `UpdatedIsCurrent`, under `Distinct`, that `samuel.toml` names each registry once;
sources may share files).  The invariant bounds every cache that is not mixed and every fetched
body between what was served when the copy before it expired and what is served now (`Cached`,
`Fetched`); it gives a writer its temporary file, or says that the file is mixed (`Writing`).
Of a search it says that each source passed over had a recent index without the plugin
(`Search`), of an update that each source passed has been asked since it began (`Update`).

**Admission, unconditionally** (`TypeCorrect`, `UnsignedIsNotSticky`, `OneRootPerService`,
`FilesOfOneRelease`).  What is served from the cache may be any entry of it, so `CacheInv` says it
of them all: under a name without a suffix, some artifact of that name was accepted by a signature
or by the policy, whatever `Short` maps together.  `RootInv` says that a service's answers follow from its one load.
`DownloadInv` counts the assets that are done: a tag is given up only for want of a required
asset, the required ones come first and are fetched anew, so nothing optional of the tag before
is left.  It needs that no asset is both, an assumption on the constants.

**Versions** (`CompareIsAnOrder`, `ResolveTakesHighest`, `ResolvedIsHighest`).  `Compare` is a
total order of all versions, with any numbers and any prerelease identifiers: a lexical order of a
total order is one (`LexCompares`), and the two orders of places are (`NumbersCompare`,
`IdentsCompare`).  `Resolve` goes through the list once, and its result is the best of what it has
passed.  This one is an induction over data, done without an induction theorem: the set of places
where the claim holds contains zero and the successor of each, and a least place outside would
contradict that (`AllPlaces`).  The same argument shows that the recursive function in `Resolve`
has a value (`BestExists`).  A part of a constraint matches the versions it means to
(`PartFits`); for `^` and `~` this is that a release is before the end of the range just when it
keeps the numbers that must not change (`RangeKeeps`).  `ResolvedIsHighest` is then the invariant
of the run, for any ladder that can measure (`LadderMeasures`): it is in order, it has what is
listed and asked for, and no prerelease on it lies between the end of a range and the first release
from there on.  For such a prerelease, which no release on the ladder tells from one inside, the
ladder would have no answer.

**Only model-checked:** liveness (`EveryWriterEnds`, `EveryRunEnds`, `EveryOpEnds`,
`EveryCallEnds`, `EveryoneReturns`, `OnlyTheAskedWait`), since the provers have no rule for
fairness and `ENABLED`.  Every other property of the passing runs is a theorem.

## 7. What is not modelled, and why

* **Text**: the TOON encoding, templates, prompts, context files, TOML, terminal output.  A
  file parses or it does not.  A row of `prd.toon` that the reader drops shows as a queue
  whose tasks wait for a missing one (`Stuck`).
* **Parts of a `prd.toon`**: a prefix of the file may decode, since the reader recovers rows; PrdStore
  takes any partial file for unreadable.  A command's report is its exit status: in text mode its
  line is printed before the save (`run_mutations.go:59-61`).
* **Answers of hook handlers outside the two iteration types**: HookRegistry drops them, where the
  loop would receive them (`loop.go:132`).
* **Small differences**: an uninstall that finds nothing to remove reports as one that removed it
  (`Uninstalled`, `component.go:268`); the mutation records that `init` writes for samuel-builtins
  (`init.go:197-201`), which is in no `[[plugins]]`, are not among PluginService's.
* **Networks and cryptography**: HTTP and git are one step that succeeds, fails, or answers
  garbage; a signature is good or bad.
* **The container engine**: an image pulled or removed is in a store no modelled step reads.
* **Power loss**: a kill keeps what the kernel has; `prd.toon` is not fsynced, and the model
  says nothing about what a disk does with that.
* **Windows**: the lock is the flock of `lock_unix.go`.
* **Staging directories and files with random names** that a kill leaves behind: nothing
  reads them.
* **File names inside a plugin**: a body and a manifest, by version.
* **Around the orchestrator**: its read-only `Doctor`; `doctor --fix`, which runs a component's
  install without the home lock; and the backup directory that a kill leaves behind, which makes
  the next replacement of the same content fail at its first rename (in the model a component
  may fail anywhere, so this is among its behaviours, but not forced).
* **What a WASM module computes**, and the host functions it calls: each is a decision on a path
  or host followed by one operation.  Matching globs and hosts is text.
* **The proxy's accept loop and Stop**: the same code as the bridge's but for the flag; the
  request's way from its read to the answer is in NetworkPolicy.  The audit log is only written.
* **The container launcher**: it assembles a command line.
* **`update --agents`** and **`init --force` over an existing `samuel.lock`**: left (section 2).
* **The migration and release scripts** (`src/scripts`), the API definitions, the scaffolding of
  new plugins, `ui` and `errors`: no state that outlives a run, or text.
