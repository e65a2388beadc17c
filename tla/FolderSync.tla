----------------------------- MODULE FolderSync -----------------------------
(***************************************************************************)
(* `samuel sync' and `samuel init' on a project's folders                  *)
(* (internal/sync/sync.go, internal/translator/claude/translator.go,        *)
(* internal/commands/sync.go and init.go): a walk that writes AGENTS.md in   *)
(* every folder, a second walk that mirrors each into CLAUDE.md, users who   *)
(* edit the same files, failing reads and writes, and kills.  Files are      *)
(* truncated and rewritten in place, and one that cannot be read is taken    *)
(* for missing; no lock is taken, so that runs may overlap each other.       *)
(*                                                                         *)
(* A text is what the code can tell of it: absent, marked as Samuel's or    *)
(* not, and what it was generated from.                                    *)
(***************************************************************************)
EXTENDS Naturals

CONSTANTS
    Runners,    \* processes that run sync or init
    Root,       \* the project's folder
    Folders,    \* the other folders
    Order,      \* Order[d]: d's place in the order of filepath.WalkDir
    Within,     \* Within[d]: d and the folders above it, without Root
    Depth,      \* Depth[d]: components of d's path below Root
    Ignored,    \* folders for which ShouldSkipDir holds
    Unreadable, \* folders whose permissions keep the walks out
    Limits,     \* values of --max-depth used; the largest stands for none
    Found,      \* the projects met: every AGENTS.md, every CLAUDE.md, samuel.toml
    Edited,     \* bound: folders whose files users edit
    MaxEdits,   \* bound: edits by users
    MaxRuns,    \* bound: runs of sync and init
    MaxFaults   \* bound: failed reads and writes, kills

Dirs == Folders \cup {Root}

ASSUME RootAssumption  == Root \notin Folders
ASSUME WalkAssumption  == /\ Order \in [Dirs -> Nat]
                          /\ \A d, e \in Dirs : Order[d] = Order[e] => d = e
                          /\ \A d \in Folders : Order[Root] < Order[d]
ASSUME TreeAssumption  == /\ Within \in [Folders -> SUBSET Folders]
                          /\ \A d \in Folders : d \in Within[d]
                          /\ Depth \in [Folders -> Nat]
ASSUME SkipAssumption  == Ignored \subseteq Folders /\ Unreadable \subseteq Folders
ASSUME EditAssumption  == Edited \subseteq Dirs
ASSUME LimitAssumption == Limits \subseteq Nat

VARIABLES
    facts,      \* what AnalyzeFolder would find in a folder now, besides
                \*              AGENTS.md and CLAUDE.md: a version
    agents,     \* folder -> AGENTS.md
    mirror,     \* folder -> CLAUDE.md
    toml,       \* samuel.toml: none; on, or off: it does not enable the
                \*              Claude translator, or cannot be loaded
    layout,     \* part of .samuel/ -> none, cut (begun) or whole
    step,       \* per process: the step it is at
    opts,       \* per process: the run's options
    ahead,      \* per process: folders the walk has still to visit
    text,       \* per process: what it is about to write
    recorded,   \* per process: folders in Skipped or Errors of the Result, of
                \*              the sync and of the mirror
    edits, runs, faults,
    clean,      \* history: nobody else touched the project since the start
    unseen,     \* history: the processes that have not seen the text they
                \*              replace: it was edited after, or not read
    missed      \* history: per process, folders left out because a read failed

project == <<facts, agents, mirror, toml, layout>>
counts  == <<edits, runs, faults>>
history == <<clean, unseen, missed>>
syncVars == <<project, step, opts, ahead, text, recorded, counts, history>>

Absent == [form |-> "absent"]
Stub   == [form |-> "stub"]     \* truncated: no marker in it
Part   == [form |-> "part"]     \* cut off or mixed: the marker is in it
Custom == [form |-> "custom"]   \* a user's, without the marker
Kept   == [form |-> "kept"]     \* a user's, with the marker still in it
Body(a) == [form |-> "body", of |-> a]      \* GenerateContent
Copy(f) == [form |-> "copy", from |-> f]    \* renderMirror
Template == [form |-> "template"]           \* renderRootAgentsMD: marked too

ASSUME FoundAssumption ==
    Found \subseteq {Absent, Custom, Kept, Body([facts |-> 1, md |-> 0])}
                    \X {Absent, Custom, Kept} \X {"none", "on", "off"}

Marked(f) == f.form \in {"part", "kept", "body", "copy", "template"}

Notes == {"readme", "gitignore"}
Parts == {"dirs", "builtins"} \cup Notes

NoOpts == [kind |-> "sync", force |-> FALSE, dry |-> FALSE, limit |-> 0]
Silent == [sync |-> {}, mirror |-> {}]

SyncInit ==
    /\ facts = [d \in Dirs |-> 0]
    /\ \E f \in Found :
          /\ agents = [d \in Dirs |-> f[1]]
          /\ mirror = [d \in Dirs |-> f[2]]
          /\ toml = f[3]
    /\ layout = [part \in Parts |-> IF toml = "none" THEN "none" ELSE "whole"]
    /\ step = [p \in Runners |-> "idle"]
    /\ opts = [p \in Runners |-> NoOpts]
    /\ ahead = [p \in Runners |-> {}]
    /\ text = [p \in Runners |-> Absent]
    /\ recorded = [p \in Runners |-> Silent]
    /\ edits = 0 /\ runs = 0 /\ faults = 0
    /\ clean = [p \in Runners |-> FALSE]
    /\ unseen = {}
    /\ missed = [p \in Runners |-> Silent]

ShouldSkipDir(d) == d \in Ignored

(* The folders both walks enter; the depth limit cuts whole subtrees. *)
Entered(d, limit) ==
    /\ \A e \in Within[d] : ~ShouldSkipDir(e)
    /\ (Within[d] \ {d}) \cap Unreadable = {}
    /\ Depth[d] <= limit

SyncWalk(limit)   == {d \in Folders : Entered(d, limit)}
MirrorWalk(limit) == {Root} \cup (SyncWalk(limit) \ Unreadable)

Goto(p, next) == step' = [step EXCEPT ![p] = next]
First(S)      == CHOOSE d \in S : \A e \in S : Order[d] <= Order[e]
Here(p)       == First(ahead[p])
Active        == {p \in Runners : step[p] \notin {"idle", "done", "failed"}}
Record(p, part, d) == recorded' = [recorded EXCEPT ![p][part] = @ \cup {d}]
Miss(p, part, S)  == missed' = [missed EXCEPT ![p][part] = @ \cup S]
Fault         == faults < MaxFaults /\ faults' = faults + 1

(* What os.ReadFile or os.Stat makes the code believe of something: the code
   does not look at the error, and takes what it cannot read for missing. *)
Sees(there, seen) ==
    \/ seen = there /\ UNCHANGED faults
    \/ seen = Absent /\ there # Absent /\ Fault

-----------------------------------------------------------------------------
(* validateInitTarget: an unforced init stops at a samuel.toml it sees. *)
MayInit(force) ==
    \/ (toml = "none" \/ force) /\ UNCHANGED faults
    \/ toml # "none" /\ ~force /\ Fault

(* runSync, and runInit where it is not a mere status: without samuel.toml a
   sync is a preview. *)
BeginRun(p) ==
    /\ p \notin Active
    /\ runs < MaxRuns
    /\ runs' = runs + 1
    /\ \E k \in {"sync", "init"}, f, dry \in BOOLEAN, n \in Limits :
         /\ IF k = "init" THEN MayInit(f) /\ ~dry /\ \A m \in Limits : m <= n
                          ELSE UNCHANGED faults
         /\ opts' = [opts EXCEPT ![p] =
                       [kind |-> k, force |-> f, limit |-> n,
                        dry |-> dry \/ (k = "sync" /\ toml = "none")]]
         /\ ahead' = [ahead EXCEPT ![p] = SyncWalk(n)]
         /\ Goto(p, IF k = "init" THEN "config" ELSE "sync")
    /\ recorded' = [recorded EXCEPT ![p] = Silent]
    /\ missed' = [missed EXCEPT ![p] = Silent]
    /\ clean' = [q \in Runners |-> q = p /\ Active = {}]
    /\ UNCHANGED <<project, text, edits, unseen>>

(* runInit: config.Save of the defaults ... *)
SaveConfig(p) ==
    /\ step[p] = "config"
    /\ toml' = "on"
    /\ Goto(p, "dirs")
    /\ UNCHANGED <<facts, agents, mirror, layout, opts, ahead, text, recorded,
                   counts, history>>

LayOut(p, now, part, state, next) ==
    /\ step[p] = now
    /\ layout' = [layout EXCEPT ![part] = state]
    /\ Goto(p, next)
    /\ UNCHANGED <<facts, agents, mirror, toml, opts, ahead, text, recorded,
                   edits, runs, history>>

(* ... writeProjectLayout: the directories ... *)
MakeDirs(p) == LayOut(p, "dirs", "dirs", "whole", "builtins") /\ UNCHANGED faults

(* ... the copy of the builtins (mirrorBuiltins), file over file ... *)
MirrorBuiltins(p) ==
    /\ \/ LayOut(p, "builtins", "builtins", "cut", "copying")
       \/ LayOut(p, "copying", "builtins", "whole", "readme")
    /\ UNCHANGED faults

(* ... README.md and .gitignore, each truncated and written in place where
   os.Stat finds none: one that was cut off is left as it is ... *)
WriteNote(p, part, writing, next) ==
    \/ /\ layout[part] # "none"
       /\ LayOut(p, part, part, layout[part], next)
       /\ UNCHANGED faults
    \/ /\ \/ layout[part] = "none" /\ UNCHANGED faults
          \/ layout[part] # "none" /\ Fault
       /\ LayOut(p, part, part, "cut", writing)
    \/ /\ LayOut(p, writing, part, "whole", next)
       /\ UNCHANGED faults

WriteReadme(p)    == WriteNote(p, "readme", "describing", "gitignore")
WriteGitignore(p) == WriteNote(p, "gitignore", "ignoring", "root")

(* ... and the root's AGENTS.md, when os.Stat finds none or under --force.  It
   is truncated and written like the other folders', ahead of them. *)
WriteRoot(p) ==
    /\ step[p] = "root"
    /\ \E seen \in {agents[Root], Absent} :
         /\ Sees(agents[Root], seen)
         /\ IF seen = Absent \/ opts[p].force
            THEN /\ ahead' = [ahead EXCEPT ![p] = @ \cup {Root}]
                 /\ text' = [text EXCEPT ![p] = Template]
                 /\ unseen' = IF seen # agents[Root] THEN unseen \cup {p} ELSE unseen
                 /\ Goto(p, "truncate")
            ELSE Goto(p, "sync") /\ UNCHANGED <<ahead, text, unseen>>
    /\ UNCHANGED <<project, opts, recorded, edits, runs, clean, missed>>

(* The steps in the middle of a write, and the part that is being written. *)
Filling == {"copying", "describing", "ignoring"}
About(s) == CASE s = "copying"    -> "builtins"
              [] s = "describing" -> "readme"
              [] s = "ignoring"   -> "gitignore"
Preparing == Parts \cup Filling \cup {"config", "root"}

CutOff(p) ==
    \/ UNCHANGED layout
    \/ step[p] \in Filling /\ layout' = [layout EXCEPT ![About(step[p])] = "cut"]

\* Mutant: an error is only a warning.
InitGoesOn(p) ==
    /\ step[p] \in Preparing \ {"root"}
    /\ Fault
    /\ CutOff(p)
    /\ Goto(p, "sync")
    /\ UNCHANGED <<facts, agents, mirror, toml, opts, ahead, text, recorded, edits, runs,
                   history>>

(* An error of one of these ends init; what was being written is cut off. *)
InitFails(p) ==
    /\ step[p] \in Preparing \ {"root"}
    /\ Fault
    /\ CutOff(p)
    /\ Goto(p, "failed")
    /\ ahead' = [ahead EXCEPT ![p] = {}]
    /\ UNCHANGED <<facts, agents, mirror, toml, opts, text, recorded, edits, runs, history>>

-----------------------------------------------------------------------------
\* Mutant: every folder's file is taken for Samuel's own.
WritableAlways(p, seen) == TRUE
(* WriteFolderContext and writeMirror: over what they have read, they write. *)
Writable(p, seen) == seen = Absent \/ Marked(seen) \/ opts[p].force

(* On to the next folder: the file at hand is done with. *)
Advance(p) == /\ ahead' = [ahead EXCEPT ![p] = @ \ {Here(p)}]
              /\ text' = [text EXCEPT ![p] = Absent]
              /\ unseen' = unseen \ {p}

(* The two files a run writes are .md files, which are counted with the rest. *)
AnalyzeFolder(d) ==
    [facts |-> facts[d],
     md    |-> (IF agents[d] = Absent THEN 0 ELSE 1) + (IF mirror[d] = Absent THEN 0 ELSE 1)]

(* SyncFolderContext at one folder: AnalyzeFolder, GenerateContent, and
   WriteFolderContext up to its decision. *)
Analyze(p) ==
    LET d == Here(p) IN
    /\ step[p] = "sync" /\ ahead[p] # {}
    /\ \/ /\ \/ d \in Unreadable /\ UNCHANGED faults
             \/ d \notin Unreadable /\ Fault
          /\ Record(p, "sync", d) /\ Advance(p) /\ UNCHANGED step
       \/ /\ d \notin Unreadable
          /\ \E seen \in {agents[d], Absent} :
               /\ Sees(agents[d], seen)
               /\ \/ /\ ~Writable(p, seen)
                     /\ Record(p, "sync", d) /\ Advance(p) /\ UNCHANGED step
                  \/ /\ Writable(p, seen) /\ opts[p].dry
                     /\ Advance(p) /\ UNCHANGED <<step, recorded>>
                  \/ /\ Writable(p, seen) /\ ~opts[p].dry
                     /\ text' = [text EXCEPT ![p] = Body(AnalyzeFolder(d))]
                     /\ unseen' = IF seen # agents[d] THEN unseen \cup {p} ELSE unseen
                     /\ Goto(p, "truncate") /\ UNCHANGED <<ahead, recorded>>
    /\ UNCHANGED <<project, opts, edits, runs, clean, missed>>

(* filepath.WalkDir cannot read a folder's entries, or not all of them: the
   walk goes on without those it has not got, and nothing is recorded. *)
WalkMisses(p) ==
    /\ step[p] \in {"sync", "mirror"}
    /\ \E gone \in SUBSET (ahead[p] \ {Root}) :
         /\ gone # {}
         /\ \A d \in gone, e \in ahead[p] \ {Root} : d \in Within[e] => e \in gone
         /\ ahead' = [ahead EXCEPT ![p] = @ \ gone]
         /\ Miss(p, step[p], gone)
    /\ Fault
    /\ UNCHANGED <<project, step, opts, text, recorded, edits, runs, clean, unseen>>

(* os.WriteFile truncates the file ... *)
Truncate(p) ==
    /\ step[p] = "truncate"
    /\ agents' = [agents EXCEPT ![Here(p)] = Stub]
    /\ Goto(p, "write")
    /\ UNCHANGED <<facts, mirror, toml, layout, opts, ahead, text, recorded,
                   counts, history>>

(* What a file is after one of several writers has written its text into it:
   that text, a mixture, or (an editor has renamed its own over it) not. *)
After(file, new) == IF file = Stub \/ file = new THEN {new} ELSE {new, Part, file}

(* ... and writes it. *)
Write(p) ==
    /\ step[p] = "write"
    /\ \E f \in After(agents[Here(p)], text[p]) :
          agents' = [agents EXCEPT ![Here(p)] = f]
    /\ Advance(p)
    /\ Goto(p, "sync")
    /\ UNCHANGED <<facts, mirror, toml, layout, opts, recorded, counts, clean, missed>>

(* An error of a write ends the work on this file (at the root's, init). *)
GiveUp(p) ==
    /\ step[p] \in {"truncate", "write"}
    /\ Fault
    /\ \/ UNCHANGED agents
       \/ step[p] = "write" /\ agents' = [agents EXCEPT ![Here(p)] = Part]
    /\ Advance(p)
    /\ Goto(p, IF Here(p) = Root THEN "failed" ELSE "sync")
    /\ UNCHANGED <<facts, mirror, toml, layout, opts, edits, runs, clean, missed>>

\* Mutant: the failure is not recorded.
WriteFailsSilently(p) == GiveUp(p) /\ UNCHANGED recorded

(* A failed write is recorded, and the walk goes on. *)
WriteFails(p) == GiveUp(p) /\ Record(p, "sync", Here(p))

(* The walk is over.  The mirror runs if samuel.toml can be loaded and has it
   enabled (an init uses the defaults it has just written). *)
EndSync(p) ==
    LET folders == MirrorWalk(opts[p].limit) IN
    /\ step[p] = "sync" /\ ahead[p] = {}
    /\ \/ /\ toml = "on" \/ opts[p].kind = "init"
          /\ ahead' = [ahead EXCEPT ![p] = folders]
          /\ Goto(p, "mirror")
          /\ UNCHANGED <<faults, missed>>
       \/ /\ toml # "on" /\ opts[p].kind = "sync"
          /\ Goto(p, "done")
          /\ UNCHANGED <<ahead, faults, missed>>
       \/ /\ toml = "on" /\ opts[p].kind = "sync"
          /\ Fault
          /\ Miss(p, "mirror", folders)
          /\ Goto(p, "done")
          /\ UNCHANGED ahead
    /\ UNCHANGED <<project, opts, text, recorded, edits, runs, clean, unseen>>

-----------------------------------------------------------------------------
(* Mirror at one folder: AGENTS.md is read, if there is one (one that cannot
   be read is passed over, and nothing recorded) ... *)
ReadSource(p) ==
    LET d == Here(p) IN
    /\ step[p] = "mirror" /\ ahead[p] # {}
    /\ \E seen \in {agents[d], Absent} :
         /\ Sees(agents[d], seen)
         /\ IF seen = Absent
            THEN Advance(p) /\ UNCHANGED step
            ELSE /\ text' = [text EXCEPT ![p] = Copy(seen)]
                 /\ Goto(p, "compare") /\ UNCHANGED <<ahead, unseen>>
         /\ Miss(p, "mirror", IF seen # agents[d] THEN {d} ELSE {})
    /\ UNCHANGED <<project, opts, recorded, edits, runs, clean>>

(* ... and CLAUDE.md, which is left alone when it is the same already. *)
Compare(p) ==
    LET d == Here(p) IN
    /\ step[p] = "compare"
    /\ \E seen \in {mirror[d], Absent} :
         /\ Sees(mirror[d], seen)
         /\ IF Writable(p, seen) /\ seen # text[p] /\ ~opts[p].dry
            THEN /\ unseen' = IF seen # mirror[d] THEN unseen \cup {p} ELSE unseen
                 /\ Goto(p, "mtruncate") /\ UNCHANGED <<ahead, text, recorded>>
            ELSE /\ IF Writable(p, seen) THEN UNCHANGED recorded
                                         ELSE Record(p, "mirror", d)
                 /\ Advance(p)
                 /\ Goto(p, "mirror")
    /\ UNCHANGED <<project, opts, edits, runs, clean, missed>>

MirrorTruncate(p) ==
    /\ step[p] = "mtruncate"
    /\ mirror' = [mirror EXCEPT ![Here(p)] = Stub]
    /\ Goto(p, "mwrite")
    /\ UNCHANGED <<facts, agents, toml, layout, opts, ahead, text, recorded,
                   counts, history>>

MirrorWrite(p) ==
    /\ step[p] = "mwrite"
    /\ \E f \in After(mirror[Here(p)], text[p]) :
          mirror' = [mirror EXCEPT ![Here(p)] = f]
    /\ Advance(p)
    /\ Goto(p, "mirror")
    /\ UNCHANGED <<facts, agents, toml, layout, opts, recorded, counts, clean, missed>>

MirrorFails(p) ==
    /\ step[p] \in {"mtruncate", "mwrite"}
    /\ Fault
    /\ \/ UNCHANGED mirror
       \/ step[p] = "mwrite" /\ mirror' = [mirror EXCEPT ![Here(p)] = Part]
    /\ Record(p, "mirror", Here(p))
    /\ Advance(p)
    /\ Goto(p, "mirror")
    /\ UNCHANGED <<facts, agents, toml, layout, opts, edits, runs, clean, missed>>

EndMirror(p) ==
    /\ step[p] = "mirror" /\ ahead[p] = {}
    /\ Goto(p, "done")
    /\ UNCHANGED <<project, opts, ahead, text, recorded, counts, history>>

(* A kill leaves the file as far as it was written. *)
KillRun(p) ==
    /\ p \in Active
    /\ Fault
    /\ \/ UNCHANGED <<agents, mirror, layout>>
       \/ /\ step[p] = "write" /\ agents' = [agents EXCEPT ![Here(p)] = Part]
          /\ UNCHANGED <<mirror, layout>>
       \/ /\ step[p] = "mwrite" /\ mirror' = [mirror EXCEPT ![Here(p)] = Part]
          /\ UNCHANGED <<agents, layout>>
       \/ CutOff(p) /\ UNCHANGED <<agents, mirror>>
    /\ Goto(p, "failed")
    /\ ahead' = [ahead EXCEPT ![p] = {}]
    /\ text' = [text EXCEPT ![p] = Absent]
    /\ opts' = [opts EXCEPT ![p] = NoOpts]
    /\ recorded' = [recorded EXCEPT ![p] = Silent]
    /\ clean' = [clean EXCEPT ![p] = FALSE]
    /\ unseen' = unseen \ {p}
    /\ missed' = [missed EXCEPT ![p] = Silent]
    /\ UNCHANGED <<facts, toml, edits, runs>>

-----------------------------------------------------------------------------
(* A user edits a file, takes it away, or changes a folder's contents. *)
Disturb ==
    /\ edits < MaxEdits
    /\ edits' = edits + 1
    /\ clean' = [p \in Runners |-> FALSE]
    /\ UNCHANGED <<toml, layout, step, opts, ahead, text, recorded, runs, faults, missed>>

(* The processes that are between their look at d's file and their last write. *)
Amid(d, steps) == {p \in Runners : step[p] \in steps /\ Here(p) = d}

EditAgents(d) ==
    /\ Disturb
    /\ \E f \in {Absent, Kept, Custom} : agents' = [agents EXCEPT ![d] = f]
    /\ unseen' = unseen \cup Amid(d, {"truncate", "write"})
    /\ UNCHANGED <<facts, mirror>>

EditMirror(d) ==
    /\ Disturb
    /\ \E f \in {Absent, Kept, Custom} : mirror' = [mirror EXCEPT ![d] = f]
    /\ unseen' = unseen \cup Amid(d, {"mtruncate", "mwrite"})
    /\ UNCHANGED <<facts, agents>>

EditFolder(d) ==
    /\ Disturb
    /\ facts' = [facts EXCEPT ![d] = 1 - @]
    /\ UNCHANGED <<agents, mirror, unseen>>

-----------------------------------------------------------------------------
InitStep(p)   == SaveConfig(p) \/ MakeDirs(p) \/ MirrorBuiltins(p) \/ WriteReadme(p)
                 \/ WriteGitignore(p) \/ WriteRoot(p) \/ InitFails(p)
SyncStep(p)   == Analyze(p) \/ Truncate(p) \/ Write(p) \/ WriteFails(p) \/ EndSync(p)
MirrorStep(p) == ReadSource(p) \/ Compare(p) \/ MirrorTruncate(p) \/ MirrorWrite(p)
                 \/ MirrorFails(p) \/ EndMirror(p)

SyncNext ==
    \/ \E p \in Runners : BeginRun(p) \/ InitStep(p) \/ SyncStep(p) \/ MirrorStep(p)
                        \/ WalkMisses(p) \/ KillRun(p)
    \/ \E d \in Edited : EditAgents(d) \/ EditMirror(d) \/ EditFolder(d)

SyncSpec == SyncInit /\ [][SyncNext]_syncVars

-----------------------------------------------------------------------------
(* The process that takes this step replaces d's file and may: it has --force,
   or has not seen the text. *)
May(p, d, steps) ==
    /\ step[p] \in steps /\ Here(p) = d
    /\ opts[p].force \/ p \in unseen
    /\ step'[p] # step[p]

(* A user's text without the marker goes only by the user's own hand, by a run
   with --force, or by a run that has not seen it: it was put there between the
   run's look at the file and the end of its write, or the read failed and the
   run took the file for missing (sync.go:157-167, translator.go:129-138,
   init.go:219).  Nothing else takes it away: no second walk, no overlapping
   run, no kill and no failed write. *)
UserTextKept ==
    [][edits' = edits => \A d \in Dirs :
         /\ agents[d] = Custom /\ agents'[d] # Custom =>
               \E p \in Runners : May(p, d, {"truncate", "write"})
         /\ mirror[d] = Custom /\ mirror'[d] # Custom =>
               \E p \in Runners : May(p, d, {"mtruncate", "mwrite"})]_syncVars

Finished(p) == step[p] = "done" /\ clean[p] /\ ~opts[p].dry

(* A text that describes d: generated from its facts, and from no more .md
   files than there are (AGENTS.md and CLAUDE.md may be younger than the text). *)
Describes(f, d) ==
    \E n \in 0..AnalyzeFolder(d).md : f = Body([facts |-> facts[d], md |-> n])

(* What a finished run that nobody disturbed has put neither into its Result as
   skipped or failed, nor missed because a read failed, is in order: each folder
   it entered has a text that describes it, and each AGENTS.md its mirror,
   whatever earlier runs were killed or failed in the middle of.  (sync prints
   what is in the Result; init drops its errors, and neither says what a failed
   read made the walks pass over.) *)
SyncedUnlessRecorded ==
    \A p \in Runners : Finished(p) =>
        /\ \A d \in Folders :
              Entered(d, opts[p].limit) /\ d \notin recorded[p].sync \cup missed[p].sync =>
                  Describes(agents[d], d)
        /\ (toml = "on" \/ opts[p].kind = "init") =>
              \A d \in Dirs :
                 /\ d = Root \/ (Entered(d, opts[p].limit) /\ d \notin Unreadable)
                 /\ agents[d] # Absent
                 /\ d \notin recorded[p].mirror \cup missed[p].mirror
                 => mirror[d] = Copy(agents[d])

(* An init that ends well and undisturbed leaves samuel.toml, the directories
   and the builtins whole, whatever earlier ones were killed or failed at, and
   the notes and the root's AGENTS.md there; the notes are whole where no write
   has ever been cut off (a cut one is taken for the user's, for ever), and the
   root's AGENTS.md is the template under --force.  (An init killed after
   config.Save does not, and only --force makes a later one go on: without it
   samuel.toml is taken for a finished init.) *)
InitWhole ==
    \A p \in Runners : Finished(p) /\ opts[p].kind = "init" =>
        /\ toml = "on" /\ layout["dirs"] = "whole" /\ layout["builtins"] = "whole"
        /\ \A part \in Notes : layout[part] # "none" /\ (faults = 0 => layout[part] = "whole")
        /\ agents[Root] # Absent
        /\ opts[p].force => agents[Root] = Template
=============================================================================
