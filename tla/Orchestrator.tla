---------------------------- MODULE Orchestrator ----------------------------
(***************************************************************************)
(* internal/orchestrator: installing a list of components under the home   *)
(* lock, undoing what was done when one of them fails, and removing them.  *)
(*                                                                         *)
(* A component owns M paths and brings them to what this build carries one *)
(* after the other, as samuel-builtins (components/samuel) does with its   *)
(* one: a path that is up to date is left alone, unless the call is        *)
(* forced; one that is not is renamed aside and replaced, and the mutation *)
(* recorded for it undoes it by removing the path.  The path's copy is     *)
(* staged beside it first, which changes nothing this module speaks of.    *)
(*                                                                         *)
(* Every process makes one call: "install", "force" (`samuel init` and     *)
(* `samuel init --force`), "dry" or "uninstall".  It may be killed between *)
(* any two steps; the kernel then frees its flock.                         *)
(***************************************************************************)
EXTENDS Naturals, Sequences

CONSTANTS
  Procs,         \* the samuel processes of one user
  None,          \* no process
  N,             \* the number of components, in declared order
  M,             \* the paths of each
  Irreversible,  \* the paths whose mutation carries no Reverse
  InitialTrees   \* what may be there to begin with

Paths == (1..N) \X (1..M)

ASSUME SizesAssumption == N \in Nat /\ M \in Nat
ASSUME NoneAssumption == None \notin Procs
ASSUME IrreversibleAssumption == Irreversible \subseteq Paths
ASSUME TreesAssumption == InitialTrees \subseteq [Paths -> {"absent", "old", "new"}]

VARIABLES
  tree,     \* the content of each path
  holder,   \* the process that has the flock on ~/.samuel/lock
  found,    \* the paths as that process found them (history; Nothing when it is free)
  call,     \* the call of each process
  pc,       \* where in it the process is
  at,       \* the component it is at
  k,        \* the path of that component
  aside,    \* the content it has renamed away, waiting to be replaced
  res,      \* the mutations of the component it is at
  applied,  \* the mutations collected so far, in order
  todo,     \* how many of those rollback still has to undo
  errs,     \* whether an undo, or a removal, failed
  answer    \* what the caller was told

local == <<call, pc, at, k, aside, res, applied, todo, errs>>
vars == <<tree, holder, found, local, answer>>

Promise == INSTANCE AtomicInstall WITH store <- IF holder = None THEN tree ELSE found

Contents == Promise!Contents
Nothing == [x \in Paths |-> "absent"]
Working == {"install", "rollback", "uninstall"}

TypeOK ==
  /\ tree \in [Paths -> Contents]
  /\ holder \in Procs \cup {None}
  /\ found \in [Paths -> Contents]
  /\ call \in [Procs -> Promise!Calls \cup {"none"}]
  /\ pc \in [Procs -> Working \cup {"idle", "done", "dead"}]
  /\ at \in [Procs -> 0..(N + 1)]
  /\ k \in [Procs -> 1..(M + 1)]
  /\ aside \in [Procs -> Contents]
  /\ res \in [Procs -> Seq(Paths)]
  /\ applied \in [Procs -> Seq(Paths)]
  /\ todo \in [Procs -> Nat]
  /\ \A p \in Procs : todo[p] <= Len(applied[p])
  /\ errs \in [Procs -> BOOLEAN]
  /\ answer \in [Procs -> Promise!Answers]

Init ==
  /\ tree \in InitialTrees
  /\ holder = None
  /\ found = Nothing
  /\ call = [p \in Procs |-> "none"]
  /\ pc = [p \in Procs |-> "idle"]
  /\ at = [p \in Procs |-> 1]
  /\ k = [p \in Procs |-> 1]
  /\ aside = [p \in Procs |-> "absent"]
  /\ res = [p \in Procs |-> <<>>]
  /\ applied = [p \in Procs |-> <<>>]
  /\ todo = [p \in Procs |-> 0]
  /\ errs = [p \in Procs |-> FALSE]
  /\ answer = [p \in Procs |-> Promise!Open]

-----------------------------------------------------------------------------
(* The call's entry and its return. *)

TakesLock(c) == c # "dry"

\* lock.Acquire does not wait.  A dry run takes no lock: the lock file is a mutation.
Begin(p, c) ==
  /\ pc[p] = "idle"
  /\ IF TakesLock(c)
       THEN holder = None /\ holder' = p /\ found' = tree
       ELSE UNCHANGED <<holder, found>>
  /\ call' = [call EXCEPT ![p] = c]
  /\ pc' = [pc EXCEPT ![p] = IF c = "uninstall" THEN "uninstall" ELSE "install"]
  /\ at' = [at EXCEPT ![p] = IF c = "uninstall" THEN N ELSE 1]
  /\ UNCHANGED <<tree, k, aside, res, applied, todo, errs, answer>>

\* Another process has the lock, or the lock file cannot be opened.
Refuse(p, c) ==
  /\ pc[p] = "idle"
  /\ TakesLock(c)
  /\ pc' = [pc EXCEPT ![p] = "done"]
  /\ answer' = [answer EXCEPT ![p] = [call |-> c, result |-> "refused"]]
  /\ UNCHANGED <<tree, holder, found, call, at, k, aside, res, applied, todo, errs>>

\* The flock is released, by the deferred call or by the kernel, and the call's variables
\* are gone.
Leave(p, how, result) ==
  /\ pc' = [pc EXCEPT ![p] = how]
  /\ answer' = [answer EXCEPT ![p] = [call |-> call[p], result |-> result]]
  /\ IF holder = p
       THEN holder' = None /\ found' = Nothing
       ELSE UNCHANGED <<holder, found>>
  /\ call' = [call EXCEPT ![p] = "none"]
  /\ at' = [at EXCEPT ![p] = 1]
  /\ k' = [k EXCEPT ![p] = 1]
  /\ aside' = [aside EXCEPT ![p] = "absent"]
  /\ res' = [res EXCEPT ![p] = <<>>]
  /\ applied' = [applied EXCEPT ![p] = <<>>]
  /\ todo' = [todo EXCEPT ![p] = 0]
  /\ errs' = [errs EXCEPT ![p] = FALSE]

Return(p, result) == Leave(p, "done", result) /\ UNCHANGED tree

-----------------------------------------------------------------------------
(* Install: the components in declared order. *)

AtPath(p) == <<at[p], k[p]>>

InComponent(p, phase) ==
  /\ pc[p] = phase
  /\ at[p] \in 1..N
  /\ k[p] \in 1..M

\* Up to date and not forced, or a dry run: no mutation.
UpToDate(p) ==
  \/ call[p] = "dry"
  \/ call[p] = "install" /\ tree[AtPath(p)] = "new"

LeaveAlone(p) ==
  /\ InComponent(p, "install")
  /\ UpToDate(p)
  /\ k' = [k EXCEPT ![p] = @ + 1]
  /\ UNCHANGED <<tree, holder, found, call, pc, at, aside, res, applied, todo, errs, answer>>

\* The tree that is there is renamed to its backup.
SetAside(p) ==
  /\ InComponent(p, "install")
  /\ ~UpToDate(p)
  /\ tree[AtPath(p)] # "absent"
  /\ aside' = [aside EXCEPT ![p] = tree[AtPath(p)]]
  /\ tree' = [tree EXCEPT ![AtPath(p)] = "absent"]
  /\ UNCHANGED <<holder, found, call, pc, at, k, res, applied, todo, errs, answer>>

\* The staged tree is renamed into place, the backup removed, the mutation recorded.
Place(p) ==
  /\ InComponent(p, "install")
  /\ ~UpToDate(p)
  /\ tree[AtPath(p)] = "absent"
  /\ tree' = [tree EXCEPT ![AtPath(p)] = "new"]
  /\ res' = [res EXCEPT ![p] = Append(@, AtPath(p))]
  /\ aside' = [aside EXCEPT ![p] = "absent"]
  /\ k' = [k EXCEPT ![p] = @ + 1]
  /\ UNCHANGED <<holder, found, call, pc, at, applied, todo, errs, answer>>

\* The component is done; its mutations join the others.
NextComponent(p) ==
  /\ pc[p] = "install"
  /\ at[p] \in 1..N
  /\ k[p] = M + 1
  /\ applied' = [applied EXCEPT ![p] = @ \o res[p]]
  /\ res' = [res EXCEPT ![p] = <<>>]
  /\ at' = [at EXCEPT ![p] = @ + 1]
  /\ k' = [k EXCEPT ![p] = 1]
  /\ UNCHANGED <<tree, holder, found, call, pc, aside, todo, errs, answer>>

Installed(p) ==
  /\ pc[p] = "install"
  /\ at[p] = N + 1
  /\ Return(p, "ok")

\* Mutant: the failing component's own mutations are forgotten.
ToUndoForgets(p) == applied[p]

\* The mutations of the components that were done, then those of the one that failed.
ToUndo(p) == applied[p] \o res[p]

\* The component fails.  What it had renamed away it renames back, ignoring an error; what
\* it had done before is rolled back with the rest, in the same call and under the same lock.
ComponentFails(p) ==
  /\ InComponent(p, "install")
  /\ \E c \in {"absent", aside[p]} :
       tree' = IF aside[p] = "absent" THEN tree ELSE [tree EXCEPT ![AtPath(p)] = c]
  /\ aside' = [aside EXCEPT ![p] = "absent"]
  /\ applied' = [applied EXCEPT ![p] = ToUndo(p)]
  /\ todo' = [todo EXCEPT ![p] = Len(ToUndo(p))]
  /\ res' = [res EXCEPT ![p] = <<>>]
  /\ pc' = [pc EXCEPT ![p] = "rollback"]
  /\ UNCHANGED <<holder, found, call, at, k, errs, answer>>

-----------------------------------------------------------------------------
(* Rollback: the mutations in reverse, going on past errors. *)

LastLeft(p) == applied[p][todo[p]]

\* Mutant: an undo that fails is tried until it succeeds.
ReverseRetries(p) ==
  /\ pc[p] = "rollback"
  /\ todo[p] > 0
  /\ \/ /\ tree' = IF LastLeft(p) \in Irreversible THEN tree ELSE [tree EXCEPT ![LastLeft(p)] = "absent"]
        /\ todo' = [todo EXCEPT ![p] = @ - 1]
        /\ UNCHANGED errs
     \/ /\ LastLeft(p) \notin Irreversible
        /\ errs' = [errs EXCEPT ![p] = ~@]
        /\ UNCHANGED <<tree, todo>>
  /\ UNCHANGED <<holder, found, call, pc, at, k, aside, res, applied, answer>>

\* A mutation without Reverse is skipped; one whose removal fails may have lost a part.
Reverse(p) ==
  /\ pc[p] = "rollback"
  /\ todo[p] > 0
  /\ \/ /\ LastLeft(p) \in Irreversible
        /\ UNCHANGED <<tree, errs>>
     \/ /\ LastLeft(p) \notin Irreversible
        /\ tree' = [tree EXCEPT ![LastLeft(p)] = "absent"]
        /\ UNCHANGED errs
     \/ /\ LastLeft(p) \notin Irreversible
        /\ tree[LastLeft(p)] # "absent"
        /\ \E c \in {tree[LastLeft(p)], "old"} : tree' = [tree EXCEPT ![LastLeft(p)] = c]
        /\ errs' = [errs EXCEPT ![p] = TRUE]
  /\ todo' = [todo EXCEPT ![p] = @ - 1]
  /\ UNCHANGED <<holder, found, call, pc, at, k, aside, res, applied, answer>>

RolledBack(p) ==
  /\ pc[p] = "rollback"
  /\ todo[p] = 0
  /\ Return(p, IF errs[p] THEN "manual" ELSE "rolled_back")

-----------------------------------------------------------------------------
(* Uninstall: the components in reverse, each giving up at its first error, the list never. *)

RemovePath(p) ==
  /\ InComponent(p, "uninstall")
  /\ tree' = [tree EXCEPT ![AtPath(p)] = "absent"]
  /\ k' = [k EXCEPT ![p] = @ + 1]
  /\ UNCHANGED <<holder, found, call, pc, at, aside, res, applied, todo, errs, answer>>

RemoveFails(p) ==
  /\ InComponent(p, "uninstall")
  /\ tree[AtPath(p)] # "absent"
  /\ \E c \in {tree[AtPath(p)], "old"} : tree' = [tree EXCEPT ![AtPath(p)] = c]
  /\ errs' = [errs EXCEPT ![p] = TRUE]
  /\ at' = [at EXCEPT ![p] = @ - 1]
  /\ k' = [k EXCEPT ![p] = 1]
  /\ UNCHANGED <<holder, found, call, pc, aside, res, applied, todo, answer>>

PrevComponent(p) ==
  /\ pc[p] = "uninstall"
  /\ at[p] \in 1..N
  /\ k[p] = M + 1
  /\ at' = [at EXCEPT ![p] = @ - 1]
  /\ k' = [k EXCEPT ![p] = 1]
  /\ UNCHANGED <<tree, holder, found, call, pc, aside, res, applied, todo, errs, answer>>

Uninstalled(p) ==
  /\ pc[p] = "uninstall"
  /\ at[p] = 0
  /\ Return(p, IF errs[p] THEN "partly" ELSE "removed")

-----------------------------------------------------------------------------

\* The path a removal is at, which a kill may leave in part.
Removing(p) ==
  IF pc[p] = "rollback" /\ todo[p] > 0 THEN {LastLeft(p)} \ Irreversible
  ELSE IF InComponent(p, "uninstall") THEN {AtPath(p)}
  ELSE {}

Kill(p) ==
  /\ pc[p] \in Working
  /\ \/ UNCHANGED tree
     \/ \E x \in Removing(p) : tree[x] # "absent" /\ tree' = [tree EXCEPT ![x] = "old"]
  /\ Leave(p, "dead", "killed")

Step(p) ==
  \/ LeaveAlone(p) \/ SetAside(p) \/ Place(p) \/ NextComponent(p) \/ Installed(p)
  \/ ComponentFails(p) \/ Reverse(p) \/ RolledBack(p)
  \/ RemovePath(p) \/ RemoveFails(p) \/ PrevComponent(p) \/ Uninstalled(p)

Next ==
  \E p \in Procs :
    \/ \E c \in Promise!Calls : Begin(p, c) \/ Refuse(p, c)
    \/ Step(p)
    \/ Kill(p)

Spec == Init /\ [][Next]_vars

\* A process that runs is scheduled; nobody need ever make a call, fail or be killed.
FairSpec == Spec /\ \A p \in Procs : WF_vars(Step(p))

-----------------------------------------------------------------------------

\* Every call is an atomic installation to whoever finds the lock free: success means that
\* every path is in place, a recoverable failure that nothing the call made is left, and an
\* incomplete rollback is never reported as a recoverable one (orchestrator.go:67-96,
\* 150-166), whatever was killed before and whoever else calls.
ImplementsPromise == Promise!Spec

\* Every call returns or is killed: lock.Acquire never waits, and an undo or a removal that
\* fails is not tried again (orchestrator.go:119-122, 179-181).
EveryCallEnds == \A p \in Procs : pc[p] # "idle" ~> pc[p] \in {"done", "dead"}

=============================================================================
