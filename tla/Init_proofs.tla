---------------------------- MODULE Init_proofs ----------------------------
(***************************************************************************)
(* What holds of the two halves of `samuel init', for any number of        *)
(* processes.                                                              *)
(*                                                                         *)
(* Orchestrator, for any components and paths: types, and that every call  *)
(* is the atomic installation of AtomicInstall.  The inductive invariant   *)
(* says who has the lock (ShapeOf), and what the process that has it has   *)
(* made of the paths it found (HolderOf): while it installs, rolls back    *)
(* and uninstalls.                                                         *)
(*                                                                         *)
(* FolderSync, for any tree and any options: a user's text is replaced     *)
(* only by who may, what a sync neither records nor misses is in order,    *)
(* and what an init that ends well leaves.  The inductive invariant says   *)
(* of each run what it is about to write and over what (Writing, Keeping), *)
(* how far an init has come (Preparation, RootFirst), and, while nobody    *)
(* disturbs it, that every folder it is past is in order, recorded or      *)
(* missed (Synced, Mirrored).                                              *)
(***************************************************************************)
EXTENDS Orchestrator, FolderSync, WellFoundedInduction, TLAPS

RangeOf(s) == {s[i] : i \in 1..Len(s)}

\* The paths process p has put in place.
Made(p) == RangeOf(applied[p]) \cup RangeOf(res[p])

\* The paths it may replace: the others are up to date and stay.
Replaceable(p, x) == found[x] # "new" \/ call[p] = "force"

\* The paths an install is past, and those an uninstall is past.
Earlier(p, x) == x[1] < at[p] \/ (x[1] = at[p] /\ x[2] < k[p])
Later(p, x) == x[1] > at[p] \/ (x[1] = at[p] /\ x[2] < k[p])

Fresh(p) ==
  aside[p] = "absent" /\ res[p] = <<>> /\ applied[p] = <<>> /\ todo[p] = 0

\* The lock, the call and the answer go with where a process is.
ShapeOf(p) ==
  /\ holder = p <=> pc[p] \in Working /\ call[p] # "dry"
  /\ pc[p] \in {"idle"} \cup Working <=> answer[p] = Promise!Open
  /\ pc[p] \in Working => call[p] \in Promise!Calls
  /\ pc[p] = "uninstall" <=> call[p] = "uninstall"
  /\ pc[p] = "idle" => Fresh(p) /\ ~errs[p] /\ k[p] = 1
  /\ pc[p] \in Working /\ call[p] = "dry" => Fresh(p) /\ ~errs[p]

Installing(p) ==
  /\ ~errs[p]
  /\ \A x \in Made(p) : tree[x] = "new" /\ Earlier(p, x) /\ Replaceable(p, x)
  /\ aside[p] # "absent" =>
       /\ AtPath(p) \in Paths
       /\ tree[AtPath(p)] = "absent"
       /\ aside[p] = found[AtPath(p)]
       /\ Replaceable(p, AtPath(p))
  /\ \A x \in Paths \ Made(p) : aside[p] = "absent" \/ x # AtPath(p) => tree[x] = found[x]
  /\ \A x \in Paths : Earlier(p, x) => tree[x] = "new"

RollingBack(p) ==
  /\ res[p] = <<>>
  /\ \A x \in RangeOf(applied[p]) :
       Replaceable(p, x) /\ (x \in Irreversible => tree[x] = "new")
  /\ \A x \in Paths \ RangeOf(applied[p]) :
       tree[x] = found[x] \/ (tree[x] = "absent" /\ Replaceable(p, x))
  /\ errs[p] \/ \A i \in (todo[p] + 1)..Len(applied[p]) :
       applied[p][i] \in Irreversible \/ tree[applied[p][i]] = "absent"

Uninstalling(p) ==
  /\ \A x \in Paths : tree[x] \in {found[x], "absent"} \cup (IF found[x] = "new" THEN {"old"} ELSE {})
  /\ errs[p] \/ \A x \in Paths : Later(p, x) => tree[x] = "absent"

HolderOf(p) ==
  holder = p =>
    /\ pc[p] = "install" => Installing(p)
    /\ pc[p] = "rollback" => RollingBack(p)
    /\ pc[p] = "uninstall" => Uninstalling(p)

Inv == TypeOK /\ \A p \in Procs : ShapeOf(p) /\ HolderOf(p)

-----------------------------------------------------------------------------

LEMMA RangeAppend ==
  ASSUME NEW S, NEW s \in Seq(S), NEW x \in S
  PROVE  RangeOf(Append(s, x)) = RangeOf(s) \cup {x} /\ Append(s, x) \in Seq(S)
<1>1. Len(Append(s, x)) = Len(s) + 1 /\ Len(s) \in Nat /\ Append(s, x) \in Seq(S)
  OBVIOUS
<1>2. \A i \in 1..Len(s) : Append(s, x)[i] = s[i]
  OBVIOUS
<1>3. Append(s, x)[Len(s) + 1] = x
  OBVIOUS
<1> QED
  BY <1>1, <1>2, <1>3 DEF RangeOf

LEMMA RangeConcat ==
  ASSUME NEW S, NEW s \in Seq(S), NEW t \in Seq(S)
  PROVE  /\ RangeOf(s \o t) = RangeOf(s) \cup RangeOf(t) /\ s \o t \in Seq(S)
         /\ Len(s) \in Nat /\ Len(t) \in Nat /\ Len(s \o t) = Len(s) + Len(t)
<1>1. Len(s \o t) = Len(s) + Len(t) /\ Len(s) \in Nat /\ Len(t) \in Nat /\ s \o t \in Seq(S)
  OBVIOUS
<1>2. \A i \in 1..Len(s) : (s \o t)[i] = s[i]
  OBVIOUS
<1>3. \A i \in 1..Len(t) : (s \o t)[Len(s) + i] = t[i]
  OBVIOUS
<1>4. ASSUME NEW i \in 1..Len(s \o t) PROVE (s \o t)[i] \in RangeOf(s) \cup RangeOf(t)
  <2>1. CASE i <= Len(s)
    BY <1>1, <1>2, <2>1 DEF RangeOf
  <2>2. CASE i > Len(s)
    <3>1. i - Len(s) \in 1..Len(t) /\ i = Len(s) + (i - Len(s))
      BY <1>1, <2>2
    <3> QED
      BY <3>1, <1>3 DEF RangeOf
  <2> QED
    BY <1>1, <2>1, <2>2
<1>5. RangeOf(s) \subseteq RangeOf(s \o t)
  BY <1>1, <1>2 DEF RangeOf
<1>6. RangeOf(t) \subseteq RangeOf(s \o t)
  BY <1>1, <1>3 DEF RangeOf
<1> QED
  BY <1>1, <1>4, <1>5, <1>6 DEF RangeOf

LEMMA ConcatLonger ==
  ASSUME NEW S, NEW s \in Seq(S), NEW t \in Seq(S), NEW n \in Nat, n <= Len(s)
  PROVE  n <= Len(s \o t)
<1>1. Len(s \o t) = Len(s) + Len(t) /\ Len(s) \in Nat /\ Len(t) \in Nat
  OBVIOUS
<1>2. n <= Len(s) + Len(t)
  BY <1>1
<1> QED
  BY <1>1, <1>2

LEMMA RangeIn ==
  ASSUME NEW S, NEW s \in Seq(S)
  PROVE  RangeOf(s) \subseteq S /\ RangeOf(<<>>) = {}
BY DEF RangeOf

-----------------------------------------------------------------------------
(* A step of one process and the others.                                   *)

\* Process q's own variables do not change.
Same(q) ==
  /\ call'[q] = call[q] /\ pc'[q] = pc[q] /\ at'[q] = at[q] /\ k'[q] = k[q]
  /\ aside'[q] = aside[q] /\ res'[q] = res[q] /\ applied'[q] = applied[q]
  /\ todo'[q] = todo[q] /\ errs'[q] = errs[q] /\ answer'[q] = answer[q]

\* A step of p keeps the invariant if it keeps p's part of it and touches the paths only
\* with the lock.
LEMMA StepOfOne ==
  ASSUME Inv, NEW p \in Procs, TypeOK', ShapeOf(p)', HolderOf(p)',
         \A q \in Procs \ {p} : Same(q) /\ (holder' = q <=> holder = q),
         holder = p \/ holder' = p \/ (tree' = tree /\ found' = found)
  PROVE  Inv'
<1>1. ASSUME NEW q \in Procs, q # p PROVE ShapeOf(q)'
  BY <1>1 DEF Inv, ShapeOf, Same, Fresh
<1>2. ASSUME NEW q \in Procs, q # p PROVE HolderOf(q)'
  <2>1. CASE holder' # q
    BY <2>1 DEF HolderOf
  <2>2. CASE holder' = q
    <3>1. holder = q /\ tree' = tree /\ found' = found /\ Same(q) /\ HolderOf(q)
      BY <1>2, <2>2 DEF Inv
    <3>2. Made(q)' = Made(q) /\ AtPath(q)' = AtPath(q)
      BY <3>1 DEF Made, AtPath, Same
    <3>3. \A x : /\ Replaceable(q, x)' <=> Replaceable(q, x)
                 /\ Earlier(q, x)' <=> Earlier(q, x)
                 /\ Later(q, x)' <=> Later(q, x)
      BY <3>1 DEF Replaceable, Earlier, Later, Same
    <3>4. Installing(q) => Installing(q)'
      BY <3>1, <3>2, <3>3 DEF Installing, Same
    <3>5. RollingBack(q) => RollingBack(q)'
      BY <3>1, <3>3 DEF RollingBack, Same
    <3>6. Uninstalling(q) => Uninstalling(q)'
      BY <3>1, <3>3 DEF Uninstalling, Same
    <3> QED
      BY <3>1, <3>4, <3>5, <3>6 DEF HolderOf, Same
  <2> QED
    BY <2>1, <2>2
<1> QED
  BY <1>1, <1>2 DEF Inv

\* A process in its call has the lock or is a dry run.
LEMMA Locked ==
  ASSUME Inv, NEW p \in Procs, pc[p] \in Working
  PROVE  /\ holder = p <=> call[p] # "dry"
         /\ answer[p] = Promise!Open
         /\ call[p] \in Promise!Calls
         /\ pc[p] = "uninstall" <=> call[p] = "uninstall"
         /\ call[p] = "dry" => Fresh(p) /\ ~errs[p]
BY DEF Inv, ShapeOf, Working

-----------------------------------------------------------------------------
(* Entering a call.                                                        *)

LEMMA InitInv == Init => Inv
<1> SUFFICES ASSUME Init PROVE Inv
  OBVIOUS
<1>1. TypeOK
  BY SizesAssumption, TreesAssumption
     DEF Init, TypeOK, Nothing, Contents, Promise!Contents, Promise!Answers
<1>2. ASSUME NEW p \in Procs PROVE ShapeOf(p) /\ HolderOf(p)
  BY NoneAssumption DEF Init, ShapeOf, HolderOf, Working, Fresh
<1> QED
  BY <1>1, <1>2 DEF Inv

LEMMA BeginKeeps ==
  ASSUME Inv, NEW p \in Procs, NEW c \in Promise!Calls, Begin(p, c)
  PROVE  Inv'
<1>1. TypeOK'
  BY SizesAssumption, SMTT(30) DEF Inv, TypeOK, Begin, TakesLock, Working
<1>2. /\ pc[p] = "idle" /\ Fresh(p) /\ ~errs[p] /\ k[p] = 1 /\ answer[p] = Promise!Open
      /\ holder # p
  BY DEF Inv, ShapeOf, Begin, Working
<1>3. /\ call'[p] = c /\ pc'[p] = (IF c = "uninstall" THEN "uninstall" ELSE "install")
      /\ at'[p] = (IF c = "uninstall" THEN N ELSE 1)
      /\ Fresh(p)' /\ ~errs'[p] /\ k'[p] = 1 /\ answer' = answer /\ tree' = tree
  BY <1>2 DEF Inv, TypeOK, Begin, Fresh
<1>4. IF c = "dry" THEN holder' = holder /\ found' = found
      ELSE holder = None /\ holder' = p /\ found' = tree
  BY DEF Begin, TakesLock
<1>5. ShapeOf(p)'
  BY <1>2, <1>3, <1>4 DEF ShapeOf, Working, Promise!Calls
<1>6. HolderOf(p)'
  <2> SUFFICES ASSUME holder' = p PROVE HolderOf(p)'
    BY DEF HolderOf
  <2>1. found' = tree /\ c # "dry"
    BY <1>2, <1>4
  <2>2. Made(p)' = {}
    BY <1>3 DEF Made, RangeOf, Fresh
  <2>3. c # "uninstall" => \A x \in Paths : ~Earlier(p, x)'
    BY <1>3, SizesAssumption DEF Earlier, Paths
  <2>4. c = "uninstall" => \A x \in Paths : ~Later(p, x)'
    BY <1>3, SizesAssumption DEF Later, Paths
  <2>5. c # "uninstall" => Installing(p)'
    BY <1>3, <2>1, <2>2, <2>3 DEF Installing, Fresh
  <2>6. c = "uninstall" => Uninstalling(p)'
    BY <1>3, <2>1, <2>4 DEF Uninstalling
  <2> QED
    BY <1>3, <2>5, <2>6 DEF HolderOf
<1>7. \A q \in Procs \ {p} : Same(q) /\ (holder' = q <=> holder = q)
  BY <1>4, NoneAssumption DEF Inv, TypeOK, Begin, Same
<1> QED
  BY <1>1, <1>3, <1>4, <1>5, <1>6, <1>7, StepOfOne

LEMMA RefuseKeeps ==
  ASSUME Inv, NEW p \in Procs, NEW c \in Promise!Calls, Refuse(p, c)
  PROVE  Inv'
<1>1. TypeOK'
  BY DEF Inv, TypeOK, Refuse, Promise!Answers, Promise!Results
<1>2. pc[p] = "idle" /\ holder # p /\ call[p] # "uninstall"
  BY DEF Inv, ShapeOf, Refuse, Working
<1>3. /\ pc'[p] = "done" /\ answer'[p] = [call |-> c, result |-> "refused"]
      /\ call' = call /\ holder' = holder /\ tree' = tree /\ found' = found
  BY DEF Inv, TypeOK, Refuse
<1>4. answer'[p] # Promise!Open
  BY <1>3 DEF Promise!Open
<1>5. ShapeOf(p)' /\ HolderOf(p)'
  BY <1>2, <1>3, <1>4 DEF ShapeOf, HolderOf, Working
<1>6. \A q \in Procs \ {p} : Same(q) /\ (holder' = q <=> holder = q)
  BY <1>3 DEF Inv, TypeOK, Refuse, Same
<1> QED
  BY <1>1, <1>3, <1>5, <1>6, StepOfOne

\* A process that leaves, by returning or by being killed, leaves nothing of its own.
LEMMA LeaveKeeps ==
  ASSUME Inv, NEW p \in Procs, NEW how \in {"done", "dead"}, NEW result \in Promise!Results,
         pc[p] \in Working, Leave(p, how, result),
         tree' \in [Paths -> Contents], holder # p => tree' = tree
  PROVE  Inv'
<1>1. call[p] \in Promise!Calls /\ (holder = p <=> call[p] # "dry")
  BY Locked
<1>2. TypeOK'
  <2>1. answer' \in [Procs -> Promise!Answers]
    BY <1>1 DEF Inv, TypeOK, Leave, Promise!Answers
  <2>2. todo' \in [Procs -> Nat] /\ applied' \in [Procs -> Seq(Paths)] /\ res' \in [Procs -> Seq(Paths)]
    BY DEF Inv, TypeOK, Leave
  <2>3. \A q \in Procs : todo'[q] <= Len(applied'[q])
    BY DEF Inv, TypeOK, Leave
  <2>4. found' \in [Paths -> Contents] /\ holder' \in Procs \cup {None}
    BY DEF Inv, TypeOK, Leave, Nothing, Contents, Promise!Contents
  <2>5. /\ call' \in [Procs -> Promise!Calls \cup {"none"}]
        /\ pc' \in [Procs -> Working \cup {"idle", "done", "dead"}]
        /\ at' \in [Procs -> 0..(N + 1)] /\ k' \in [Procs -> 1..(M + 1)]
        /\ aside' \in [Procs -> Contents] /\ errs' \in [Procs -> BOOLEAN]
    BY SizesAssumption, SMTT(30) DEF Inv, TypeOK, Leave, Contents, Promise!Contents
  <2> QED
    BY <2>1, <2>2, <2>3, <2>4, <2>5 DEF TypeOK
<1>3. /\ pc'[p] = how /\ call'[p] = "none"
      /\ answer'[p] = [call |-> call[p], result |-> result]
      /\ holder' # p
  BY NoneAssumption DEF Inv, TypeOK, Leave
<1>4. answer'[p] # Promise!Open
  BY <1>1, <1>3 DEF Promise!Open, Promise!Calls
<1>5. ShapeOf(p)' /\ HolderOf(p)'
  BY <1>3, <1>4 DEF ShapeOf, HolderOf, Working
<1>6. \A q \in Procs \ {p} : Same(q) /\ (holder' = q <=> holder = q)
  BY NoneAssumption DEF Inv, TypeOK, Leave, Same
<1>7. holder = p \/ (tree' = tree /\ found' = found)
  BY DEF Leave
<1> QED
  BY <1>2, <1>5, <1>6, <1>7, StepOfOne

LEMMA ReturnKeeps ==
  ASSUME Inv, NEW p \in Procs, Installed(p) \/ RolledBack(p) \/ Uninstalled(p)
  PROVE  Inv'
<1>1. PICK result \in Promise!Results : Return(p, result)
  BY DEF Installed, RolledBack, Uninstalled, Promise!Results
<1>2. pc[p] \in Working
  BY DEF Installed, RolledBack, Uninstalled, Working
<1>3. Leave(p, "done", result) /\ tree' = tree
  BY <1>1 DEF Return
<1>4. tree' \in [Paths -> Contents]
  BY <1>3 DEF Inv, TypeOK
<1> QED
  BY <1>2, <1>3, <1>4, LeaveKeeps

\* Only a process with the lock is in the middle of a removal.
LEMMA RemovingLocked ==
  ASSUME Inv, NEW p \in Procs, NEW x \in Removing(p)
  PROVE  /\ x \in Paths /\ holder = p
         /\ \/ pc[p] = "rollback" /\ x \in RangeOf(applied[p]) /\ x \notin Irreversible
            \/ pc[p] = "uninstall" /\ x = AtPath(p)
<1>1. CASE pc[p] = "rollback" /\ todo[p] > 0
  <2>1. x = applied[p][todo[p]] /\ x \notin Irreversible
    BY <1>1 DEF Removing, LastLeft
  <2>2. todo[p] \in 1..Len(applied[p])
    BY <1>1 DEF Inv, TypeOK
  <2>3. x \in RangeOf(applied[p]) /\ x \in Paths
    BY <2>1, <2>2 DEF Inv, TypeOK, RangeOf
  <2>4. call[p] # "dry" /\ holder = p
    BY <1>1, Locked DEF Working, Fresh
  <2> QED
    BY <1>1, <2>1, <2>3, <2>4
<1>2. CASE ~(pc[p] = "rollback" /\ todo[p] > 0)
  <2>1. InComponent(p, "uninstall") /\ x = AtPath(p)
    BY <1>2 DEF Removing
  <2>2. holder = p
    BY <2>1, Locked DEF InComponent, Working
  <2> QED
    BY <2>1, <2>2 DEF InComponent, AtPath, Paths
<1> QED
  BY <1>1, <1>2

LEMMA KillKeeps ==
  ASSUME Inv, NEW p \in Procs, Kill(p)
  PROVE  Inv'
<1>1. pc[p] \in Working /\ Leave(p, "dead", "killed")
  BY DEF Kill
<1>2. CASE UNCHANGED tree
  <2>1. tree' \in [Paths -> Contents]
    BY <1>2 DEF Inv, TypeOK
  <2> QED
    BY <1>1, <1>2, <2>1, LeaveKeeps DEF Promise!Results
<1>3. ASSUME NEW x \in Removing(p), tree' = [tree EXCEPT ![x] = "old"] PROVE Inv'
  <2>1. x \in Paths /\ holder = p
    BY RemovingLocked
  <2>2. tree' \in [Paths -> Contents]
    BY <1>3, <2>1 DEF Inv, TypeOK, Contents, Promise!Contents
  <2> QED
    BY <1>1, <2>1, <2>2, LeaveKeeps DEF Promise!Results
<1> QED
  BY <1>2, <1>3 DEF Kill

-----------------------------------------------------------------------------
(* The steps of an install.                                                *)

LEMMA LeaveAloneKeeps ==
  ASSUME Inv, NEW p \in Procs, LeaveAlone(p)
  PROVE  Inv'
<1>1. TypeOK'
  <2>1. k' \in [Procs -> 1..(M + 1)]
    BY SizesAssumption, SMTT(30) DEF Inv, TypeOK, LeaveAlone, InComponent
  <2> QED
    BY <2>1 DEF Inv, TypeOK, LeaveAlone
<1>2. pc[p] = "install" /\ at[p] \in 1..N /\ k[p] \in 1..M /\ pc[p] \in Working
  BY DEF LeaveAlone, InComponent, Working
<1>3. /\ tree' = tree /\ holder' = holder /\ found' = found /\ call' = call /\ pc' = pc /\ at' = at
      /\ aside' = aside /\ res' = res /\ applied' = applied /\ todo' = todo /\ errs' = errs
      /\ answer' = answer /\ k'[p] = k[p] + 1 /\ \A q \in Procs \ {p} : k'[q] = k[q]
  BY DEF Inv, TypeOK, LeaveAlone
<1>4. ShapeOf(p)'
  BY <1>2, <1>3 DEF Inv, ShapeOf, Fresh, Working
<1>5. HolderOf(p)'
  <2> SUFFICES ASSUME holder = p PROVE Installing(p)'
    BY <1>2, <1>3 DEF HolderOf
  <2>1. Installing(p)
    BY <1>2 DEF Inv, HolderOf
  <2>2. tree[AtPath(p)] = "new" /\ aside[p] = "absent"
    BY <1>2, <2>1, Locked DEF LeaveAlone, UpToDate, Installing
  <2>3. \A x \in Paths : Earlier(p, x)' <=> Earlier(p, x) \/ x = AtPath(p)
    <3> SUFFICES ASSUME NEW x \in Paths PROVE Earlier(p, x)' <=> Earlier(p, x) \/ x = AtPath(p)
      OBVIOUS
    <3>1. x = <<x[1], x[2]>> /\ x[1] \in 1..N /\ x[2] \in 1..M
      BY DEF Paths
    <3>2. x = AtPath(p) <=> x[1] = at[p] /\ x[2] = k[p]
      BY <3>1 DEF AtPath
    <3> QED
      BY <1>2, <1>3, <3>1, <3>2, SizesAssumption DEF Earlier
  <2>4. Made(p)' = Made(p) /\ Made(p) \subseteq Paths
    BY <1>3, RangeIn DEF Made, Inv, TypeOK
  <2>5. \A x : Replaceable(p, x)' <=> Replaceable(p, x)
    BY <1>3 DEF Replaceable
  <2> QED
    BY <1>3, <2>1, <2>2, <2>3, <2>4, <2>5 DEF Installing
<1>6. \A q \in Procs \ {p} : Same(q) /\ (holder' = q <=> holder = q)
  BY <1>3 DEF Same
<1> QED
  BY <1>1, <1>3, <1>4, <1>5, <1>6, StepOfOne

\* A path that is not up to date belongs to the process with the lock, which may replace it.
LEMMA NotUpToDate ==
  ASSUME Inv, NEW p \in Procs, InComponent(p, "install"), ~UpToDate(p)
  PROVE  /\ holder = p /\ pc[p] \in Working /\ Installing(p)
         /\ AtPath(p) \in Paths /\ Replaceable(p, AtPath(p))
         /\ AtPath(p) \notin Made(p)
<1>1. pc[p] = "install" /\ pc[p] \in Working /\ call[p] \in {"install", "force"} /\ holder = p
  BY Locked DEF InComponent, Working, UpToDate, Promise!Calls
<1>2. Installing(p) /\ AtPath(p) \in Paths
  BY <1>1 DEF Inv, HolderOf, InComponent, AtPath, Paths
<1>3. ~Earlier(p, AtPath(p))
  BY SizesAssumption DEF InComponent, Earlier, AtPath
<1>4. AtPath(p) \notin Made(p)
  BY <1>2, <1>3 DEF Installing
<1>5. Replaceable(p, AtPath(p))
  <2>1. CASE aside[p] # "absent"
    BY <1>2, <2>1 DEF Installing
  <2>2. CASE aside[p] = "absent"
    <3>1. tree[AtPath(p)] = found[AtPath(p)]
      BY <1>2, <1>4, <2>2 DEF Installing
    <3> QED
      BY <1>1, <3>1 DEF UpToDate, Replaceable
  <2> QED
    BY <2>1, <2>2
<1> QED
  BY <1>1, <1>2, <1>4, <1>5

LEMMA SetAsideKeeps ==
  ASSUME Inv, NEW p \in Procs, SetAside(p)
  PROVE  Inv'
<1>1. /\ InComponent(p, "install") /\ ~UpToDate(p)
      /\ holder = p /\ pc[p] = "install" /\ Installing(p)
      /\ AtPath(p) \in Paths /\ Replaceable(p, AtPath(p)) /\ AtPath(p) \notin Made(p)
  BY NotUpToDate DEF SetAside, InComponent
<1>2. /\ holder' = holder /\ found' = found /\ call' = call /\ pc' = pc /\ at' = at /\ k' = k
      /\ res' = res /\ applied' = applied /\ todo' = todo /\ errs' = errs /\ answer' = answer
      /\ tree[AtPath(p)] # "absent"
      /\ aside'[p] = tree[AtPath(p)] /\ \A q \in Procs \ {p} : aside'[q] = aside[q]
      /\ tree'[AtPath(p)] = "absent" /\ \A x \in Paths \ {AtPath(p)} : tree'[x] = tree[x]
  BY <1>1 DEF Inv, TypeOK, SetAside
<1>3. TypeOK'
  <2>1. tree' \in [Paths -> Contents] /\ aside' \in [Procs -> Contents]
    BY <1>1 DEF Inv, TypeOK, SetAside, Contents, Promise!Contents
  <2> QED
    BY <2>1, <1>2 DEF Inv, TypeOK
<1>4. ShapeOf(p)'
  BY <1>1, <1>2 DEF Inv, ShapeOf, Fresh, Working
<1>5. HolderOf(p)'
  <2>1. Made(p)' = Made(p) /\ Made(p) \subseteq Paths /\ AtPath(p)' = AtPath(p)
    BY <1>2, RangeIn DEF Made, AtPath, Inv, TypeOK
  <2>2. \A x : (Replaceable(p, x)' <=> Replaceable(p, x)) /\ (Earlier(p, x)' <=> Earlier(p, x))
    BY <1>2 DEF Replaceable, Earlier
  <2>3. ~Earlier(p, AtPath(p))
    BY <1>1, SizesAssumption DEF InComponent, Earlier, AtPath
  <2>4. aside[p] = "absent"
    BY <1>1, <1>2 DEF Installing
  <2>5. tree[AtPath(p)] = found[AtPath(p)]
    BY <1>1, <2>4 DEF Installing
  <2>6. Installing(p)'
    BY <1>1, <1>2, <2>1, <2>2, <2>3, <2>4, <2>5 DEF Installing
  <2> QED
    BY <1>1, <1>2, <2>6 DEF HolderOf
<1>6. \A q \in Procs \ {p} : Same(q) /\ (holder' = q <=> holder = q)
  BY <1>2 DEF Same
<1> QED
  BY <1>1, <1>3, <1>4, <1>5, <1>6, StepOfOne

LEMMA PlaceKeeps ==
  ASSUME Inv, NEW p \in Procs, Place(p)
  PROVE  Inv'
<1>1. /\ InComponent(p, "install") /\ ~UpToDate(p)
      /\ holder = p /\ pc[p] = "install" /\ Installing(p)
      /\ AtPath(p) \in Paths /\ Replaceable(p, AtPath(p)) /\ AtPath(p) \notin Made(p)
  BY NotUpToDate DEF Place, InComponent
<1>2. /\ holder' = holder /\ found' = found /\ call' = call /\ pc' = pc /\ at' = at
      /\ applied' = applied /\ todo' = todo /\ errs' = errs /\ answer' = answer
      /\ aside'[p] = "absent" /\ k'[p] = k[p] + 1 /\ res'[p] = Append(res[p], AtPath(p))
      /\ \A q \in Procs \ {p} : aside'[q] = aside[q] /\ k'[q] = k[q] /\ res'[q] = res[q]
      /\ tree'[AtPath(p)] = "new" /\ \A x \in Paths \ {AtPath(p)} : tree'[x] = tree[x]
  BY <1>1 DEF Inv, TypeOK, Place
<1>3. /\ res[p] \in Seq(Paths) /\ applied[p] \in Seq(Paths)
      /\ Append(res[p], AtPath(p)) \in Seq(Paths)
      /\ RangeOf(Append(res[p], AtPath(p))) = RangeOf(res[p]) \cup {AtPath(p)}
  BY <1>1, RangeAppend DEF Inv, TypeOK
<1>4. TypeOK'
  <2>1. tree' \in [Paths -> Contents] /\ aside' \in [Procs -> Contents]
    BY <1>1 DEF Inv, TypeOK, Place, Contents, Promise!Contents
  <2>2. k' \in [Procs -> 1..(M + 1)]
    BY <1>1, SizesAssumption DEF Inv, TypeOK, Place, InComponent
  <2>3. res' \in [Procs -> Seq(Paths)]
    BY <1>3 DEF Inv, TypeOK, Place
  <2> QED
    BY <2>1, <2>2, <2>3, <1>2 DEF Inv, TypeOK
<1>5. ShapeOf(p)'
  BY <1>1, <1>2 DEF Inv, ShapeOf, Fresh, Working
<1>6. HolderOf(p)'
  <2>1. Made(p)' = Made(p) \cup {AtPath(p)} /\ Made(p) \subseteq Paths
    BY <1>2, <1>3, RangeIn DEF Made
  <2>2. \A x : Replaceable(p, x)' <=> Replaceable(p, x)
    BY <1>2 DEF Replaceable
  <2>3. \A x \in Paths : Earlier(p, x)' <=> Earlier(p, x) \/ x = AtPath(p)
    <3> SUFFICES ASSUME NEW x \in Paths PROVE Earlier(p, x)' <=> Earlier(p, x) \/ x = AtPath(p)
      OBVIOUS
    <3>1. x = <<x[1], x[2]>> /\ x[1] \in 1..N /\ x[2] \in 1..M
      BY DEF Paths
    <3>2. x = AtPath(p) <=> x[1] = at[p] /\ x[2] = k[p]
      BY <3>1 DEF AtPath
    <3> QED
      BY <1>1, <1>2, <3>1, <3>2, SizesAssumption DEF Earlier, InComponent
  <2>4. Installing(p)'
    BY <1>1, <1>2, <2>1, <2>2, <2>3 DEF Installing
  <2> QED
    BY <1>1, <1>2, <2>4 DEF HolderOf
<1>7. \A q \in Procs \ {p} : Same(q) /\ (holder' = q <=> holder = q)
  BY <1>2 DEF Same
<1> QED
  BY <1>1, <1>4, <1>5, <1>6, <1>7, StepOfOne

LEMMA NextComponentKeeps ==
  ASSUME Inv, NEW p \in Procs, NextComponent(p)
  PROVE  Inv'
<1>1. pc[p] = "install" /\ at[p] \in 1..N /\ k[p] = M + 1 /\ pc[p] \in Working
  BY DEF NextComponent, Working
<1>2. /\ tree' = tree /\ holder' = holder /\ found' = found /\ call' = call /\ pc' = pc
      /\ aside' = aside /\ todo' = todo /\ errs' = errs /\ answer' = answer
      /\ at'[p] = at[p] + 1 /\ k'[p] = 1 /\ res'[p] = <<>> /\ applied'[p] = applied[p] \o res[p]
      /\ \A q \in Procs \ {p} :
           at'[q] = at[q] /\ k'[q] = k[q] /\ res'[q] = res[q] /\ applied'[q] = applied[q]
  BY DEF Inv, TypeOK, NextComponent
<1>3. /\ res[p] \in Seq(Paths) /\ applied[p] \in Seq(Paths)
      /\ applied[p] \o res[p] \in Seq(Paths)
      /\ RangeOf(applied[p] \o res[p]) = RangeOf(applied[p]) \cup RangeOf(res[p])
  BY RangeConcat DEF Inv, TypeOK
<1>4. TypeOK'
  <2>1. at' \in [Procs -> 0..(N + 1)] /\ k' \in [Procs -> 1..(M + 1)]
    <3>1. at \in [Procs -> 0..(N + 1)] /\ k \in [Procs -> 1..(M + 1)]
      BY DEF Inv, TypeOK
    <3>2. at[p] + 1 \in 0..(N + 1) /\ 1 \in 1..(M + 1)
      BY <1>1, SizesAssumption
    <3>3. at' = [at EXCEPT ![p] = at[p] + 1] /\ k' = [k EXCEPT ![p] = 1]
      BY DEF NextComponent
    <3> QED
      BY <3>1, <3>2, <3>3
  <2>2. res' \in [Procs -> Seq(Paths)] /\ applied' \in [Procs -> Seq(Paths)]
    BY <1>3 DEF Inv, TypeOK, NextComponent
  <2>3. \A q \in Procs : todo'[q] <= Len(applied'[q])
    <3>1. todo[p] <= Len(applied[p]) /\ todo[p] \in Nat
      BY DEF Inv, TypeOK
    <3>2. todo[p] <= Len(applied[p] \o res[p])
      BY <1>3, <3>1, ConcatLonger
    <3>3. todo'[p] <= Len(applied'[p])
      BY <1>2, <3>2
    <3> QED
      BY <1>2, <3>3 DEF Inv, TypeOK
  <2> QED
    BY <2>1, <2>2, <2>3, <1>2 DEF Inv, TypeOK
<1>5. ShapeOf(p)'
  <2>1. Fresh(p) => Fresh(p)'
    BY <1>2, <1>3 DEF Fresh
  <2> QED
    BY <1>1, <1>2, <2>1 DEF Inv, ShapeOf, Working
<1>6. HolderOf(p)'
  <2> SUFFICES ASSUME holder = p PROVE Installing(p)'
    BY <1>1, <1>2 DEF HolderOf
  <2>1. Installing(p)
    BY <1>1 DEF Inv, HolderOf
  <2>2. aside[p] = "absent"
    BY <1>1, <2>1, SizesAssumption DEF Installing, AtPath, Paths
  <2>3. Made(p)' = Made(p) /\ Made(p) \subseteq Paths
    BY <1>2, <1>3, RangeIn DEF Made
  <2>4. \A x : Replaceable(p, x)' <=> Replaceable(p, x)
    BY <1>2 DEF Replaceable
  <2>5. ASSUME NEW x \in Paths PROVE Earlier(p, x)' <=> Earlier(p, x)
    <3>1. x[1] \in 1..N /\ x[2] \in 1..M
      BY DEF Paths
    <3> QED
      BY <1>1, <1>2, <3>1, SizesAssumption DEF Earlier
  <2> QED
    BY <1>2, <2>1, <2>2, <2>3, <2>4, <2>5 DEF Installing
<1>7. \A q \in Procs \ {p} : Same(q) /\ (holder' = q <=> holder = q)
  BY <1>2 DEF Same
<1> QED
  BY <1>2, <1>4, <1>5, <1>6, <1>7, StepOfOne

LEMMA ComponentFailsKeeps ==
  ASSUME Inv, NEW p \in Procs, ComponentFails(p)
  PROVE  Inv'
<1>1. /\ pc[p] = "install" /\ at[p] \in 1..N /\ k[p] \in 1..M /\ pc[p] \in Working
      /\ AtPath(p) \in Paths
  BY DEF ComponentFails, InComponent, Working, AtPath, Paths
<1>2. /\ holder' = holder /\ found' = found /\ call' = call /\ at' = at /\ k' = k
      /\ errs' = errs /\ answer' = answer
      /\ pc'[p] = "rollback" /\ aside'[p] = "absent" /\ res'[p] = <<>>
      /\ applied'[p] = ToUndo(p) /\ todo'[p] = Len(ToUndo(p))
      /\ \A q \in Procs \ {p} : /\ pc'[q] = pc[q] /\ aside'[q] = aside[q] /\ res'[q] = res[q]
                               /\ applied'[q] = applied[q] /\ todo'[q] = todo[q]
  BY DEF Inv, TypeOK, ComponentFails
<1>3. /\ res[p] \in Seq(Paths) /\ applied[p] \in Seq(Paths) /\ ToUndo(p) \in Seq(Paths)
      /\ Len(ToUndo(p)) \in Nat
      /\ RangeOf(ToUndo(p)) = Made(p) /\ Made(p) \subseteq Paths
  BY RangeConcat, RangeIn DEF Inv, TypeOK, ToUndo, Made
<1>4. PICK c \in {"absent", aside[p]} :
        tree' = IF aside[p] = "absent" THEN tree ELSE [tree EXCEPT ![AtPath(p)] = c]
  BY DEF ComponentFails
<1>5. TypeOK'
  <2>1. tree' \in [Paths -> Contents]
    BY <1>1, <1>4 DEF Inv, TypeOK, Contents, Promise!Contents
  <2>2. /\ aside' \in [Procs -> Contents]
        /\ pc' \in [Procs -> Working \cup {"idle", "done", "dead"}]
    BY DEF Inv, TypeOK, ComponentFails, Contents, Promise!Contents, Working
  <2>3. res' \in [Procs -> Seq(Paths)] /\ applied' \in [Procs -> Seq(Paths)]
    BY <1>3 DEF Inv, TypeOK, ComponentFails
  <2>4. todo' \in [Procs -> Nat]
    BY <1>3 DEF Inv, TypeOK, ComponentFails
  <2>5. \A q \in Procs : todo'[q] <= Len(applied'[q])
    <3>1. todo'[p] <= Len(applied'[p])
      BY <1>2, <1>3
    <3> QED
      BY <1>2, <3>1 DEF Inv, TypeOK
  <2> QED
    BY <2>1, <2>2, <2>3, <2>4, <2>5, <1>2 DEF Inv, TypeOK
<1>6. ShapeOf(p)'
  <2>1. Fresh(p) => Fresh(p)'
    BY <1>2, <1>3 DEF Fresh, ToUndo
  <2> QED
    BY <1>1, <1>2, <2>1 DEF Inv, ShapeOf, Working
<1>7. holder = p \/ tree' = tree
  BY <1>1, <1>4, Locked DEF Fresh
<1>8. HolderOf(p)'
  <2> SUFFICES ASSUME holder = p PROVE RollingBack(p)'
    BY <1>2 DEF HolderOf
  <2>1. Installing(p)
    BY <1>1 DEF Inv, HolderOf
  <2>2. \A x : Replaceable(p, x)' <=> Replaceable(p, x)
    BY <1>2 DEF Replaceable
  <2>3. AtPath(p) \notin Made(p)
    BY <1>1, <2>1, SizesAssumption DEF Installing, Earlier, AtPath
  <2>4. \A x \in Paths \ {AtPath(p)} : tree'[x] = tree[x]
    BY <1>4 DEF Inv, TypeOK
  <2>5. \A x \in Made(p) : Replaceable(p, x) /\ tree'[x] = "new"
    BY <1>3, <2>1, <2>3, <2>4 DEF Installing
  <2>6. tree'[AtPath(p)] = found[AtPath(p)] \/ (tree'[AtPath(p)] = "absent" /\ Replaceable(p, AtPath(p)))
    <3>1. CASE aside[p] = "absent"
      BY <1>1, <1>4, <2>1, <2>3, <3>1 DEF Installing
    <3>2. CASE aside[p] # "absent"
      <4>1. tree'[AtPath(p)] \in {"absent", aside[p]}
        BY <1>1, <1>4, <3>2 DEF Inv, TypeOK
      <4> QED
        BY <2>1, <3>2, <4>1 DEF Installing
    <3> QED
      BY <3>1, <3>2
  <2>7. \A x \in Paths \ Made(p) : tree'[x] = found[x] \/ (tree'[x] = "absent" /\ Replaceable(p, x))
    BY <2>1, <2>4, <2>6 DEF Installing
  <2>8. \A i \in (todo'[p] + 1)..Len(applied'[p]) : FALSE
    BY <1>2, <1>3
  <2> QED
    BY <1>2, <1>3, <2>2, <2>5, <2>7, <2>8 DEF RollingBack
<1>9. \A q \in Procs \ {p} : Same(q) /\ (holder' = q <=> holder = q)
  BY <1>2 DEF Same
<1> QED
  BY <1>2, <1>5, <1>6, <1>7, <1>8, <1>9, StepOfOne

-----------------------------------------------------------------------------
(* The steps of a rollback and of an uninstall.                            *)

LEMMA ReverseKeeps ==
  ASSUME Inv, NEW p \in Procs, Reverse(p)
  PROVE  Inv'
<1>1. /\ pc[p] = "rollback" /\ pc[p] \in Working /\ holder = p /\ RollingBack(p)
      /\ todo[p] \in 1..Len(applied[p]) /\ applied[p] \in Seq(Paths)
  <2>1. pc[p] = "rollback" /\ pc[p] \in Working /\ todo[p] > 0
    BY DEF Reverse, Working
  <2>2. holder = p
    BY <2>1, Locked DEF Fresh
  <2> QED
    BY <2>1, <2>2 DEF Inv, TypeOK, HolderOf
<1>2. LastLeft(p) \in RangeOf(applied[p]) /\ LastLeft(p) \in Paths /\ RangeOf(applied[p]) \subseteq Paths
  BY <1>1, RangeIn DEF LastLeft, RangeOf
<1>3. /\ holder' = holder /\ found' = found /\ call' = call /\ pc' = pc /\ at' = at /\ k' = k
      /\ aside' = aside /\ res' = res /\ applied' = applied /\ answer' = answer
      /\ todo'[p] = todo[p] - 1
      /\ \A q \in Procs \ {p} : todo'[q] = todo[q] /\ errs'[q] = errs[q]
  BY DEF Inv, TypeOK, Reverse
<1>4. \/ LastLeft(p) \in Irreversible /\ tree' = tree /\ errs' = errs
      \/ /\ LastLeft(p) \notin Irreversible
         /\ tree' = [tree EXCEPT ![LastLeft(p)] = "absent"] /\ errs' = errs
      \/ /\ LastLeft(p) \notin Irreversible /\ errs' = [errs EXCEPT ![p] = TRUE]
         /\ \E c \in {tree[LastLeft(p)], "old"} : tree' = [tree EXCEPT ![LastLeft(p)] = c]
  BY DEF Reverse
<1>5. TypeOK'
  <2>1. tree' \in [Paths -> Contents]
    <3>1. \A c \in Contents : [tree EXCEPT ![LastLeft(p)] = c] \in [Paths -> Contents]
      BY <1>2 DEF Inv, TypeOK
    <3>2. tree[LastLeft(p)] \in Contents /\ "old" \in Contents /\ "absent" \in Contents
      BY <1>2 DEF Inv, TypeOK, Contents, Promise!Contents
    <3>3. tree \in [Paths -> Contents]
      BY DEF Inv, TypeOK
    <3>4. CASE tree' = tree
      BY <3>3, <3>4
    <3>5. CASE \E c \in {tree[LastLeft(p)], "old", "absent"} : tree' = [tree EXCEPT ![LastLeft(p)] = c]
      BY <3>1, <3>2, <3>5
    <3> QED
      BY <1>4, <3>4, <3>5
  <2>4. errs' \in [Procs -> BOOLEAN]
    BY <1>4 DEF Inv, TypeOK
  <2>2. todo' \in [Procs -> Nat]
    BY <1>1 DEF Inv, TypeOK, Reverse
  <2>3. \A q \in Procs : todo'[q] <= Len(applied'[q])
    <3>1. todo'[p] <= Len(applied[p])
      BY <1>1, <1>3
    <3> QED
      BY <1>3, <3>1 DEF Inv, TypeOK
  <2> QED
    BY <2>1, <2>2, <2>3, <2>4, <1>3 DEF Inv, TypeOK
<1>6. ShapeOf(p)'
  BY <1>1, <1>3 DEF Inv, ShapeOf, Fresh, Working
<1>7. HolderOf(p)'
  <2>1. \A x : Replaceable(p, x)' <=> Replaceable(p, x)
    BY <1>3 DEF Replaceable
  <2>2. \A x \in Paths \ {LastLeft(p)} : tree'[x] = tree[x]
    BY <1>4 DEF Inv, TypeOK
  <2>3. LastLeft(p) \in Irreversible => tree' = tree
    BY <1>4
  <2>4. \A x \in RangeOf(applied[p]) : Replaceable(p, x) /\ (x \in Irreversible => tree'[x] = "new")
    BY <1>1, <1>2, <2>2, <2>3 DEF RollingBack
  <2>5. \A x \in Paths \ RangeOf(applied[p]) :
          tree'[x] = found[x] \/ (tree'[x] = "absent" /\ Replaceable(p, x))
    BY <1>1, <1>2, <2>2 DEF RollingBack
  <2>6. ASSUME ~errs'[p], NEW i \in (todo'[p] + 1)..Len(applied[p])
        PROVE  applied[p][i] \in Irreversible \/ tree'[applied[p][i]] = "absent"
    <3>1. i \in 1..Len(applied[p]) /\ (i = todo[p] \/ i \in (todo[p] + 1)..Len(applied[p]))
      BY <1>1, <1>3
    <3>2. applied[p][i] \in Paths
      BY <1>1, <3>1
    <3>3. ~errs[p] /\ (LastLeft(p) \in Irreversible \/ tree'[LastLeft(p)] = "absent")
      BY <1>2, <1>4, <2>6 DEF Inv, TypeOK
    <3>4. CASE applied[p][i] = LastLeft(p)
      BY <3>3, <3>4
    <3>5. CASE applied[p][i] # LastLeft(p)
      <4>1. i \in (todo[p] + 1)..Len(applied[p])
        BY <3>1, <3>5 DEF LastLeft
      <4>2. applied[p][i] \in Irreversible \/ tree[applied[p][i]] = "absent"
        BY <1>1, <3>3, <4>1 DEF RollingBack
      <4> QED
        BY <2>2, <3>2, <3>5, <4>2
    <3> QED
      BY <3>4, <3>5
  <2>7. RollingBack(p)'
    BY <1>1, <1>3, <2>1, <2>4, <2>5, <2>6 DEF RollingBack
  <2> QED
    BY <1>1, <1>3, <2>7 DEF HolderOf
<1>8. \A q \in Procs \ {p} : Same(q) /\ (holder' = q <=> holder = q)
  BY <1>3 DEF Same
<1> QED
  BY <1>1, <1>5, <1>6, <1>7, <1>8, StepOfOne

LEMMA UninstallerLocked ==
  ASSUME Inv, NEW p \in Procs, pc[p] = "uninstall"
  PROVE  pc[p] \in Working /\ holder = p /\ Uninstalling(p) /\ call[p] = "uninstall"
<1>1. pc[p] \in Working /\ holder = p /\ call[p] = "uninstall"
  BY Locked DEF Working
<1> QED
  BY <1>1 DEF Inv, HolderOf

\* A removal that succeeds, one that fails, and the step past a component.
LEMMA UninstallKeeps ==
  ASSUME Inv, NEW p \in Procs, RemovePath(p) \/ RemoveFails(p) \/ PrevComponent(p)
  PROVE  Inv'
<1>1. pc[p] = "uninstall" /\ at[p] \in 1..N /\ k[p] \in 1..(M + 1)
  BY SizesAssumption DEF RemovePath, RemoveFails, PrevComponent, InComponent
<1>2. pc[p] \in Working /\ holder = p /\ Uninstalling(p) /\ call[p] = "uninstall"
  BY <1>1, UninstallerLocked
<1>3. /\ holder' = holder /\ found' = found /\ call' = call /\ pc' = pc /\ aside' = aside
      /\ res' = res /\ applied' = applied /\ todo' = todo /\ answer' = answer
      /\ \A q \in Procs \ {p} : at'[q] = at[q] /\ k'[q] = k[q] /\ errs'[q] = errs[q]
  BY DEF Inv, TypeOK, RemovePath, RemoveFails, PrevComponent
<1>4. \A x \in Paths : x = <<x[1], x[2]>> /\ x[1] \in 1..N /\ x[2] \in 1..M
  BY DEF Paths
<1>5. \/ /\ RemovePath(p) /\ AtPath(p) \in Paths /\ k[p] \in 1..M
         /\ tree' = [tree EXCEPT ![AtPath(p)] = "absent"]
         /\ at' = at /\ k'[p] = k[p] + 1 /\ errs' = errs
      \/ /\ RemoveFails(p) /\ AtPath(p) \in Paths /\ k[p] \in 1..M /\ tree[AtPath(p)] # "absent"
         /\ \E c \in {tree[AtPath(p)], "old"} : tree' = [tree EXCEPT ![AtPath(p)] = c]
         /\ at'[p] = at[p] - 1 /\ k'[p] = 1 /\ errs'[p] = TRUE
      \/ /\ PrevComponent(p) /\ k[p] = M + 1 /\ tree' = tree
         /\ at'[p] = at[p] - 1 /\ k'[p] = 1 /\ errs' = errs
  BY DEF Inv, TypeOK, RemovePath, RemoveFails, PrevComponent, InComponent, AtPath, Paths
<1>6. TypeOK'
  <2>1. tree' \in [Paths -> Contents]
    <3>1. tree \in [Paths -> Contents] /\ "absent" \in Contents /\ "old" \in Contents
      BY DEF Inv, TypeOK, Contents, Promise!Contents
    <3>2. tree' = tree \/ \E c \in Contents : tree' = [tree EXCEPT ![AtPath(p)] = c]
      BY <1>5, <3>1, Zenon
    <3> QED
      BY <3>1, <3>2
  <2>2. at' \in [Procs -> 0..(N + 1)]
    <3>1. at' = at \/ at' = [at EXCEPT ![p] = at[p] - 1]
      BY DEF RemovePath, RemoveFails, PrevComponent
    <3>2. at[p] - 1 \in 0..(N + 1)
      BY <1>1, SizesAssumption
    <3> QED
      BY <3>1, <3>2 DEF Inv, TypeOK
  <2>3. k' \in [Procs -> 1..(M + 1)]
    <3>1. k' = [k EXCEPT ![p] = 1] \/ (k' = [k EXCEPT ![p] = k[p] + 1] /\ k[p] \in 1..M)
      BY DEF RemovePath, RemoveFails, PrevComponent, InComponent
    <3>2. 1 \in 1..(M + 1) /\ (k[p] \in 1..M => k[p] + 1 \in 1..(M + 1))
      BY SizesAssumption
    <3> QED
      BY <3>1, <3>2 DEF Inv, TypeOK
  <2>4. errs' \in [Procs -> BOOLEAN]
    BY DEF Inv, TypeOK, RemovePath, RemoveFails, PrevComponent
  <2> QED
    BY <2>1, <2>2, <2>3, <2>4, <1>3 DEF Inv, TypeOK
<1>7. ShapeOf(p)'
  BY <1>1, <1>2, <1>3 DEF Inv, ShapeOf, Working
<1>8. HolderOf(p)'
  <2>1. \A x \in Paths : tree'[x] \in {found[x], "absent"} \cup (IF found[x] = "new" THEN {"old"} ELSE {})
    <3> SUFFICES ASSUME NEW x \in Paths
                 PROVE  tree'[x] \in {found[x], "absent"} \cup (IF found[x] = "new" THEN {"old"} ELSE {})
      OBVIOUS
    <3>1. tree[x] \in {found[x], "absent"} \cup (IF found[x] = "new" THEN {"old"} ELSE {})
      BY <1>2 DEF Uninstalling
    <3>2. tree'[x] \in {tree[x], "absent"} \/ (tree[x] # "absent" /\ tree'[x] = "old")
      BY <1>5 DEF Inv, TypeOK
    <3>3. found[x] \in {"absent", "old", "new"}
      BY DEF Inv, TypeOK, Contents, Promise!Contents
    <3> QED
      BY <3>1, <3>2, <3>3
  <2>2. CASE RemoveFails(p)
    <3>1. errs'[p]
      BY <2>2 DEF Inv, TypeOK, RemoveFails
    <3>2. Uninstalling(p)'
      BY <1>3, <2>1, <3>1 DEF Uninstalling
    <3> QED
      BY <1>1, <1>3, <3>2 DEF HolderOf
  <2>3. CASE RemovePath(p)
    <3>1. /\ AtPath(p) \in Paths /\ tree' = [tree EXCEPT ![AtPath(p)] = "absent"]
          /\ at' = at /\ k'[p] = k[p] + 1 /\ errs' = errs /\ k[p] \in 1..M
      BY <2>3 DEF Inv, TypeOK, RemovePath, InComponent, AtPath, Paths
    <3>2. ASSUME NEW x \in Paths, Later(p, x)' PROVE Later(p, x) \/ x = AtPath(p)
      BY <1>1, <1>4, <3>1, <3>2, SizesAssumption DEF Later, AtPath
    <3>3. errs[p] \/ \A x \in Paths : Later(p, x)' => tree'[x] = "absent"
      BY <1>2, <3>1, <3>2 DEF Uninstalling, Inv, TypeOK
    <3>4. Uninstalling(p)'
      BY <1>3, <2>1, <3>1, <3>3 DEF Uninstalling
    <3> QED
      BY <1>1, <1>3, <3>4 DEF HolderOf
  <2>4. CASE PrevComponent(p)
    <3>1. at'[p] = at[p] - 1 /\ k'[p] = 1 /\ tree' = tree /\ errs' = errs /\ k[p] = M + 1
      BY <2>4 DEF Inv, TypeOK, PrevComponent
    <3>2. ASSUME NEW x \in Paths, Later(p, x)' PROVE Later(p, x)
      BY <1>1, <1>4, <3>1, <3>2, SizesAssumption DEF Later
    <3>3. Uninstalling(p)'
      BY <1>2, <1>3, <2>1, <3>1, <3>2 DEF Uninstalling
    <3> QED
      BY <1>1, <1>3, <3>3 DEF HolderOf
  <2> QED
    BY <2>2, <2>3, <2>4
<1>9. \A q \in Procs \ {p} : Same(q) /\ (holder' = q <=> holder = q)
  BY <1>3 DEF Same
<1> QED
  BY <1>2, <1>6, <1>7, <1>8, <1>9, StepOfOne

-----------------------------------------------------------------------------
(* The theorems.                                                           *)

LEMMA NextInv == Inv /\ [Next]_vars => Inv'
<1> SUFFICES ASSUME Inv, [Next]_vars PROVE Inv'
  OBVIOUS
<1>1. ASSUME NEW p \in Procs, NEW c \in Promise!Calls, Begin(p, c) \/ Refuse(p, c) PROVE Inv'
  BY <1>1, BeginKeeps, RefuseKeeps
<1>2. ASSUME NEW p \in Procs, Step(p) PROVE Inv'
  BY <1>2, LeaveAloneKeeps, SetAsideKeeps, PlaceKeeps, NextComponentKeeps, ReturnKeeps,
     ComponentFailsKeeps, ReverseKeeps, UninstallKeeps DEF Step
<1>3. ASSUME NEW p \in Procs, Kill(p) PROVE Inv'
  BY <1>3, KillKeeps
<1>4. CASE UNCHANGED vars
  BY <1>4 DEF vars, local, Inv, TypeOK, ShapeOf, HolderOf, Fresh, Installing, RollingBack,
     Uninstalling, Made, AtPath, Replaceable, Earlier, Later
<1> QED
  BY <1>1, <1>2, <1>3, <1>4 DEF Next

\* Whatever the calls, the components that fail and the kills: every variable has its type,
\* and rollback never goes past the mutations it was given.
THEOREM TypeCorrect == Spec => []TypeOK
<1>1. Inv => TypeOK
  BY DEF Inv
<1> QED
  BY InitInv, NextInv, <1>1, PTL DEF Spec

-----------------------------------------------------------------------------
(* The calls are atomic installations.  A call takes effect when it gives  *)
(* the lock back; every other step is a stutter.                           *)

Store == IF holder = None THEN tree ELSE found

\* What the holder, wherever it is, has done to a path that was up to date and is not its to
\* replace: nothing.
LEMMA UpToDateStays ==
  ASSUME Inv, NEW p \in Procs, holder = p, call[p] = "install", NEW x \in Paths, found[x] = "new"
  PROVE  tree[x] = "new"
<1>1. pc[p] \in {"install", "rollback"} /\ ~Replaceable(p, x)
  BY DEF Inv, ShapeOf, Working, Replaceable
<1>2. CASE pc[p] = "install"
  <2>1. Installing(p)
    BY <1>2 DEF Inv, HolderOf
  <2>2. x \notin Made(p) /\ (aside[p] = "absent" \/ x # AtPath(p))
    BY <1>1, <2>1 DEF Installing
  <2> QED
    BY <2>1, <2>2 DEF Installing
<1>3. CASE pc[p] = "rollback"
  BY <1>1, <1>3 DEF Inv, HolderOf, RollingBack
<1> QED
  BY <1>1, <1>2, <1>3

\* Leaving, with the lock or without it.
LEMMA LeaveMaps ==
  ASSUME Inv, NEW p \in Procs, NEW how, NEW result, pc[p] \in Working, Leave(p, how, result)
  PROVE  /\ Promise!Tell(p, call[p], result)
         /\ call[p] # "dry" => holder = p /\ Store = found /\ Store' = tree'
         /\ call[p] = "dry" /\ tree' = tree => Store' = Store
<1>1. answer[p] = Promise!Open /\ (holder = p <=> call[p] # "dry")
  BY Locked
<1> QED
  BY <1>1, NoneAssumption DEF Leave, Promise!Tell, Store

LEMMA DryReturns ==
  ASSUME Inv, NEW p \in Procs, NEW how, NEW result \in Promise!Results, pc[p] \in Working,
         Leave(p, how, result), call[p] = "dry", tree' = tree
  PROVE  Promise!Next
<1>1. Promise!NoEffect(p, "dry", result)
  BY LeaveMaps DEF Promise!NoEffect, Store
<1> QED
  BY <1>1 DEF Promise!Next, Promise!Calls

LEMMA InstalledMaps ==
  ASSUME Inv, NEW p \in Procs, Installed(p)
  PROVE  Promise!Next
<1>1. pc[p] = "install" /\ at[p] = N + 1 /\ Leave(p, "done", "ok") /\ tree' = tree
  BY DEF Installed, Return
<1>2. pc[p] \in Working /\ call[p] \in Promise!Calls \ {"uninstall"}
  BY <1>1, Locked DEF Working
<1>3. CASE call[p] # "dry"
  <2>1. holder = p /\ Store' = tree /\ Promise!Tell(p, call[p], "ok")
    BY <1>1, <1>2, <1>3, LeaveMaps
  <2>2. Installing(p)
    BY <1>1, <2>1 DEF Inv, HolderOf
  <2>3. \A x \in Paths : Earlier(p, x)
    BY <1>1, SizesAssumption DEF Earlier, Paths
  <2>4. tree = [x \in Paths |-> "new"]
    BY <2>2, <2>3 DEF Installing, Inv, TypeOK
  <2>5. Promise!Succeed(p, call[p])
    BY <1>2, <1>3, <2>1, <2>4 DEF Promise!Succeed, Promise!Calls, Store
  <2> QED
    BY <1>2, <2>5 DEF Promise!Next, Promise!Results
<1> QED
  BY <1>1, <1>2, <1>3, DryReturns DEF Promise!Results

LEMMA RolledBackMaps ==
  ASSUME Inv, NEW p \in Procs, RolledBack(p)
  PROVE  Promise!Next
<1> DEFINE result == IF errs[p] THEN "manual" ELSE "rolled_back"
<1>1. pc[p] = "rollback" /\ todo[p] = 0 /\ Leave(p, "done", result) /\ tree' = tree
  BY DEF RolledBack, Return
<1>2. pc[p] \in Working /\ call[p] \in Promise!Calls \ {"uninstall"} /\ result \in Promise!Results
  BY <1>1, Locked DEF Working, Promise!Results
<1>3. CASE call[p] # "dry"
  <2>1. /\ holder = p /\ Store = found /\ Store' = tree /\ Promise!Tell(p, call[p], result)
        /\ call[p] \in {"install", "force"} /\ tree \in [Paths -> Contents]
    BY <1>1, <1>2, <1>3, LeaveMaps DEF Promise!Calls, Inv, TypeOK
  <2>2. CASE errs[p]
    <3>1. \A x \in Paths : found[x] = "new" /\ call[p] = "install" => tree[x] = "new"
      BY <2>1, UpToDateStays
    <3>2. Promise!LeaveBehind(p, call[p], result)
      BY <2>1, <2>2, <3>1 DEF Promise!LeaveBehind, Store, Contents
    <3> QED
      BY <1>2, <3>2 DEF Promise!Next
  <2>3. CASE ~errs[p]
    <3>1. RollingBack(p)
      BY <1>1, <2>1 DEF Inv, HolderOf
    <3>2. ASSUME NEW x \in RangeOf(applied[p]) PROVE x \in Irreversible \/ tree[x] = "absent"
      <4>1. PICK i \in 1..Len(applied[p]) : x = applied[p][i]
        BY <3>2 DEF RangeOf
      <4> QED
        BY <1>1, <2>3, <3>1, <4>1 DEF RollingBack
    <3>3. ASSUME NEW x \in Paths PROVE Promise!Undone(x, call[p], Store'[x])
      <4>1. found[x] \in {"absent", "old", "new"}
        BY DEF Inv, TypeOK, Contents, Promise!Contents
      <4>2. CASE x \in RangeOf(applied[p])
        BY <2>1, <3>1, <3>2, <4>1, <4>2 DEF RollingBack, Replaceable, Promise!Undone, Store
      <4>3. CASE x \notin RangeOf(applied[p])
        BY <2>1, <3>1, <4>1, <4>3 DEF RollingBack, Replaceable, Promise!Undone, Store
      <4> QED
        BY <4>2, <4>3
    <3>4. Promise!RollBack(p, call[p])
      BY <2>1, <2>3, <3>3 DEF Promise!RollBack, Store, Contents
    <3> QED
      BY <1>2, <3>4 DEF Promise!Next, Promise!Results
  <2> QED
    BY <2>2, <2>3
<1> QED
  BY <1>1, <1>2, <1>3, DryReturns

LEMMA UninstalledMaps ==
  ASSUME Inv, NEW p \in Procs, Uninstalled(p)
  PROVE  Promise!Next
<1> DEFINE result == IF errs[p] THEN "partly" ELSE "removed"
<1>1. pc[p] = "uninstall" /\ at[p] = 0 /\ Leave(p, "done", result) /\ tree' = tree
  BY DEF Uninstalled, Return
<1>2. pc[p] \in Working /\ holder = p /\ Uninstalling(p) /\ call[p] = "uninstall"
  BY <1>1, UninstallerLocked
<1>3. /\ Store = found /\ Store' = tree /\ Promise!Tell(p, "uninstall", result)
      /\ tree \in [Paths -> Contents]
  BY <1>1, <1>2, LeaveMaps DEF Inv, TypeOK
<1>4. CASE errs[p]
  <2>1. Promise!RemovePart(p, result)
    BY <1>2, <1>3, <1>4 DEF Promise!RemovePart, Uninstalling, Store, Contents
  <2> QED
    BY <1>4, <2>1 DEF Promise!Next, Promise!Results, Promise!Calls
<1>5. CASE ~errs[p]
  <2>1. \A x \in Paths : Later(p, x)
    BY <1>1 DEF Later, Paths
  <2>2. tree = [x \in Paths |-> "absent"]
    BY <1>2, <1>3, <1>5, <2>1 DEF Uninstalling
  <2>3. Promise!Remove(p)
    BY <1>3, <1>5, <2>2 DEF Promise!Remove, Store
  <2> QED
    BY <2>3 DEF Promise!Next, Promise!Results, Promise!Calls
<1> QED
  BY <1>4, <1>5

LEMMA KillMaps ==
  ASSUME Inv, NEW p \in Procs, Kill(p)
  PROVE  Promise!Next
<1>1. pc[p] \in Working /\ Leave(p, "dead", "killed") /\ "killed" \in Promise!Results
  BY DEF Kill, Promise!Results
<1>2. \/ tree' = tree
      \/ \E x \in Removing(p) : tree[x] # "absent" /\ tree' = [tree EXCEPT ![x] = "old"]
  BY DEF Kill
<1>3. call[p] \in Promise!Calls /\ (holder = p <=> call[p] # "dry")
  BY <1>1, Locked
<1>4. CASE call[p] = "dry"
  <2>1. tree' = tree
    BY <1>2, <1>3, <1>4, RemovingLocked
  <2> QED
    BY <1>1, <1>4, <2>1, DryReturns
<1>5. CASE call[p] # "dry"
  <2>1. /\ holder = p /\ Store = found /\ Store' = tree' /\ Promise!Tell(p, call[p], "killed")
    BY <1>1, <1>3, <1>5, LeaveMaps
  <2>2. tree' \in [Paths -> Contents]
    <3>1. \A x \in Removing(p) : x \in Paths
      BY RemovingLocked
    <3> QED
      BY <1>2, <3>1 DEF Inv, TypeOK, Contents, Promise!Contents
  <2>3. CASE call[p] = "uninstall"
    <3>1. Uninstalling(p)
      BY <1>1, <2>3, Locked, UninstallerLocked
    <3>2. ASSUME NEW x \in Paths
          PROVE  tree'[x] \in {found[x], "absent"} \cup (IF found[x] = "new" THEN {"old"} ELSE {})
      <4>1. tree[x] \in {found[x], "absent"} \cup (IF found[x] = "new" THEN {"old"} ELSE {})
        BY <3>1 DEF Uninstalling
      <4>2. tree'[x] = tree[x] \/ (tree[x] # "absent" /\ tree'[x] = "old")
        BY <1>2 DEF Inv, TypeOK
      <4>3. found[x] \in {"absent", "old", "new"}
        BY DEF Inv, TypeOK, Contents, Promise!Contents
      <4> QED
        BY <4>1, <4>2, <4>3
    <3>3. Promise!RemovePart(p, "killed")
      BY <2>1, <2>2, <2>3, <3>2 DEF Promise!RemovePart, Store, Contents
    <3> QED
      BY <1>1, <3>3 DEF Promise!Next, Promise!Calls
  <2>4. CASE call[p] # "uninstall"
    <3>1. call[p] \in {"install", "force"}
      BY <1>3, <1>5, <2>4 DEF Promise!Calls
    <3>2. ASSUME NEW x \in Paths, found[x] = "new", call[p] = "install" PROVE tree'[x] = "new"
      <4>1. tree[x] = "new"
        BY <2>1, <3>2, UpToDateStays
      <4>2. x \notin Removing(p)
        <5>1. pc[p] # "uninstall" /\ ~Replaceable(p, x)
          BY <1>1, <2>4, <3>2, Locked DEF Replaceable
        <5>2. pc[p] = "rollback" => x \notin RangeOf(applied[p])
          BY <2>1, <5>1 DEF Inv, HolderOf, RollingBack
        <5> QED
          BY <5>1, <5>2, RemovingLocked
      <4> QED
        BY <1>2, <4>1, <4>2 DEF Inv, TypeOK
    <3>3. Promise!LeaveBehind(p, call[p], "killed")
      BY <2>1, <2>2, <3>1, <3>2 DEF Promise!LeaveBehind, Store, Contents
    <3> QED
      BY <1>1, <1>3, <3>3 DEF Promise!Next
  <2> QED
    BY <2>3, <2>4
<1> QED
  BY <1>4, <1>5

\* The steps within a call touch the paths only with the lock, and answer nobody.
LEMMA StepStutters ==
  ASSUME Inv, NEW p \in Procs,
         \/ LeaveAlone(p) \/ SetAside(p) \/ Place(p) \/ NextComponent(p) \/ ComponentFails(p)
         \/ Reverse(p) \/ RemovePath(p) \/ RemoveFails(p) \/ PrevComponent(p)
  PROVE  UNCHANGED Promise!vars
<1>1. answer' = answer /\ holder' = holder /\ found' = found
  BY DEF LeaveAlone, SetAside, Place, NextComponent, ComponentFails, Reverse, RemovePath, RemoveFails,
         PrevComponent
<1>2. tree' = tree \/ holder = p
  <2>1. CASE LeaveAlone(p) \/ NextComponent(p) \/ PrevComponent(p)
    BY <2>1 DEF LeaveAlone, NextComponent, PrevComponent
  <2>2. CASE SetAside(p) \/ Place(p)
    BY <2>2, NotUpToDate DEF SetAside, Place
  <2>3. CASE ComponentFails(p)
    BY <2>3, Locked DEF ComponentFails, InComponent, Working, Fresh
  <2>4. CASE Reverse(p)
    BY <2>4, Locked DEF Reverse, Working, Fresh
  <2>5. CASE RemovePath(p) \/ RemoveFails(p)
    BY <2>5, UninstallerLocked DEF RemovePath, RemoveFails, InComponent
  <2> QED
    BY <2>1, <2>2, <2>3, <2>4, <2>5
<1> QED
  BY <1>1, <1>2, NoneAssumption DEF Promise!vars

LEMMA NextMaps == Inv /\ [Next]_vars => [Promise!Next]_(Promise!vars)
<1> SUFFICES ASSUME Inv, [Next]_vars PROVE [Promise!Next]_(Promise!vars)
  OBVIOUS
<1>1. ASSUME NEW p \in Procs, NEW c \in Promise!Calls, Begin(p, c)
      PROVE  UNCHANGED Promise!vars
  BY <1>1, NoneAssumption DEF Begin, TakesLock, Promise!vars
<1>2. ASSUME NEW p \in Procs, NEW c \in Promise!Calls, Refuse(p, c)
      PROVE  Promise!Next
  <2>1. answer[p] = Promise!Open
    BY <1>2 DEF Inv, ShapeOf, Refuse
  <2>2. Promise!NoEffect(p, c, "refused")
    BY <1>2, <2>1 DEF Refuse, Promise!NoEffect, Promise!Tell
  <2> QED
    BY <2>2 DEF Promise!Next, Promise!Results
<1>3. ASSUME NEW p \in Procs, Step(p) PROVE [Promise!Next]_(Promise!vars)
  BY <1>3, StepStutters, InstalledMaps, RolledBackMaps, UninstalledMaps DEF Step
<1>4. ASSUME NEW p \in Procs, Kill(p) PROVE Promise!Next
  BY <1>4, KillMaps
<1>5. CASE UNCHANGED vars
  BY <1>5 DEF vars, Promise!vars
<1> QED
  BY <1>1, <1>2, <1>3, <1>4, <1>5 DEF Next

\* The orchestrator implements the atomic installation: whatever fails and whoever is killed,
\* to a process that finds the lock free a success has put every path in place, and a failure
\* that is reported as recoverable has left no path of its making.
THEOREM Implementation == Spec => ImplementsPromise
<1>1. Init => Promise!Init
  BY TreesAssumption DEF Init, Promise!Init, Promise!Contents
<1> QED
  BY InitInv, NextInv, NextMaps, <1>1, PTL DEF Spec, ImplementsPromise, Promise!Spec

-----------------------------------------------------------------------------
(* FolderSync: what a run knows of the files.                              *)

Analyses == [facts : {0, 1}, md : 0..2]
Bodies   == {Body(a) : a \in Analyses}
Sources  == {Absent, Stub, Part, Custom, Kept, Template} \cup Bodies
Copies   == {Copy(f) : f \in Sources}
Texts    == Sources \cup Copies

Syncing   == {"sync", "truncate", "write"}
Mirroring == {"mirror", "compare", "mtruncate", "mwrite"}
Ended     == {"idle", "done", "failed"}

Options == [kind : {"sync", "init"}, force : BOOLEAN, limit : Nat, dry : BOOLEAN]
Reports == [sync : SUBSET Dirs, mirror : SUBSET Dirs]
Layouts == [Parts -> {"none", "cut", "whole"}]

FilesTyped ==
  /\ facts \in [Dirs -> {0, 1}]
  /\ agents \in [Dirs -> Sources]
  /\ mirror \in [Dirs -> Texts]
  /\ toml \in {"none", "on", "off"}
  /\ layout \in Layouts

RunsTyped ==
  /\ step \in [Runners -> Preparing \cup Syncing \cup Mirroring \cup Ended]
  /\ opts \in [Runners -> Options]
  /\ ahead \in [Runners -> SUBSET Dirs]
  /\ text \in [Runners -> Texts]
  /\ recorded \in [Runners -> Reports] /\ missed \in [Runners -> Reports]
  /\ clean \in [Runners -> BOOLEAN]
  /\ unseen \subseteq Runners

Counted == edits \in Nat /\ faults \in Nat

\* Until something fails, a note that is cut off is one that some run is writing.
Traced ==
  faults = 0 => \A part \in Notes :
    layout[part] = "cut" => \E q \in Runners : step[q] \in Filling /\ About(step[q]) = part

\* What run p is about to write is a text of Samuel's own, for a folder ahead of it.
Writing(p) ==
  /\ step[p] \in {"truncate", "write", "compare", "mtruncate", "mwrite"} =>
       ahead[p] # {} /\ text[p] # Absent /\ text[p] # Custom
  /\ step[p] \in {"truncate", "write"} => text[p] \in Sources

\* What an unforced run replaces is no user's text, unless the run has not seen it.
Keeping(p) ==
  ~opts[p].force /\ p \notin unseen =>
    /\ step[p] \in {"truncate", "write"} => agents[Here(p)] # Custom
    /\ step[p] \in {"mtruncate", "mwrite"} => mirror[Here(p)] # Custom

\* How far an init has come.  The copy of the builtins is whole while nobody else runs.
Preparation(p) ==
  opts[p].kind = "init" =>
    /\ step[p] \notin {"idle", "failed", "config"} => toml = "on"
    /\ step[p] \notin {"idle", "failed", "config", "dirs"} => layout["dirs"] = "whole"
    /\ step[p] \notin {"idle", "failed", "config", "dirs", "builtins", "copying"} /\ clean[p] =>
         layout["builtins"] = "whole"
    /\ step[p] \notin {"idle", "failed", "config", "dirs", "builtins", "copying", "readme"} =>
         layout["readme"] # "none"
    /\ step[p] \notin {"idle", "failed"} \cup (Preparing \ {"ignoring", "root"}) =>
         layout["gitignore"] # "none"

\* The root's file comes first, and an undisturbed init leaves one: the template, under --force.
RootFirst(p) ==
  /\ step[p] \in Preparing \cup {"sync"} => Root \notin ahead[p]
  /\ step[p] \in {"truncate", "write"} => Here(p) = Root \/ Root \notin ahead[p]
  /\ clean[p] /\ opts[p].kind = "init" /\ step[p] \in Syncing \cup Mirroring \cup {"done"} =>
       IF step[p] \in {"truncate", "write"} /\ Here(p) = Root
       THEN text[p] = Template
       ELSE agents[Root] # Absent /\ (opts[p].force => agents[Root] = Template)

\* The folders an undisturbed run is past have a text that describes them, or the run has
\* recorded or missed them.
Synced(p) ==
  clean[p] =>
    /\ step[p] \in {"truncate", "write"} => Here(p) = Root \/ Describes(text[p], Here(p))
    /\ step[p] = "write" => agents[Here(p)] = Stub
    /\ step[p] \notin {"idle", "failed"} /\ ~opts[p].dry =>
         \A d \in SyncWalk(opts[p].limit) :
            \/ d \in recorded[p].sync \cup missed[p].sync
            \/ Describes(agents[d], d)
            \/ step[p] \in Preparing \cup Syncing /\ d \in ahead[p]

\* ... and once it mirrors, those it is past have the mirror of what is there.
Mirrored(p) ==
  clean[p] =>
    /\ step[p] \in {"compare", "mtruncate", "mwrite"} =>
         text[p] = Copy(agents[Here(p)]) /\ agents[Here(p)] # Absent
    /\ step[p] = "mwrite" => mirror[Here(p)] = Stub
    /\ \/ step[p] \in Mirroring
       \/ step[p] = "done" /\ (toml = "on" \/ opts[p].kind = "init")
       => opts[p].dry \/ \A d \in MirrorWalk(opts[p].limit) :
            \/ agents[d] = Absent
            \/ d \in recorded[p].mirror \cup missed[p].mirror
            \/ mirror[d] = Copy(agents[d])
            \/ step[p] \in Mirroring /\ d \in ahead[p]

\* Nobody else runs beside an undisturbed run.
Undisturbed(p) == clean[p] => Active \subseteq {p}

Own(p) ==
  /\ Writing(p) /\ Keeping(p) /\ Preparation(p)
  /\ RootFirst(p) /\ Synced(p) /\ Mirrored(p)

SyncInv ==
  /\ FilesTyped /\ RunsTyped /\ Counted /\ Traced
  /\ \A p \in Runners : Own(p) /\ Undisturbed(p)

-----------------------------------------------------------------------------
(* Texts, and the order of the walk.                                       *)

LEMMA SmallestOf ==
  ASSUME NEW T, T \subseteq Nat, T # {}
  PROVE  \E n \in T : \A m \in T : n <= m
<1>1. \E n \in T : \A m \in T : ~ (<<m, n>> \in OpToRel(<, Nat))
  BY WFMin, NatLessThanWellFounded, Zenon
<1>2. \A m, n \in T : <<m, n>> \in OpToRel(<, Nat) <=> m < n
  BY DEF OpToRel
<1>3. PICK n \in T : \A m \in T : ~ (<<m, n>> \in OpToRel(<, Nat))
  BY <1>1
<1>4. \A m \in T : ~ (m < n) /\ m \in Nat /\ n \in Nat
  BY <1>2, <1>3
<1>5. \A m \in T : n <= m
  BY <1>4
<1> QED
  BY <1>5

\* The walk's next folder is one that is ahead ...
LEMMA FirstIsAhead ==
  ASSUME NEW S \in SUBSET Dirs, S # {}
  PROVE  First(S) \in S /\ First(S) \in Dirs
<1> DEFINE T == {Order[d] : d \in S}
<1>1. T \subseteq Nat /\ T # {}
  BY WalkAssumption
<1>2. \E n \in T : \A m \in T : n <= m
  BY <1>1, SmallestOf
<1>3. PICK d \in S : \A e \in S : Order[d] <= Order[e]
  BY <1>2
<1> QED
  BY <1>3 DEF First

\* ... and the root, where it is to be visited.
LEMMA RootIsFirst ==
  ASSUME NEW S \in SUBSET Dirs, Root \in S
  PROVE  First(S) = Root
<1> DEFINE d == First(S)
<1>1. \A e \in S : Order[Root] <= Order[e]
  BY WalkAssumption DEF Dirs
<1>2. d \in S /\ \A e \in S : Order[d] <= Order[e]
  BY <1>1 DEF First
<1>3. Order[d] = Order[Root] /\ d \in Dirs /\ Root \in Dirs
  BY <1>1, <1>2, WalkAssumption
<1> QED
  BY <1>3, WalkAssumption

LEMMA TextsDiffer ==
  /\ Absent # Custom /\ Stub # Custom /\ Part # Custom /\ Stub # Absent /\ Part # Absent
  /\ Template # Absent /\ Template # Custom /\ Template \in Sources
  /\ {Absent, Stub, Part, Custom, Kept} \subseteq Sources
  /\ \A a \in Analyses : Body(a) \in Sources /\ Body(a) # Absent /\ Body(a) # Custom
  /\ \A f \in Sources : Copy(f) \in Copies /\ Copy(f) # Absent /\ Copy(f) # Custom
  /\ Sources \subseteq Texts /\ Copies \subseteq Texts
<1>1. \A f : Copy(f) # Absent /\ Copy(f) # Custom
  <2>1. \A f : Copy(f).form = "copy"
    BY DEF Copy
  <2> QED
    BY <2>1 DEF Absent, Custom
<1>2. \A v : Body(v) # Absent /\ Body(v) # Custom
  <2>1. \A v : Body(v).form = "body"
    BY DEF Body
  <2> QED
    BY <2>1 DEF Absent, Custom
<1>3. \A a \in Analyses : Body(a) \in Sources
  BY DEF Sources, Bodies
<1>4. \A f \in Sources : Copy(f) \in Copies
  BY DEF Copies
<1>5. /\ Absent # Custom /\ Stub # Custom /\ Part # Custom /\ Stub # Absent /\ Part # Absent
      /\ Template # Absent /\ Template # Custom
  BY DEF Absent, Custom, Stub, Part, Template
<1>6. Template \in Sources /\ {Absent, Stub, Part, Custom, Kept} \subseteq Sources
  BY DEF Sources
<1> QED
  BY <1>1, <1>2, <1>3, <1>4, <1>5, <1>6 DEF Texts

\* A file that may be replaced is a user's only under --force.
LEMMA WritableIsNoUsers ==
  ASSUME NEW p \in Runners, NEW f, Writable(p, f), ~opts[p].force
  PROVE  f # Custom
BY TextsDiffer DEF Writable, Marked, Custom

\* What the code sees is what is there, or, where a read failed, nothing.
LEMMA SeesWell ==
  ASSUME SyncInv, NEW there, NEW seen, Sees(there, seen)
  PROVE  /\ seen = there \/ seen = Absent
         /\ faults' \in {faults, faults + 1}
         /\ edits' = edits => Counted'
BY DEF Sees, Fault, SyncInv, Counted

\* Where files only come, the count of .md files only grows.
LEMMA AnalysisGrows ==
  ASSUME NEW d \in Dirs,
         agents[d] # Absent => agents'[d] # Absent, mirror[d] # Absent => mirror'[d] # Absent
  PROVE  /\ AnalyzeFolder(d).md \in 0..2 /\ AnalyzeFolder(d)'.md \in 0..2
         /\ AnalyzeFolder(d).md <= AnalyzeFolder(d)'.md
         /\ 0..AnalyzeFolder(d).md \subseteq 0..AnalyzeFolder(d)'.md
BY DEF AnalyzeFolder

-----------------------------------------------------------------------------
(* A step of one run and the others.                                       *)

\* What a step of p leaves of the other runs and of the texts of users.
OnlyOf(p) ==
  /\ \A q \in Runners \ {p} :
       /\ step'[q] = step[q] /\ opts'[q] = opts[q] /\ ahead'[q] = ahead[q]
       /\ text'[q] = text[q] /\ clean'[q] = clean[q]
       /\ q \in unseen => q \in unseen'
  /\ clean'[p] => clean[p]
  /\ \A d \in Dirs : agents'[d] = agents[d] \/ agents'[d] # Custom
  /\ \A d \in Dirs : mirror'[d] = mirror[d] \/ mirror'[d] # Custom
  /\ toml = "on" => toml' = "on"
  /\ layout["dirs"] = "whole" => layout'["dirs"] = "whole"
  /\ \A part \in Notes : layout[part] # "none" => layout'[part] # "none"

LEMMA OneActs ==
  ASSUME SyncInv, NEW p \in Runners, p \in Active, OnlyOf(p),
         FilesTyped', RunsTyped', Counted', Traced', Own(p)'
  PROVE  SyncInv'
<1>1. Active' \subseteq Active
  BY DEF OnlyOf, Active
<1>2. Undisturbed(p)'
  BY <1>1 DEF SyncInv, Undisturbed, OnlyOf
<1>3. ASSUME NEW q \in Runners, q # p PROVE Own(q)' /\ Undisturbed(q)'
  <2>1. ~clean[q] /\ ~clean'[q]
    BY <1>3 DEF SyncInv, Undisturbed, OnlyOf
  <2>2. /\ step'[q] = step[q] /\ opts'[q] = opts[q] /\ ahead'[q] = ahead[q] /\ text'[q] = text[q]
        /\ Here(q)' = Here(q) /\ (q \in unseen => q \in unseen')
    BY <1>3 DEF OnlyOf, Here
  <2>3. Own(q)
    BY <1>3 DEF SyncInv
  <2>4. Writing(q)'
    BY <2>2, <2>3 DEF Own, Writing
  <2>5. Keeping(q)'
    <3>1. step[q] \in {"truncate", "write", "mtruncate", "mwrite"} => Here(q) \in Dirs
      BY <2>3, FirstIsAhead DEF Own, Writing, Here, SyncInv, RunsTyped
    <3> QED
      BY <2>2, <2>3, <3>1 DEF Own, Keeping, OnlyOf
  <2>6. Preparation(q)'
    BY <2>1, <2>2, <2>3 DEF Own, Preparation, OnlyOf, Notes
  <2>7. RootFirst(q)'
    BY <2>1, <2>2, <2>3 DEF Own, RootFirst
  <2> QED
    BY <2>1, <2>4, <2>5, <2>6, <2>7 DEF Own, Synced, Mirrored, Undisturbed
<1> QED
  BY <1>2, <1>3 DEF SyncInv

\* A note that is cut off by a step of p is cut off by p's hand, or something has failed.
LEMMA TracedStays ==
  ASSUME SyncInv, NEW p \in Runners, NEW next, step' = [step EXCEPT ![p] = next],
         faults' \in {faults, faults + 1},
         \A part \in Notes : faults' = 0 /\ layout'[part] = "cut" =>
            \/ layout[part] = "cut" /\ (step[p] \in Filling => About(step[p]) # part)
            \/ next \in Filling /\ About(next) = part
  PROVE  Traced'
<1> SUFFICES ASSUME faults' = 0, NEW part \in Notes, layout'[part] = "cut"
             PROVE  \E q \in Runners : step'[q] \in Filling /\ About(step'[q]) = part
  BY DEF Traced, Notes, About, Filling
<1>1. faults = 0
  BY DEF SyncInv, Counted
<1>2. CASE next \in Filling /\ About(next) = part
  BY <1>2 DEF SyncInv, RunsTyped
<1>3. CASE layout[part] = "cut" /\ (step[p] \in Filling => About(step[p]) # part)
  <2>1. PICK q \in Runners : step[q] \in Filling /\ About(step[q]) = part
    BY <1>1, <1>3 DEF SyncInv, Traced
  <2>2. q # p /\ step'[q] = step[q]
    BY <1>3, <2>1 DEF SyncInv, RunsTyped
  <2> QED
    BY <2>1, <2>2
<1> QED
  BY <1>2, <1>3

LEMMA SyncInitially == SyncInit => SyncInv
<1> SUFFICES ASSUME SyncInit PROVE SyncInv
  OBVIOUS
<1>1. FilesTyped
  <2>1. PICK f \in Found : /\ agents = [d \in Dirs |-> f[1]] /\ mirror = [d \in Dirs |-> f[2]]
                           /\ toml = f[3]
    BY DEF SyncInit
  <2>2. [facts |-> 1, md |-> 0] \in Analyses
    BY DEF Analyses
  <2>3. /\ f[1] \in {Absent, Custom, Kept, Body([facts |-> 1, md |-> 0])}
        /\ f[2] \in {Absent, Custom, Kept} /\ f[3] \in {"none", "on", "off"}
    BY FoundAssumption
  <2>4. f[1] \in Sources /\ f[2] \in Texts
    BY <2>2, <2>3, TextsDiffer
  <2>5. layout \in Layouts /\ facts \in [Dirs -> {0, 1}]
    BY DEF SyncInit, Layouts
  <2> QED
    BY <2>1, <2>3, <2>4, <2>5 DEF FilesTyped
<1>2. RunsTyped /\ Counted
  BY TextsDiffer DEF SyncInit, RunsTyped, Counted, NoOpts, Silent, Options, Reports, Ended
<1>3. Traced
  BY DEF SyncInit, Traced, Parts, Notes
<1>4. ASSUME NEW p \in Runners PROVE Own(p) /\ Undisturbed(p)
  <2>1. step[p] = "idle" /\ opts[p].kind = "sync" /\ clean[p] = FALSE /\ ahead[p] = {}
    BY DEF SyncInit, NoOpts
  <2> QED
    BY <2>1 DEF Own, Writing, Keeping, Preparation, RootFirst, Synced, Mirrored, Undisturbed,
               Preparing, Parts, Notes, Filling
<1> QED
  BY <1>1, <1>2, <1>3, <1>4 DEF SyncInv

\* A run that begins beside another disturbs it, and is disturbed itself.
LEMMA BeginRunKeeps ==
  ASSUME SyncInv, NEW p \in Runners, BeginRun(p)
  PROVE  SyncInv'
<1>1. PICK j \in {"sync", "init"}, f \in BOOLEAN, dry \in BOOLEAN, n \in Limits :
        /\ IF j = "init" THEN MayInit(f) /\ ~dry /\ \A m \in Limits : m <= n
                         ELSE UNCHANGED faults
        /\ opts' = [opts EXCEPT ![p] = [kind |-> j, force |-> f, limit |-> n,
                                        dry |-> dry \/ (j = "sync" /\ toml = "none")]]
        /\ ahead' = [ahead EXCEPT ![p] = SyncWalk(n)]
        /\ step' = [step EXCEPT ![p] = IF j = "init" THEN "config" ELSE "sync"]
  BY ZenonT(60) DEF BeginRun, Goto
<1>2. /\ recorded' = [recorded EXCEPT ![p] = Silent] /\ missed' = [missed EXCEPT ![p] = Silent]
      /\ clean' = [q \in Runners |-> q = p /\ Active = {}]
      /\ UNCHANGED <<facts, agents, mirror, toml, layout, text, edits, unseen>>
      /\ p \notin Active
  BY DEF BeginRun, project
<1>3. SyncWalk(n) \subseteq Folders /\ n \in Nat
  BY LimitAssumption DEF SyncWalk
<1>4. faults' \in {faults, faults + 1} /\ Counted'
  BY <1>1, <1>2 DEF MayInit, Fault, SyncInv, Counted
<1>5. FilesTyped'
  BY <1>2 DEF SyncInv, FilesTyped
<1>6. RunsTyped'
  <2>1. opts' \in [Runners -> Options]
    BY <1>1, <1>3 DEF SyncInv, RunsTyped, Options
  <2>2. ahead' \in [Runners -> SUBSET Dirs]
    BY <1>1, <1>3 DEF SyncInv, RunsTyped, Dirs
  <2>3. step' \in [Runners -> Preparing \cup Syncing \cup Mirroring \cup Ended]
    BY <1>1 DEF SyncInv, RunsTyped, Preparing, Syncing
  <2>4. recorded' \in [Runners -> Reports] /\ missed' \in [Runners -> Reports]
    BY <1>2 DEF SyncInv, RunsTyped, Reports, Silent
  <2>5. clean' \in [Runners -> BOOLEAN]
    BY <1>2
  <2> QED
    BY <1>2, <2>1, <2>2, <2>3, <2>4, <2>5 DEF SyncInv, RunsTyped
<1>7. Traced'
  <2>1. step[p] \notin Filling
    BY <1>2 DEF Active, Filling
  <2> QED
    BY <1>1, <1>2, <1>4, <2>1, TracedStays
<1>8. Own(p)' /\ Undisturbed(p)'
  <2>1. /\ step'[p] = (IF j = "init" THEN "config" ELSE "sync")
        /\ opts'[p].kind = j /\ opts'[p].limit = n
        /\ ahead'[p] = SyncWalk(n)
        /\ clean'[p] <=> Active = {}
    BY <1>1, <1>2 DEF SyncInv, RunsTyped
  <2>2. Writing(p)' /\ Keeping(p)'
    BY <2>1 DEF Writing, Keeping
  <2>3. Preparation(p)' /\ Mirrored(p)'
    BY <2>1 DEF Preparation, Mirrored, Mirroring, Preparing, Parts
  <2>4. RootFirst(p)'
    BY <1>3, <2>1, RootAssumption DEF RootFirst, Syncing, Mirroring, Preparing
  <2>5. Synced(p)'
    <3>1. step'[p] \in Preparing \cup Syncing /\ step'[p] \notin {"truncate", "write"}
      BY <2>1 DEF Preparing, Syncing
    <3>2. SyncWalk(n)' = SyncWalk(n)
      BY DEF SyncWalk, Entered, ShouldSkipDir
    <3> QED
      BY <2>1, <3>1, <3>2 DEF Synced
  <2>6. Undisturbed(p)'
    <3>1. Active' \subseteq Active \cup {p}
      BY <1>1 DEF Active, SyncInv, RunsTyped
    <3> QED
      BY <2>1, <3>1 DEF Undisturbed
  <2> QED
    BY <2>2, <2>3, <2>4, <2>5, <2>6 DEF Own
<1>9. ASSUME NEW q \in Runners, q # p PROVE Own(q)' /\ Undisturbed(q)'
  <2>1. /\ step'[q] = step[q] /\ opts'[q] = opts[q] /\ ahead'[q] = ahead[q] /\ text'[q] = text[q]
        /\ ~clean'[q] /\ Here(q)' = Here(q)
    BY <1>1, <1>2, <1>9 DEF SyncInv, RunsTyped, Here
  <2>2. Own(q)
    BY DEF SyncInv
  <2>3. Writing(q)' /\ Keeping(q)'
    BY <1>2, <2>1, <2>2 DEF Own, Writing, Keeping
  <2>4. Preparation(q)' /\ RootFirst(q)'
    BY <1>2, <2>1, <2>2 DEF Own, Preparation, RootFirst
  <2> QED
    BY <2>1, <2>3, <2>4 DEF Own, Synced, Mirrored, Undisturbed
<1> QED
  BY <1>4, <1>5, <1>6, <1>7, <1>8, <1>9 DEF SyncInv

-----------------------------------------------------------------------------
(* init before the walk.                                                   *)

\* A step of preparation leaves the files of the folders, the walk and what is recorded alone.
LEMMA PrepareKeeps ==
  ASSUME SyncInv, NEW p \in Runners, NEW next \in Preparing \cup {"sync", "failed"},
         step[p] \in Preparing, step' = [step EXCEPT ![p] = next],
         toml' = toml \/ toml' = "on", layout' \in Layouts,
         layout["dirs"] = "whole" => layout'["dirs"] = "whole",
         \A part \in Notes : layout[part] # "none" => layout'[part] # "none",
         UNCHANGED <<facts, agents, mirror, opts, text, recorded, edits, clean, unseen, missed>>,
         ahead' = ahead \/ (next = "failed" /\ ahead' = [ahead EXCEPT ![p] = {}]),
         faults' \in {faults, faults + 1}, Traced', Preparation(p)',
         next = "sync" => agents[Root] # Absent /\ ~opts[p].force
  PROVE  SyncInv'
<1>1. FilesTyped' /\ Counted'
  BY DEF SyncInv, FilesTyped, Counted
<1>2. RunsTyped'
  <2>1. ahead' \in [Runners -> SUBSET Dirs]
    BY DEF SyncInv, RunsTyped
  <2>2. step' \in [Runners -> Preparing \cup Syncing \cup Mirroring \cup Ended]
    BY DEF SyncInv, RunsTyped, Syncing, Ended
  <2> QED
    BY <2>1, <2>2 DEF SyncInv, RunsTyped
<1>3. p \in Active /\ OnlyOf(p)
  BY DEF SyncInv, RunsTyped, OnlyOf, Active, Preparing, Parts, Notes, Filling
<1>4. step'[p] = next /\ Own(p) /\ (next # "failed" => ahead'[p] = ahead[p])
  BY DEF SyncInv, RunsTyped
<1>5. next \notin {"truncate", "write", "compare", "mtruncate", "mwrite", "mirror", "done", "idle"}
      /\ step[p] \notin {"idle", "failed", "sync"}
  BY DEF Preparing, Parts, Notes, Filling
<1>6. Writing(p)' /\ Keeping(p)' /\ Mirrored(p)'
  BY <1>4, <1>5 DEF Writing, Keeping, Mirrored, Mirroring
<1>7. RootFirst(p)'
  <2>1. next # "failed" => Root \notin ahead'[p]
    BY <1>4 DEF Own, RootFirst
  <2>2. next \in Syncing \cup Mirroring \cup {"done"} => next = "sync"
    BY <1>5 DEF Syncing, Mirroring
  <2>3. "failed" \notin Preparing \cup {"sync"}
    BY DEF Preparing, Parts, Notes, Filling
  <2> QED
    BY <1>4, <1>5, <2>1, <2>2, <2>3 DEF RootFirst
<1>8. Synced(p)'
  <2>1. SyncWalk(opts[p].limit)' = SyncWalk(opts[p].limit)
    BY DEF SyncWalk, Entered, ShouldSkipDir
  <2>2. next # "failed" => next \in Preparing \cup Syncing
    BY DEF Syncing
  <2>3. clean[p] /\ ~opts[p].dry => \A d \in SyncWalk(opts[p].limit) :
           d \in recorded[p].sync \cup missed[p].sync \/ Describes(agents[d], d) \/ d \in ahead[p]
    BY <1>4, <1>5 DEF Own, Synced
  <2>4. \A d \in Dirs : Describes(agents[d], d)' <=> Describes(agents[d], d)
    BY DEF Describes, AnalyzeFolder
  <2>5. SyncWalk(opts[p].limit) \subseteq Dirs
    BY DEF SyncWalk, Dirs
  <2> QED
    BY <1>4, <1>5, <2>1, <2>2, <2>3, <2>4, <2>5 DEF Synced
<1> QED
  BY <1>1, <1>2, <1>3, <1>6, <1>7, <1>8, OneActs DEF Own

LEMMA SaveConfigKeeps ==
  ASSUME SyncInv, NEW p \in Runners, SaveConfig(p)
  PROVE  SyncInv'
<1>1. /\ step[p] = "config" /\ step' = [step EXCEPT ![p] = "dirs"] /\ toml' = "on"
      /\ step'[p] = "dirs"
      /\ UNCHANGED <<facts, agents, mirror, layout, opts, ahead, text, recorded, edits, faults,
                     clean, unseen, missed>>
  BY DEF SaveConfig, Goto, counts, history, SyncInv, RunsTyped
<1>2. layout \in Layouts /\ step[p] \notin Filling
  BY <1>1 DEF SyncInv, FilesTyped, Filling
<1>3. Preparation(p)'
  BY <1>1 DEF Preparation, Preparing, Parts
<1>4. Traced'
  BY <1>1, <1>2, TracedStays
<1> QED
  BY <1>1, <1>2, <1>3, <1>4, PrepareKeeps DEF Preparing, Parts

\* Laying out a part leaves the others as they are.
LEMMA LayOutDoes ==
  ASSUME SyncInv, NEW p \in Runners, NEW now \in Preparing, NEW part \in Parts,
         NEW state \in {"none", "cut", "whole"}, NEW next \in Preparing,
         LayOut(p, now, part, state, next)
  PROVE  /\ step[p] = now /\ step' = [step EXCEPT ![p] = next] /\ step'[p] = next
         /\ layout' \in Layouts /\ layout'[part] = state
         /\ \A other \in Parts \ {part} : layout'[other] = layout[other]
         /\ UNCHANGED <<facts, agents, mirror, toml, opts, ahead, text, recorded, edits,
                        clean, unseen, missed>>
         /\ Own(p)
BY DEF LayOut, Goto, history, SyncInv, RunsTyped, FilesTyped, Layouts

LEMMA MakeDirsKeeps ==
  ASSUME SyncInv, NEW p \in Runners, MakeDirs(p)
  PROVE  SyncInv'
<1>1. LayOut(p, "dirs", "dirs", "whole", "builtins") /\ faults' = faults
  BY DEF MakeDirs
<1>2. "dirs" \in Preparing /\ "builtins" \in Preparing /\ "dirs" \in Parts /\ Notes \subseteq Parts
      /\ "dirs" \notin Notes /\ "dirs" \notin Filling
  BY DEF Preparing, Parts, Notes, Filling
<1>3. /\ step[p] = "dirs" /\ step' = [step EXCEPT ![p] = "builtins"] /\ step'[p] = "builtins"
      /\ layout' \in Layouts /\ layout'["dirs"] = "whole"
      /\ \A part \in Notes : layout'[part] = layout[part]
      /\ UNCHANGED <<facts, agents, mirror, toml, opts, ahead, text, recorded, edits,
                     clean, unseen, missed>>
      /\ Own(p)
  BY <1>1, <1>2, LayOutDoes
<1>4. Preparation(p)'
  BY <1>3 DEF Own, Preparation, Preparing, Parts
<1>5. Traced'
  BY <1>1, <1>2, <1>3, TracedStays
<1> QED
  BY <1>1, <1>2, <1>3, <1>4, <1>5, PrepareKeeps

LEMMA MirrorBuiltinsKeeps ==
  ASSUME SyncInv, NEW p \in Runners, MirrorBuiltins(p)
  PROVE  SyncInv'
<1>1. PICK now \in {"builtins", "copying"}, state \in {"cut", "whole"},
           next \in {"copying", "readme"} :
        /\ LayOut(p, now, "builtins", state, next)
        /\ <<now, state, next>> \in {<<"builtins", "cut", "copying">>,
                                     <<"copying", "whole", "readme">>}
  BY DEF MirrorBuiltins
<1>2. /\ now \in Preparing /\ next \in Preparing /\ "builtins" \in Parts /\ Notes \subseteq Parts
      /\ "dirs" \in Parts /\ "builtins" \notin Notes
      /\ now \in Filling => About(now) \notin Notes
  BY DEF Preparing, Parts, Notes, Filling, About
<1>3. /\ step[p] = now /\ step' = [step EXCEPT ![p] = next] /\ step'[p] = next
      /\ layout' \in Layouts /\ layout'["builtins"] = state /\ layout'["dirs"] = layout["dirs"]
      /\ \A part \in Notes : layout'[part] = layout[part]
      /\ UNCHANGED <<facts, agents, mirror, toml, opts, ahead, text, recorded, edits,
                     clean, unseen, missed>>
      /\ Own(p)
  BY <1>1, <1>2, LayOutDoes
<1>4. faults' = faults
  BY DEF MirrorBuiltins
<1>5. Preparation(p)'
  <2>1. CASE now = "builtins"
    BY <1>1, <1>3, <2>1 DEF Own, Preparation, Preparing, Parts, Filling
  <2>2. CASE now = "copying"
    BY <1>1, <1>3, <2>2 DEF Own, Preparation, Preparing, Parts, Notes, Filling
  <2> QED
    BY <2>1, <2>2
<1>6. Traced'
  BY <1>2, <1>3, <1>4, TracedStays
<1> QED
  BY <1>2, <1>3, <1>4, <1>5, <1>6, PrepareKeeps

LEMMA WriteNoteKeeps ==
  ASSUME SyncInv, NEW p \in Runners, NEW part, NEW writing, NEW next,
         <<part, writing, next>> \in {<<"readme", "describing", "gitignore">>,
                                      <<"gitignore", "ignoring", "root">>},
         WriteNote(p, part, writing, next)
  PROVE  SyncInv'
<1>1. /\ part \in Parts /\ part \in Preparing /\ writing \in Preparing /\ next \in Preparing
      /\ part \in Notes /\ Notes \subseteq Parts /\ "dirs" \in Parts /\ "builtins" \in Parts
      /\ part \notin {"dirs", "builtins"} /\ part \notin Filling /\ writing \in Filling
      /\ About(writing) = part
  BY DEF Preparing, Parts, Notes, Filling, About
<1>2. layout \in Layouts /\ layout[part] \in {"none", "cut", "whole"}
  BY <1>1 DEF SyncInv, FilesTyped, Layouts
<1>3. PICK now \in {part, writing}, state \in {"none", "cut", "whole"}, to \in {writing, next} :
        /\ LayOut(p, now, part, state, to) /\ state # "none"
        /\ faults' \in {faults, faults + 1}
        /\ \/ now = part /\ to = next /\ state = layout[part] /\ faults' = faults
           \/ now = part /\ to = writing /\ state = "cut"
           \/ now = writing /\ to = next /\ state = "whole"
  BY <1>2 DEF WriteNote, Fault
<1>4. /\ step[p] = now /\ step' = [step EXCEPT ![p] = to] /\ step'[p] = to
      /\ layout' \in Layouts /\ layout'[part] = state
      /\ layout'["dirs"] = layout["dirs"] /\ layout'["builtins"] = layout["builtins"]
      /\ \A other \in Notes \ {part} : layout'[other] = layout[other]
      /\ UNCHANGED <<facts, agents, mirror, toml, opts, ahead, text, recorded, edits,
                     clean, unseen, missed>>
      /\ Own(p)
  BY <1>1, <1>3, LayOutDoes
<1>5. Preparation(p)'
  BY <1>3, <1>4 DEF Own, Preparation, Preparing, Parts, Filling, Notes
<1>6. Traced'
  <2>1. ASSUME NEW other \in Notes, layout'[other] = "cut"
        PROVE  \/ layout[other] = "cut" /\ (step[p] \in Filling => About(step[p]) # other)
               \/ to \in Filling /\ About(to) = other
    BY <1>1, <1>3, <1>4, <2>1
  <2> QED
    BY <1>3, <1>4, <2>1, TracedStays
<1> QED
  BY <1>1, <1>3, <1>4, <1>5, <1>6, PrepareKeeps

LEMMA InitFailsKeeps ==
  ASSUME SyncInv, NEW p \in Runners, InitFails(p)
  PROVE  SyncInv'
<1>1. /\ step[p] \in Preparing /\ step' = [step EXCEPT ![p] = "failed"] /\ step'[p] = "failed"
      /\ ahead' = [ahead EXCEPT ![p] = {}] /\ faults' = faults + 1
      /\ UNCHANGED <<facts, agents, mirror, toml, opts, text, recorded, edits, clean, unseen,
                     missed>>
  BY DEF InitFails, Fault, Goto, history, SyncInv, RunsTyped
<1>2. /\ layout' \in Layouts /\ layout'["dirs"] = layout["dirs"]
      /\ \A part \in Notes : layout[part] # "none" => layout'[part] # "none"
  BY DEF InitFails, CutOff, SyncInv, FilesTyped, Layouts, Parts, Notes, Filling, About
<1>3. Preparation(p)' /\ Traced'
  BY <1>1 DEF Preparation, Traced, SyncInv, Counted
<1> QED
  BY <1>1, <1>2, <1>3, PrepareKeeps

LEMMA WriteRootKeeps ==
  ASSUME SyncInv, NEW p \in Runners, WriteRoot(p)
  PROVE  SyncInv'
<1>1. /\ step[p] = "root" /\ p \in Active /\ Own(p) /\ step[p] \notin Filling
      /\ UNCHANGED <<facts, agents, mirror, toml, layout, opts, recorded, edits, clean, missed>>
  BY DEF WriteRoot, project, SyncInv, Active, Filling
<1>2. PICK seen \in {agents[Root], Absent} :
        /\ Sees(agents[Root], seen)
        /\ IF seen = Absent \/ opts[p].force
           THEN /\ ahead' = [ahead EXCEPT ![p] = @ \cup {Root}]
                /\ text' = [text EXCEPT ![p] = Template]
                /\ unseen' = IF seen # agents[Root] THEN unseen \cup {p} ELSE unseen
                /\ Goto(p, "truncate")
           ELSE Goto(p, "sync") /\ UNCHANGED <<ahead, text, unseen>>
  BY DEF WriteRoot
<1>3. faults' \in {faults, faults + 1} /\ Counted'
  BY <1>1, <1>2, SeesWell
<1>4. CASE ~(seen = Absent \/ opts[p].force)
  <2>1. /\ step' = [step EXCEPT ![p] = "sync"] /\ step'[p] = "sync" /\ agents[Root] # Absent
        /\ UNCHANGED <<ahead, text, unseen>>
    BY <1>2, <1>4 DEF Goto, SyncInv, RunsTyped
  <2>2. Preparation(p)' /\ layout \in Layouts
    BY <1>1, <2>1 DEF Own, Preparation, Preparing, Parts, Filling, SyncInv, FilesTyped
  <2>3. Traced'
    BY <1>1, <1>3, <2>1, TracedStays
  <2> QED
    BY <1>1, <1>3, <1>4, <2>1, <2>2, <2>3, PrepareKeeps DEF Preparing
<1>5. CASE seen = Absent \/ opts[p].force
  <2>1. /\ ahead' = [ahead EXCEPT ![p] = @ \cup {Root}]
        /\ text' = [text EXCEPT ![p] = Template]
        /\ step' = [step EXCEPT ![p] = "truncate"]
        /\ unseen' = IF seen # agents[Root] THEN unseen \cup {p} ELSE unseen
    BY <1>2, <1>5 DEF Goto
  <2>2. /\ ahead'[p] = ahead[p] \cup {Root} /\ text'[p] = Template /\ step'[p] = "truncate"
        /\ ahead'[p] \in SUBSET Dirs
    BY <2>1 DEF SyncInv, RunsTyped, Dirs
  <2>3. Here(p)' = Root
    BY <2>2, RootIsFirst DEF Here
  <2>4. FilesTyped' /\ Traced'
    BY <1>1, <1>3, <2>1, TracedStays DEF SyncInv, FilesTyped
  <2>5. RunsTyped'
    BY <1>1, <2>1, <2>2, TextsDiffer DEF SyncInv, RunsTyped, Syncing
  <2>6. OnlyOf(p)
    BY <1>1, <2>1 DEF OnlyOf, SyncInv, RunsTyped
  <2>7. Writing(p)'
    BY <2>2, TextsDiffer DEF Writing
  <2>8. Keeping(p)'
    BY <1>1, <1>5, <2>1, <2>2, <2>3, TextsDiffer DEF Keeping
  <2>9. Preparation(p)'
    BY <1>1, <2>2 DEF Own, Preparation, Preparing, Parts, Notes, Filling
  <2>11. RootFirst(p)' /\ Mirrored(p)'
    BY <2>2, <2>3 DEF RootFirst, Mirrored, Preparing, Parts, Notes, Filling, Mirroring
  <2>10. Synced(p)'
    <3>1. SyncWalk(opts[p].limit)' = SyncWalk(opts[p].limit)
      BY <1>1 DEF SyncWalk, Entered, ShouldSkipDir
    <3>2. \A d : Describes(agents[d], d)' <=> Describes(agents[d], d)
      BY <1>1 DEF Describes, AnalyzeFolder
    <3> QED
      BY <1>1, <2>2, <2>3, <3>1, <3>2 DEF Own, Synced, Preparing, Parts, Syncing
  <2> QED
    BY <1>1, <1>3, <2>4, <2>5, <2>6, <2>7, <2>8, <2>9, <2>10, <2>11, OneActs DEF Own
<1> QED
  BY <1>4, <1>5

-----------------------------------------------------------------------------
(* The walk that writes AGENTS.md.                                         *)

LEMMA SameWalks ==
  ASSUME NEW p \in Runners, opts' = opts
  PROVE  /\ SyncWalk(opts[p].limit)' = SyncWalk(opts[p].limit)
         /\ MirrorWalk(opts[p].limit)' = MirrorWalk(opts[p].limit)
         /\ SyncWalk(opts[p].limit) \subseteq Folders
         /\ MirrorWalk(opts[p].limit) \subseteq Dirs
BY DEF SyncWalk, MirrorWalk, Entered, ShouldSkipDir, Dirs

\* What one of the two Results records, or a walk misses, comes on top of the rest.
LEMMA RecordGrows ==
  ASSUME SyncInv, NEW p \in Runners, NEW d \in Dirs
  PROVE  /\ Record(p, "sync", d) => /\ recorded' \in [Runners -> Reports]
                                    /\ recorded'[p].sync = recorded[p].sync \cup {d}
                                    /\ recorded'[p].mirror = recorded[p].mirror
         /\ Record(p, "mirror", d) => /\ recorded' \in [Runners -> Reports]
                                      /\ recorded'[p].mirror = recorded[p].mirror \cup {d}
                                      /\ recorded'[p].sync = recorded[p].sync
<1>1. recorded \in [Runners -> Reports] /\ {d} \in SUBSET Dirs
  BY DEF SyncInv, RunsTyped
<1>2. Record(p, "sync", d) => recorded' = [recorded EXCEPT ![p].sync = @ \cup {d}]
  BY DEF Record
<1>3. Record(p, "mirror", d) => recorded' = [recorded EXCEPT ![p].mirror = @ \cup {d}]
  BY DEF Record
<1>4. ASSUME Record(p, "sync", d)
      PROVE  /\ recorded' \in [Runners -> Reports]
             /\ recorded'[p].sync = recorded[p].sync \cup {d} /\ recorded'[p].mirror = recorded[p].mirror
  <2> DEFINE v == [recorded[p] EXCEPT !.sync = @ \cup {d}]
  <2>1. recorded' = [recorded EXCEPT ![p] = v]
    BY <1>1, <1>2, <1>4
  <2>2. v \in Reports /\ v.sync = recorded[p].sync \cup {d} /\ v.mirror = recorded[p].mirror
    BY <1>1 DEF Reports
  <2> HIDE DEF v
  <2> QED
    BY <1>1, <2>1, <2>2
<1>5. ASSUME Record(p, "mirror", d)
      PROVE  /\ recorded' \in [Runners -> Reports]
             /\ recorded'[p].mirror = recorded[p].mirror \cup {d} /\ recorded'[p].sync = recorded[p].sync
  <2> DEFINE v == [recorded[p] EXCEPT !.mirror = @ \cup {d}]
  <2>1. recorded' = [recorded EXCEPT ![p] = v]
    BY <1>1, <1>3, <1>5
  <2>2. v \in Reports /\ v.mirror = recorded[p].mirror \cup {d} /\ v.sync = recorded[p].sync
    BY <1>1 DEF Reports
  <2> HIDE DEF v
  <2> QED
    BY <1>1, <2>1, <2>2
<1> QED
  BY <1>4, <1>5

LEMMA MissGrows ==
  ASSUME SyncInv, NEW p \in Runners, NEW S \in SUBSET Dirs
  PROVE  /\ Miss(p, "sync", S) => /\ missed' \in [Runners -> Reports]
                                  /\ missed'[p].sync = missed[p].sync \cup S
                                  /\ missed'[p].mirror = missed[p].mirror
         /\ Miss(p, "mirror", S) => /\ missed' \in [Runners -> Reports]
                                    /\ missed'[p].mirror = missed[p].mirror \cup S
                                    /\ missed'[p].sync = missed[p].sync
<1>1. missed \in [Runners -> Reports]
  BY DEF SyncInv, RunsTyped
<1>2. Miss(p, "sync", S) => missed' = [missed EXCEPT ![p].sync = @ \cup S]
  BY DEF Miss
<1>3. Miss(p, "mirror", S) => missed' = [missed EXCEPT ![p].mirror = @ \cup S]
  BY DEF Miss
<1>4. ASSUME Miss(p, "sync", S)
      PROVE  /\ missed' \in [Runners -> Reports]
             /\ missed'[p].sync = missed[p].sync \cup S /\ missed'[p].mirror = missed[p].mirror
  <2> DEFINE v == [missed[p] EXCEPT !.sync = @ \cup S]
  <2>1. missed' = [missed EXCEPT ![p] = v]
    BY <1>1, <1>2, <1>4
  <2>2. v \in Reports /\ v.sync = missed[p].sync \cup S /\ v.mirror = missed[p].mirror
    BY <1>1 DEF Reports
  <2> HIDE DEF v
  <2> QED
    BY <1>1, <2>1, <2>2
<1>5. ASSUME Miss(p, "mirror", S)
      PROVE  /\ missed' \in [Runners -> Reports]
             /\ missed'[p].mirror = missed[p].mirror \cup S /\ missed'[p].sync = missed[p].sync
  <2> DEFINE v == [missed[p] EXCEPT !.mirror = @ \cup S]
  <2>1. missed' = [missed EXCEPT ![p] = v]
    BY <1>1, <1>3, <1>5
  <2>2. v \in Reports /\ v.mirror = missed[p].mirror \cup S /\ v.sync = missed[p].sync
    BY <1>1 DEF Reports
  <2> HIDE DEF v
  <2> QED
    BY <1>1, <2>1, <2>2
<1> QED
  BY <1>4, <1>5

\* A run is done with a folder: it has its text, or is recorded, or the run is a preview.
LEMMA SyncAdvances ==
  ASSUME SyncInv, NEW p \in Runners, NEW next \in {"sync", "failed"},
         step[p] \in Syncing, ahead[p] # {},
         step' = [step EXCEPT ![p] = next], Advance(p),
         recorded' = recorded \/ Record(p, "sync", Here(p)),
         UNCHANGED <<facts, mirror, toml, layout, opts, edits, clean, missed>>,
         faults' \in {faults, faults + 1},
         agents' \in [Dirs -> Sources],
         \A d \in Dirs : \/ agents'[d] = agents[d]
                         \/ d = Here(p) /\ agents'[d] # Custom /\ agents'[d] # Absent,
         next = "sync" /\ Here(p) = Root /\ clean[p] /\ opts[p].kind = "init" =>
           agents'[Root] = Template,
         next = "sync" /\ Here(p) # Root /\ clean[p] /\ ~opts[p].dry =>
           Here(p) \in recorded'[p].sync \/ Describes(agents'[Here(p)], Here(p))
  PROVE  SyncInv'
<1>1. /\ p \in Active /\ Own(p) /\ step'[p] = next /\ step[p] \notin Filling
      /\ ahead'[p] = ahead[p] \ {Here(p)} /\ Here(p) \in ahead[p] /\ Here(p) \in Dirs
  BY FirstIsAhead DEF Advance, SyncInv, RunsTyped, Active, Syncing, Here, Filling
<1>2. FilesTyped' /\ Counted'
  BY DEF SyncInv, FilesTyped, Counted
<1>3. recorded' \in [Runners -> Reports] /\ recorded[p].sync \subseteq recorded'[p].sync
  BY <1>1, RecordGrows DEF SyncInv, RunsTyped
<1>4. RunsTyped'
  <2>1. /\ ahead' \in [Runners -> SUBSET Dirs] /\ text' \in [Runners -> Texts]
        /\ unseen' \subseteq Runners
    BY TextsDiffer DEF Advance, SyncInv, RunsTyped
  <2>2. step' \in [Runners -> Preparing \cup Syncing \cup Mirroring \cup Ended]
    BY DEF SyncInv, RunsTyped, Syncing, Ended
  <2> QED
    BY <1>3, <2>1, <2>2 DEF SyncInv, RunsTyped
<1>5. OnlyOf(p)
  BY DEF OnlyOf, Advance, SyncInv, RunsTyped
<1>6. Traced'
  BY <1>1, TracedStays
<1>7. Writing(p)' /\ Keeping(p)' /\ Mirrored(p)'
  BY <1>1 DEF Writing, Keeping, Mirrored, Mirroring
<1>8. Preparation(p)'
  BY <1>1 DEF Own, Preparation, Preparing, Parts, Notes, Filling, Syncing
<1>9. RootFirst(p)'
  <2>1. next = "sync" => Root \notin ahead'[p]
    BY <1>1 DEF Own, RootFirst, Syncing
  <2>2. clean[p] /\ opts[p].kind = "init" /\ next = "sync" =>
          agents'[Root] # Absent /\ (opts[p].force => agents'[Root] = Template)
    <3>1. agents'[Root] = agents[Root] \/ Here(p) = Root
      BY DEF Dirs
    <3> QED
      BY <1>1, <3>1, TextsDiffer DEF Own, RootFirst
  <2>3. next \notin {"truncate", "write", "done"} \cup Mirroring /\ "failed" \notin Preparing
        /\ "failed" \notin Syncing
    BY DEF Preparing, Parts, Notes, Filling, Mirroring, Syncing
  <2> QED
    BY <1>1, <2>1, <2>2, <2>3 DEF RootFirst
<1>10. Synced(p)'
  <2>1. ASSUME clean[p], ~opts[p].dry, next = "sync", NEW d \in SyncWalk(opts[p].limit)
        PROVE  \/ d \in recorded'[p].sync \cup missed[p].sync
               \/ Describes(agents[d], d)' \/ d \in ahead'[p]
    <3>1. d \in Folders /\ d # Root /\ d \in Dirs
      BY RootAssumption, SameWalks DEF Dirs
    <3>2. \/ d \in recorded[p].sync \cup missed[p].sync
          \/ Describes(agents[d], d) \/ d \in ahead[p]
      BY <1>1, <2>1 DEF Own, Synced, Syncing
    <3>3. agents[d] # Absent => agents'[d] # Absent
      BY <3>1
    <3>4. 0..AnalyzeFolder(d).md \subseteq 0..AnalyzeFolder(d)'.md
      BY <3>1, <3>3, AnalysisGrows
    <3>5. CASE d \in recorded[p].sync \cup missed[p].sync \/ d \in ahead'[p]
      BY <1>3, <3>5
    <3>6. CASE d = Here(p)
      BY <2>1, <3>1, <3>4, <3>6 DEF Describes
    <3>7. CASE d # Here(p) /\ Describes(agents[d], d)
      BY <3>1, <3>4, <3>7 DEF Describes
    <3> QED
      BY <1>1, <3>2, <3>5, <3>6, <3>7
  <2> QED
    BY <1>1, <2>1, SameWalks DEF Synced, Syncing
<1> QED
  BY <1>1, <1>2, <1>4, <1>5, <1>6, <1>7, <1>8, <1>9, <1>10, OneActs DEF Own

LEMMA AnalyzeKeeps ==
  ASSUME SyncInv, NEW p \in Runners, Analyze(p)
  PROVE  SyncInv'
<1> DEFINE d == Here(p)
<1>1. /\ step[p] = "sync" /\ step[p] \in Syncing /\ ahead[p] # {} /\ p \in Active /\ Own(p)
      /\ d \in ahead[p] /\ d \in Dirs /\ step = [step EXCEPT ![p] = "sync"]
      /\ UNCHANGED <<facts, agents, mirror, toml, layout, opts, edits, clean, missed>>
      /\ step[p] \notin Filling
  BY FirstIsAhead DEF Analyze, project, SyncInv, RunsTyped, Active, Here, Syncing, Filling
<1>2. d # Root
  BY <1>1 DEF Own, RootFirst
<1>3. agents \in [Dirs -> Sources] /\ recorded \in [Runners -> Reports] /\ {d} \in SUBSET Dirs
  BY <1>1 DEF SyncInv, FilesTyped, RunsTyped
<1>4. CASE Record(p, "sync", d) /\ Advance(p) /\ UNCHANGED step
           /\ faults' \in {faults, faults + 1}
  <2>1. d \in recorded'[p].sync
    BY <1>1, <1>4, RecordGrows
  <2> QED
    BY <1>1, <1>2, <1>3, <1>4, <2>1, SyncAdvances
<1>5. ASSUME NEW seen, Sees(agents[d], seen), opts[p].dry, Advance(p), UNCHANGED <<step, recorded>>
      PROVE  SyncInv'
  <2>1. faults' \in {faults, faults + 1}
    BY <1>5, SeesWell
  <2> QED
    BY <1>1, <1>2, <1>3, <1>5, <2>1, SyncAdvances
<1>6. ASSUME NEW seen, Sees(agents[d], seen), Writable(p, seen), ~opts[p].dry,
             text' = [text EXCEPT ![p] = Body(AnalyzeFolder(d))],
             unseen' = IF seen # agents[d] THEN unseen \cup {p} ELSE unseen,
             Goto(p, "truncate"), UNCHANGED <<ahead, recorded>>
      PROVE  SyncInv'
  <2>1. faults' \in {faults, faults + 1} /\ Counted'
    BY <1>1, <1>6, SeesWell
  <2>2. AnalyzeFolder(d) \in Analyses
    BY <1>1 DEF AnalyzeFolder, Analyses, SyncInv, FilesTyped
  <2>3. /\ text'[p] = Body(AnalyzeFolder(d)) /\ step' = [step EXCEPT ![p] = "truncate"]
        /\ step'[p] = "truncate" /\ Here(p)' = d
    BY <1>1, <1>6 DEF SyncInv, RunsTyped, Goto, Here
  <2>4. FilesTyped' /\ Traced'
    BY <1>1, <2>1, <2>3, TracedStays DEF SyncInv, FilesTyped
  <2>5. RunsTyped'
    <3>1. text' \in [Runners -> Texts] /\ unseen' \subseteq Runners
      BY <1>6, <2>2, TextsDiffer DEF SyncInv, RunsTyped
    <3>2. step' \in [Runners -> Preparing \cup Syncing \cup Mirroring \cup Ended]
      BY <2>3 DEF SyncInv, RunsTyped, Syncing
    <3> QED
      BY <1>1, <1>6, <3>1, <3>2 DEF SyncInv, RunsTyped
  <2>6. OnlyOf(p)
    BY <1>1, <1>6 DEF OnlyOf, SyncInv, RunsTyped, Goto
  <2>7. Writing(p)'
    BY <1>1, <1>6, <2>2, <2>3, TextsDiffer DEF Writing
  <2>8. Keeping(p)'
    BY <1>1, <1>6, <2>3, WritableIsNoUsers DEF Keeping
  <2>9. Preparation(p)' /\ Mirrored(p)'
    BY <1>1, <2>3 DEF Own, Preparation, Mirrored, Preparing, Parts, Notes, Filling, Mirroring
  <2>10. RootFirst(p)'
    BY <1>1, <1>2, <1>6, <2>3 DEF Own, RootFirst, Preparing, Parts, Notes, Filling, Syncing,
                                  Mirroring
  <2>11. Describes(text[p], Here(p))'
    <3>1. AnalyzeFolder(Here(p))' = AnalyzeFolder(d)
      BY <1>1, <2>3 DEF AnalyzeFolder
    <3>2. AnalyzeFolder(d) = [facts |-> facts[d], md |-> AnalyzeFolder(d).md]
          /\ AnalyzeFolder(d).md \in 0..AnalyzeFolder(d).md
      BY DEF AnalyzeFolder
    <3> QED
      BY <1>1, <2>3, <3>1, <3>2 DEF Describes
  <2>12. Synced(p)'
    <3>1. \A e : Describes(agents[e], e)' <=> Describes(agents[e], e)
      BY <1>1 DEF Describes, AnalyzeFolder
    <3> QED
      BY <1>1, <1>6, <2>3, <2>11, <3>1, SameWalks DEF Own, Synced, Syncing
  <2> QED
    BY <1>1, <2>1, <2>4, <2>5, <2>6, <2>7, <2>8, <2>9, <2>10, <2>12, OneActs DEF Own
<1>7. \/ Record(p, "sync", d) /\ Advance(p) /\ UNCHANGED step /\ faults' \in {faults, faults + 1}
      \/ \E seen \in {agents[d], Absent} :
           /\ Sees(agents[d], seen)
           /\ \/ ~Writable(p, seen) /\ Record(p, "sync", d) /\ Advance(p) /\ UNCHANGED step
              \/ /\ Writable(p, seen) /\ opts[p].dry
                 /\ Advance(p) /\ UNCHANGED <<step, recorded>>
              \/ /\ Writable(p, seen) /\ ~opts[p].dry
                 /\ text' = [text EXCEPT ![p] = Body(AnalyzeFolder(d))]
                 /\ unseen' = IF seen # agents[d] THEN unseen \cup {p} ELSE unseen
                 /\ Goto(p, "truncate") /\ UNCHANGED <<ahead, recorded>>
  BY DEF Analyze, Fault
<1> HIDE DEF d
<1> QED
  BY <1>4, <1>5, <1>6, <1>7, SeesWell

\* The walk goes on without what it has not got, and the run says nothing of it.
LEMMA WalkMissesKeeps ==
  ASSUME SyncInv, NEW p \in Runners, WalkMisses(p)
  PROVE  SyncInv'
<1>1. /\ step[p] \in {"sync", "mirror"} /\ p \in Active /\ Own(p) /\ step[p] \notin Filling
      /\ UNCHANGED <<facts, agents, mirror, toml, layout, step, opts, text, recorded, edits, clean,
                     unseen>>
      /\ faults' = faults + 1 /\ step = [step EXCEPT ![p] = step[p]]
  BY DEF WalkMisses, Fault, project, SyncInv, RunsTyped, Active, Filling
<1>2. PICK gone \in SUBSET (ahead[p] \ {Root}) :
        /\ ahead' = [ahead EXCEPT ![p] = @ \ gone]
        /\ Miss(p, step[p], gone)
  BY DEF WalkMisses
<1>3. ahead'[p] = ahead[p] \ gone /\ gone \in SUBSET Dirs /\ missed \in [Runners -> Reports]
  BY <1>2 DEF SyncInv, RunsTyped
<1>4. /\ missed' \in [Runners -> Reports]
      /\ missed[p].sync \subseteq missed'[p].sync /\ missed[p].mirror \subseteq missed'[p].mirror
      /\ step[p] = "sync" => gone \subseteq missed'[p].sync
      /\ step[p] = "mirror" => gone \subseteq missed'[p].mirror
  BY <1>1, <1>2, <1>3, MissGrows
<1>5. FilesTyped' /\ Counted' /\ Traced'
  BY <1>1 DEF SyncInv, FilesTyped, Counted, Traced
<1>6. RunsTyped'
  BY <1>1, <1>2, <1>4 DEF SyncInv, RunsTyped
<1>7. OnlyOf(p)
  BY <1>1, <1>2 DEF OnlyOf, SyncInv, RunsTyped
<1>8. Writing(p)' /\ Keeping(p)' /\ Preparation(p)'
  BY <1>1 DEF Own, Writing, Keeping, Preparation
<1>9. RootFirst(p)'
  BY <1>1, <1>3 DEF Own, RootFirst
<1>10. \A e : Describes(agents[e], e)' <=> Describes(agents[e], e)
  BY <1>1 DEF Describes, AnalyzeFolder
<1>11. Synced(p)'
  BY <1>1, <1>3, <1>4, <1>10, SameWalks DEF Own, Synced, Preparing, Parts, Notes, Filling, Syncing
<1>12. Mirrored(p)'
  BY <1>1, <1>3, <1>4, SameWalks DEF Own, Mirrored, Mirroring
<1> QED
  BY <1>1, <1>5, <1>6, <1>7, <1>8, <1>9, <1>11, <1>12, OneActs DEF Own

LEMMA TruncateKeeps ==
  ASSUME SyncInv, NEW p \in Runners, Truncate(p)
  PROVE  SyncInv'
<1> DEFINE d == Here(p)
<1>1. /\ step[p] = "truncate" /\ step' = [step EXCEPT ![p] = "write"] /\ p \in Active /\ Own(p)
      /\ agents' = [agents EXCEPT ![d] = Stub] /\ step[p] \notin Filling
      /\ UNCHANGED <<facts, mirror, toml, layout, opts, ahead, text, recorded, edits, faults, clean,
                     unseen, missed>>
  BY DEF Truncate, Goto, SyncInv, Active, counts, history, Filling
<1>2. d \in ahead[p] /\ d \in Dirs /\ Here(p)' = d /\ step'[p] = "write" /\ agents'[d] = Stub
      /\ \A e \in Dirs \ {d} : agents'[e] = agents[e]
  BY <1>1, FirstIsAhead DEF Own, Writing, Here, SyncInv, RunsTyped, FilesTyped
<1>3. FilesTyped' /\ RunsTyped' /\ Counted' /\ Traced'
  <2>1. FilesTyped' /\ Counted' /\ Traced'
    BY <1>1, TextsDiffer, TracedStays DEF SyncInv, FilesTyped, Counted
  <2>2. RunsTyped'
    BY <1>1 DEF SyncInv, RunsTyped, Syncing
  <2> QED
    BY <2>1, <2>2
<1>4. OnlyOf(p)
  BY <1>1, <1>2, TextsDiffer DEF OnlyOf, SyncInv, RunsTyped, FilesTyped
<1>5. Writing(p)' /\ Preparation(p)' /\ Mirrored(p)'
  BY <1>1, <1>2 DEF Own, Writing, Preparation, Mirrored, Preparing, Parts, Notes, Filling, Mirroring
<1>6. Keeping(p)'
  BY <1>1, <1>2, TextsDiffer DEF Keeping
<1>7. RootFirst(p)'
  BY <1>1, <1>2, TextsDiffer DEF Own, RootFirst, Preparing, Parts, Notes, Filling, Syncing, Mirroring,
                                 Dirs
<1>8. ASSUME NEW e \in Dirs
      PROVE  /\ facts'[e] = facts[e]
             /\ 0..AnalyzeFolder(e).md \subseteq 0..AnalyzeFolder(e)'.md
  BY <1>1, <1>2, <1>8, TextsDiffer, AnalysisGrows
<1>9. Synced(p)'
  <2>1. clean[p] => Here(p) = Root \/ Describes(text[p], Here(p))'
    BY <1>1, <1>2, <1>8 DEF Own, Synced, Describes
  <2>2. ASSUME clean[p], ~opts[p].dry, NEW e \in SyncWalk(opts[p].limit)
        PROVE  \/ e \in recorded[p].sync \cup missed[p].sync
               \/ Describes(agents[e], e)' \/ e \in ahead[p]
    <3>1. \/ e \in recorded[p].sync \cup missed[p].sync
          \/ Describes(agents[e], e) \/ e \in ahead[p]
      BY <1>1, <2>2 DEF Own, Synced
    <3>2. e \in Dirs
      BY SameWalks, <1>1 DEF Dirs
    <3> QED
      BY <1>1, <1>2, <1>8, <3>1, <3>2 DEF Describes
  <2> QED
    BY <1>1, <1>2, <2>1, <2>2, SameWalks DEF Synced, Syncing
<1> QED
  BY <1>1, <1>3, <1>4, <1>5, <1>6, <1>7, <1>9, OneActs DEF Own

LEMMA WriteKeeps ==
  ASSUME SyncInv, NEW p \in Runners, Write(p)
  PROVE  SyncInv'
<1> DEFINE d == Here(p)
<1>1. /\ step[p] = "write" /\ step[p] \in Syncing /\ p \in Active /\ Own(p)
      /\ step' = [step EXCEPT ![p] = "sync"] /\ Advance(p) /\ recorded' = recorded
      /\ UNCHANGED <<facts, mirror, toml, layout, opts, edits, faults, clean, missed>>
  BY DEF Write, Goto, counts, SyncInv, Active, Syncing
<1>2. /\ d \in Dirs /\ ahead[p] # {} /\ text[p] \in Sources /\ text[p] # Absent /\ text[p] # Custom
      /\ agents \in [Dirs -> Sources]
  BY <1>1, FirstIsAhead DEF Own, Writing, Here, SyncInv, RunsTyped, FilesTyped
<1>3. PICK f \in After(agents[d], text[p]) : agents' = [agents EXCEPT ![d] = f]
  BY DEF Write
<1>4. f = agents[d] \/ (f \in Sources /\ f # Custom /\ f # Absent)
  BY <1>2, <1>3, TextsDiffer DEF After
<1>5. agents' \in [Dirs -> Sources] /\ agents'[d] = f /\ \A e \in Dirs : e = d \/ agents'[e] = agents[e]
  BY <1>2, <1>3, <1>4
<1>6. clean[p] => f = text[p]
  BY <1>1, <1>3 DEF Own, Synced, After
<1>7. clean[p] => d = Root \/ Describes(text[p], d)
  BY <1>1 DEF Own, Synced
<1>8. d = Root /\ clean[p] /\ opts[p].kind = "init" => agents'[Root] = Template
  BY <1>1, <1>5, <1>6 DEF Own, RootFirst
<1>9. clean[p] /\ d # Root => Describes(agents'[d], d)
  BY <1>5, <1>6, <1>7
<1> QED
  BY <1>1, <1>2, <1>4, <1>5, <1>8, <1>9, SyncAdvances

LEMMA WriteFailsKeeps ==
  ASSUME SyncInv, NEW p \in Runners, WriteFails(p)
  PROVE  SyncInv'
<1> DEFINE d == Here(p)
           next == IF d = Root THEN "failed" ELSE "sync"
<1>1. /\ step[p] \in {"truncate", "write"} /\ step[p] \in Syncing /\ p \in Active /\ Own(p)
      /\ step' = [step EXCEPT ![p] = next] /\ Advance(p) /\ Record(p, "sync", d)
      /\ UNCHANGED <<facts, mirror, toml, layout, opts, edits, clean, missed>>
      /\ faults' = faults + 1
  BY DEF WriteFails, GiveUp, Goto, Fault, SyncInv, Active, Syncing
<1>2. d \in Dirs /\ ahead[p] # {} /\ agents \in [Dirs -> Sources]
  BY <1>1, FirstIsAhead DEF Own, Writing, Here, SyncInv, RunsTyped, FilesTyped
<1>3. agents' = agents \/ agents' = [agents EXCEPT ![d] = Part]
  BY DEF WriteFails, GiveUp
<1>4. /\ agents' \in [Dirs -> Sources]
      /\ \A e \in Dirs : agents'[e] = agents[e]
                         \/ (e = d /\ agents'[e] # Custom /\ agents'[e] # Absent)
  BY <1>2, <1>3, TextsDiffer
<1>5. d \in recorded'[p].sync
  BY <1>1, <1>2, RecordGrows
<1>6. next \in {"sync", "failed"} /\ (next = "sync" => d # Root)
  OBVIOUS
<1> HIDE DEF next
<1> QED
  BY <1>1, <1>2, <1>4, <1>5, <1>6, SyncAdvances

LEMMA EndSyncKeeps ==
  ASSUME SyncInv, NEW p \in Runners, EndSync(p)
  PROVE  SyncInv'
<1>1. /\ step[p] = "sync" /\ ahead[p] = {} /\ p \in Active /\ Own(p) /\ step[p] \notin Filling
      /\ UNCHANGED <<facts, agents, mirror, toml, layout, opts, text, recorded, edits, clean, unseen>>
  BY DEF EndSync, project, SyncInv, Active, Filling
<1>2. /\ MirrorWalk(opts[p].limit) \in SUBSET Dirs
      /\ SyncWalk(opts[p].limit)' = SyncWalk(opts[p].limit)
      /\ MirrorWalk(opts[p].limit)' = MirrorWalk(opts[p].limit)
  BY <1>1, SameWalks
<1>3. PICK next \in {"mirror", "done"} :
        /\ step' = [step EXCEPT ![p] = next]
        /\ next = "mirror" => /\ ahead' = [ahead EXCEPT ![p] = MirrorWalk(opts[p].limit)]
                              /\ missed' = missed
        /\ next = "done" => ahead' = ahead
        /\ next = "done" /\ (toml = "on" \/ opts[p].kind = "init") =>
              Miss(p, "mirror", MirrorWalk(opts[p].limit))
        /\ missed' = missed \/ Miss(p, "mirror", MirrorWalk(opts[p].limit))
        /\ faults' \in {faults, faults + 1}
  BY DEF EndSync, Goto, Fault
<1>4. /\ step'[p] = next
      /\ next = "mirror" => ahead'[p] = MirrorWalk(opts[p].limit)
      /\ next = "done" => ahead'[p] = ahead[p]
      /\ ahead' \in [Runners -> SUBSET Dirs]
  BY <1>2, <1>3 DEF SyncInv, RunsTyped
<1>5. /\ missed' \in [Runners -> Reports] /\ missed'[p].sync = missed[p].sync
      /\ next = "done" /\ (toml = "on" \/ opts[p].kind = "init") =>
            MirrorWalk(opts[p].limit) \subseteq missed'[p].mirror
  <2>1. missed \in [Runners -> Reports]
    BY DEF SyncInv, RunsTyped
  <2> QED
    BY <1>2, <1>3, <2>1, MissGrows
<1>6. FilesTyped' /\ Counted' /\ Traced'
  <2>1. FilesTyped' /\ Counted'
    BY <1>1, <1>3 DEF SyncInv, FilesTyped, Counted
  <2>2. Traced'
    BY <1>1, <1>3, TracedStays
  <2> QED
    BY <2>1, <2>2
<1>7. RunsTyped'
  BY <1>1, <1>3, <1>4, <1>5 DEF SyncInv, RunsTyped, Mirroring, Ended
<1>8. OnlyOf(p)
  <2>1. \A q \in Runners \ {p} : step'[q] = step[q] /\ ahead'[q] = ahead[q]
    BY <1>3 DEF SyncInv, RunsTyped
  <2> QED
    BY <1>1, <2>1 DEF OnlyOf
<1>9. Writing(p)' /\ Keeping(p)' /\ Preparation(p)'
  BY <1>1, <1>4 DEF Own, Writing, Keeping, Preparation, Preparing, Parts, Notes, Filling
<1>10. RootFirst(p)'
  BY <1>1, <1>4 DEF Own, RootFirst, Preparing, Parts, Notes, Filling, Syncing
<1>11. Synced(p)'
  <2>1. \A e : Describes(agents[e], e)' <=> Describes(agents[e], e)
    BY <1>1 DEF Describes, AnalyzeFolder
  <2> QED
    BY <1>1, <1>2, <1>4, <1>5, <2>1 DEF Own, Synced, Preparing, Parts, Notes, Filling, Syncing
<1>12. Mirrored(p)'
  BY <1>1, <1>2, <1>4, <1>5 DEF Mirrored, Mirroring
<1> QED
  BY <1>1, <1>6, <1>7, <1>8, <1>9, <1>10, <1>11, <1>12, OneActs DEF Own

-----------------------------------------------------------------------------
(* The walk that mirrors each AGENTS.md into CLAUDE.md.                    *)

\* A run is done with a folder's mirror: it is there, or recorded, or the run is a preview.
LEMMA MirrorAdvances ==
  ASSUME SyncInv, NEW p \in Runners,
         step[p] \in Mirroring, ahead[p] # {},
         step' = [step EXCEPT ![p] = "mirror"], Advance(p),
         recorded' = recorded \/ Record(p, "mirror", Here(p)),
         missed' = missed \/ Miss(p, "mirror", {Here(p)}),
         UNCHANGED <<facts, agents, toml, layout, opts, edits, clean>>,
         faults' \in {faults, faults + 1},
         mirror' \in [Dirs -> Texts],
         \A d \in Dirs : \/ mirror'[d] = mirror[d]
                         \/ d = Here(p) /\ mirror'[d] # Custom /\ mirror'[d] # Absent,
         clean[p] /\ ~opts[p].dry =>
           \/ agents[Here(p)] = Absent
           \/ Here(p) \in recorded'[p].mirror \cup missed'[p].mirror
           \/ mirror'[Here(p)] = Copy(agents[Here(p)])
  PROVE  SyncInv'
<1>1. /\ p \in Active /\ Own(p) /\ step'[p] = "mirror" /\ step[p] \notin Filling
      /\ ahead'[p] = ahead[p] \ {Here(p)} /\ Here(p) \in ahead[p] /\ Here(p) \in Dirs
  BY FirstIsAhead DEF Advance, SyncInv, RunsTyped, Active, Mirroring, Here, Filling
<1>2. FilesTyped' /\ Counted' /\ Traced'
  <2>1. FilesTyped' /\ Counted'
    BY DEF SyncInv, FilesTyped, Counted
  <2>2. Traced'
    BY <1>1, TracedStays
  <2> QED
    BY <2>1, <2>2
<1>3. /\ recorded' \in [Runners -> Reports] /\ missed' \in [Runners -> Reports]
      /\ recorded[p].mirror \subseteq recorded'[p].mirror /\ recorded'[p].sync = recorded[p].sync
      /\ missed[p].mirror \subseteq missed'[p].mirror /\ missed'[p].sync = missed[p].sync
  <2>1. recorded \in [Runners -> Reports] /\ missed \in [Runners -> Reports]
        /\ {Here(p)} \in SUBSET Dirs
    BY <1>1 DEF SyncInv, RunsTyped
  <2> QED
    BY <1>1, <2>1, RecordGrows, MissGrows
<1>4. RunsTyped'
  <2>1. /\ ahead' \in [Runners -> SUBSET Dirs] /\ text' \in [Runners -> Texts]
        /\ unseen' \subseteq Runners
    BY TextsDiffer DEF Advance, SyncInv, RunsTyped
  <2>2. step' \in [Runners -> Preparing \cup Syncing \cup Mirroring \cup Ended]
    BY DEF SyncInv, RunsTyped, Mirroring
  <2> QED
    BY <1>3, <2>1, <2>2 DEF SyncInv, RunsTyped
<1>5. OnlyOf(p)
  BY DEF OnlyOf, Advance, SyncInv, RunsTyped
<1>6. Writing(p)' /\ Keeping(p)'
  BY <1>1 DEF Writing, Keeping
<1>7. Preparation(p)'
  BY <1>1 DEF Own, Preparation, Preparing, Parts, Notes, Filling, Mirroring
<1>8. RootFirst(p)'
  BY <1>1 DEF Own, RootFirst, Preparing, Parts, Notes, Filling, Syncing, Mirroring
<1>9. Synced(p)'
  <2>1. ASSUME NEW d \in SyncWalk(opts[p].limit), Describes(agents[d], d)
        PROVE  Describes(agents[d], d)'
    <3>1. d \in Dirs /\ (mirror[d] # Absent => mirror'[d] # Absent)
      BY SameWalks DEF Dirs
    <3>2. 0..AnalyzeFolder(d).md \subseteq 0..AnalyzeFolder(d)'.md
      BY <3>1, AnalysisGrows
    <3> QED
      BY <2>1, <3>2 DEF Describes
  <2> QED
    BY <1>1, <1>3, <2>1, SameWalks DEF Own, Synced, Preparing, Parts, Notes, Filling, Syncing,
                                       Mirroring
<1>10. Mirrored(p)'
  <2>1. ASSUME clean[p], ~opts[p].dry, NEW d \in MirrorWalk(opts[p].limit)
        PROVE  \/ agents[d] = Absent \/ d \in recorded'[p].mirror \cup missed'[p].mirror
               \/ mirror'[d] = Copy(agents[d]) \/ d \in ahead'[p]
    <3>1. d \in Dirs
      BY SameWalks
    <3>2. \/ agents[d] = Absent \/ d \in recorded[p].mirror \cup missed[p].mirror
          \/ mirror[d] = Copy(agents[d]) \/ d \in ahead[p]
      BY <1>1, <2>1 DEF Own, Mirrored
    <3> QED
      BY <1>1, <1>3, <2>1, <3>1, <3>2
  <2> QED
    BY <1>1, <2>1, SameWalks DEF Mirrored, Mirroring
<1> QED
  BY <1>1, <1>2, <1>4, <1>5, <1>6, <1>7, <1>8, <1>9, <1>10, OneActs DEF Own

\* A step within one folder changes its mirror only, and keeps the run's place in the walk.
LEMMA MirrorStays ==
  ASSUME SyncInv, NEW p \in Runners, NEW next \in {"compare", "mtruncate", "mwrite"},
         step[p] \in Mirroring, ahead[p] # {},
         step' = [step EXCEPT ![p] = next],
         NEW s \in Texts, text' = [text EXCEPT ![p] = s], s # Absent, s # Custom,
         clean[p] => s = Copy(agents[Here(p)]) /\ agents[Here(p)] # Absent,
         UNCHANGED <<facts, agents, toml, layout, opts, ahead, recorded, edits, clean, missed>>,
         unseen' = unseen \/ unseen' = unseen \cup {p}, faults' \in {faults, faults + 1},
         mirror' \in [Dirs -> Texts],
         \A d \in Dirs : \/ mirror'[d] = mirror[d]
                         \/ d = Here(p) /\ mirror'[d] # Custom /\ mirror'[d] # Absent,
         next = "mtruncate" /\ ~opts[p].force /\ p \notin unseen' => mirror'[Here(p)] # Custom,
         next = "mwrite" => mirror'[Here(p)] = Stub
  PROVE  SyncInv'
<1>1. /\ p \in Active /\ Own(p) /\ step'[p] = next /\ text'[p] = s /\ step[p] \notin Filling
      /\ Here(p) \in ahead[p] /\ Here(p) \in Dirs /\ Here(p)' = Here(p)
  BY FirstIsAhead DEF SyncInv, RunsTyped, Active, Mirroring, Here, Filling
<1>2. FilesTyped' /\ Counted' /\ Traced'
  <2>1. FilesTyped' /\ Counted'
    BY DEF SyncInv, FilesTyped, Counted
  <2>2. Traced'
    BY <1>1, TracedStays
  <2> QED
    BY <2>1, <2>2
<1>3. RunsTyped'
  BY DEF SyncInv, RunsTyped, Mirroring
<1>4. OnlyOf(p)
  BY DEF OnlyOf, SyncInv, RunsTyped
<1>5. Writing(p)' /\ Keeping(p)'
  BY <1>1, TextsDiffer DEF Writing, Keeping
<1>6. Preparation(p)'
  BY <1>1 DEF Own, Preparation, Preparing, Parts, Notes, Filling, Mirroring
<1>7. RootFirst(p)'
  BY <1>1 DEF Own, RootFirst, Preparing, Parts, Notes, Filling, Syncing, Mirroring
<1>8. Synced(p)'
  <2>1. ASSUME NEW d \in SyncWalk(opts[p].limit), Describes(agents[d], d)
        PROVE  Describes(agents[d], d)'
    <3>1. d \in Dirs /\ (mirror[d] # Absent => mirror'[d] # Absent)
      BY SameWalks DEF Dirs
    <3>2. 0..AnalyzeFolder(d).md \subseteq 0..AnalyzeFolder(d)'.md
      BY <3>1, AnalysisGrows
    <3> QED
      BY <2>1, <3>2 DEF Describes
  <2> QED
    BY <1>1, <2>1, SameWalks DEF Own, Synced, Preparing, Parts, Notes, Filling, Syncing, Mirroring
<1>9. Mirrored(p)'
  <2>1. ASSUME clean[p], ~opts[p].dry, NEW d \in MirrorWalk(opts[p].limit)
        PROVE  \/ agents[d] = Absent \/ d \in recorded[p].mirror \cup missed[p].mirror
               \/ mirror'[d] = Copy(agents[d]) \/ d \in ahead[p]
    <3>1. d \in Dirs
      BY SameWalks
    <3>2. \/ agents[d] = Absent \/ d \in recorded[p].mirror \cup missed[p].mirror
          \/ mirror[d] = Copy(agents[d]) \/ d \in ahead[p]
      BY <1>1, <2>1 DEF Own, Mirrored
    <3> QED
      BY <1>1, <3>1, <3>2
  <2> QED
    BY <1>1, <2>1, SameWalks DEF Mirrored, Mirroring
<1> QED
  BY <1>1, <1>2, <1>3, <1>4, <1>5, <1>6, <1>7, <1>8, <1>9, OneActs DEF Own

LEMMA ReadSourceKeeps ==
  ASSUME SyncInv, NEW p \in Runners, ReadSource(p)
  PROVE  SyncInv'
<1> DEFINE d == Here(p)
<1>1. /\ step[p] = "mirror" /\ step[p] \in Mirroring /\ ahead[p] # {}
      /\ UNCHANGED <<facts, agents, mirror, toml, layout, opts, recorded, edits, clean>>
  BY DEF ReadSource, project, Mirroring
<1>2. /\ d \in Dirs /\ agents[d] \in Sources /\ mirror \in [Dirs -> Texts]
      /\ step = [step EXCEPT ![p] = "mirror"] /\ missed \in [Runners -> Reports]
  BY <1>1, FirstIsAhead DEF Here, SyncInv, RunsTyped, FilesTyped
<1>3. PICK seen \in {agents[d], Absent} :
        /\ Sees(agents[d], seen)
        /\ IF seen = Absent
           THEN Advance(p) /\ UNCHANGED step
           ELSE /\ text' = [text EXCEPT ![p] = Copy(seen)]
                /\ Goto(p, "compare") /\ UNCHANGED <<ahead, unseen>>
        /\ Miss(p, "mirror", IF seen # agents[d] THEN {d} ELSE {})
  BY DEF ReadSource
<1>4. faults' \in {faults, faults + 1}
  BY <1>3, SeesWell
<1>5. seen = agents[d] => missed' = missed
  <2>1. seen = agents[d] => missed' = [missed EXCEPT ![p].mirror = @ \cup {}]
    BY <1>3 DEF Miss
  <2>2. missed[p] \in Reports
    BY <1>2
  <2>3. [missed[p] EXCEPT !.mirror = @ \cup {}] = missed[p]
    BY <2>2 DEF Reports
  <2>4. seen = agents[d] => missed' = [missed EXCEPT ![p] = [missed[p] EXCEPT !.mirror = @ \cup {}]]
    BY <1>2, <2>1
  <2> QED
    BY <1>2, <2>3, <2>4
<1>6. seen # agents[d] => Miss(p, "mirror", {d}) /\ d \in missed'[p].mirror
  <2>1. {d} \in SUBSET Dirs
    BY <1>2
  <2>2. seen # agents[d] => Miss(p, "mirror", {d})
    BY <1>3
  <2> QED
    BY <2>1, <2>2, MissGrows
<1>7. CASE seen = Absent
  <2>1. Advance(p) /\ step' = [step EXCEPT ![p] = "mirror"]
    BY <1>2, <1>3, <1>7
  <2> QED
    BY <1>1, <1>2, <1>4, <1>5, <1>6, <1>7, <2>1, MirrorAdvances
<1>8. CASE seen # Absent
  <2>1. /\ text' = [text EXCEPT ![p] = Copy(agents[d])] /\ agents[d] # Absent /\ seen = agents[d]
        /\ step' = [step EXCEPT ![p] = "compare"] /\ ahead' = ahead /\ unseen' = unseen
    BY <1>3, <1>8 DEF Goto, Sees
  <2>2. Copy(agents[d]) \in Texts /\ Copy(agents[d]) # Absent /\ Copy(agents[d]) # Custom
    BY <1>2, TextsDiffer
  <2> QED
    BY <1>1, <1>2, <1>4, <1>5, <2>1, <2>2, MirrorStays
<1> QED
  BY <1>7, <1>8

LEMMA CompareKeeps ==
  ASSUME SyncInv, NEW p \in Runners, Compare(p)
  PROVE  SyncInv'
<1> DEFINE d == Here(p)
<1>1. /\ step[p] = "compare" /\ step[p] \in Mirroring /\ Own(p)
      /\ UNCHANGED <<facts, agents, mirror, toml, layout, opts, edits, clean, missed>>
  BY DEF Compare, project, SyncInv, Mirroring
<1>2. /\ ahead[p] # {} /\ text[p] # Absent /\ text[p] # Custom /\ text[p] \in Texts
      /\ d \in Dirs /\ mirror \in [Dirs -> Texts]
      /\ clean[p] => text[p] = Copy(agents[d]) /\ agents[d] # Absent
  BY <1>1, FirstIsAhead DEF Own, Writing, Mirrored, Here, SyncInv, RunsTyped, FilesTyped
<1>3. PICK seen \in {mirror[d], Absent} :
        /\ Sees(mirror[d], seen)
        /\ IF Writable(p, seen) /\ seen # text[p] /\ ~opts[p].dry
           THEN /\ unseen' = IF seen # mirror[d] THEN unseen \cup {p} ELSE unseen
                /\ Goto(p, "mtruncate") /\ UNCHANGED <<ahead, text, recorded>>
           ELSE /\ IF Writable(p, seen) THEN UNCHANGED recorded ELSE Record(p, "mirror", d)
                /\ Advance(p) /\ Goto(p, "mirror")
  BY DEF Compare
<1>4. faults' \in {faults, faults + 1}
  BY <1>3, SeesWell
<1>5. CASE Writable(p, seen) /\ seen # text[p] /\ ~opts[p].dry
  <2>1. /\ step' = [step EXCEPT ![p] = "mtruncate"] /\ ahead' = ahead /\ recorded' = recorded
        /\ text' = [text EXCEPT ![p] = text[p]]
        /\ unseen' = IF seen # mirror[d] THEN unseen \cup {p} ELSE unseen
    BY <1>3, <1>5 DEF Goto, SyncInv, RunsTyped
  <2>2. ~opts[p].force /\ p \notin unseen' => mirror[d] # Custom
    BY <1>5, <2>1, WritableIsNoUsers
  <2> QED
    BY <1>1, <1>2, <1>4, <2>1, <2>2, MirrorStays
<1>6. CASE ~(Writable(p, seen) /\ seen # text[p] /\ ~opts[p].dry)
  <2>1. /\ step' = [step EXCEPT ![p] = "mirror"] /\ Advance(p)
        /\ Writable(p, seen) => recorded' = recorded
        /\ ~Writable(p, seen) => Record(p, "mirror", d)
    BY <1>3, <1>6 DEF Goto
  <2>2. ~Writable(p, seen) => d \in recorded'[p].mirror
    BY <1>2, <2>1, RecordGrows
  <2>3. clean[p] /\ ~opts[p].dry => d \in recorded'[p].mirror \/ mirror[d] = Copy(agents[d])
    BY <1>2, <1>3, <1>6, <2>2
  <2> QED
    BY <1>1, <1>2, <1>4, <2>1, <2>3, MirrorAdvances
<1> QED
  BY <1>5, <1>6

LEMMA MirrorTruncateKeeps ==
  ASSUME SyncInv, NEW p \in Runners, MirrorTruncate(p)
  PROVE  SyncInv'
<1> DEFINE d == Here(p)
<1>1. /\ step[p] = "mtruncate" /\ step[p] \in Mirroring /\ Own(p)
      /\ step' = [step EXCEPT ![p] = "mwrite"] /\ mirror' = [mirror EXCEPT ![d] = Stub]
      /\ UNCHANGED <<facts, agents, toml, layout, opts, ahead, text, recorded, edits, faults, clean,
                     unseen, missed>>
  BY DEF MirrorTruncate, Goto, SyncInv, Mirroring, counts, history
<1>2. /\ ahead[p] # {} /\ text[p] # Absent /\ text[p] # Custom /\ text[p] \in Texts
      /\ d \in Dirs /\ mirror \in [Dirs -> Texts] /\ text' = [text EXCEPT ![p] = text[p]]
      /\ clean[p] => text[p] = Copy(agents[d]) /\ agents[d] # Absent
  BY <1>1, FirstIsAhead DEF Own, Writing, Mirrored, Here, SyncInv, RunsTyped, FilesTyped
<1>3. /\ mirror' \in [Dirs -> Texts] /\ mirror'[d] = Stub
      /\ \A e \in Dirs : \/ mirror'[e] = mirror[e]
                         \/ e = d /\ mirror'[e] # Custom /\ mirror'[e] # Absent
  BY <1>1, <1>2, TextsDiffer
<1> QED
  BY <1>1, <1>2, <1>3, MirrorStays

LEMMA MirrorWriteKeeps ==
  ASSUME SyncInv, NEW p \in Runners, MirrorWrite(p)
  PROVE  SyncInv'
<1> DEFINE d == Here(p)
<1>1. /\ step[p] = "mwrite" /\ step[p] \in Mirroring /\ Own(p)
      /\ step' = [step EXCEPT ![p] = "mirror"] /\ Advance(p) /\ recorded' = recorded
      /\ UNCHANGED <<facts, agents, toml, layout, opts, edits, faults, clean, missed>>
  BY DEF MirrorWrite, Goto, counts, SyncInv, Mirroring
<1>2. /\ ahead[p] # {} /\ text[p] # Custom /\ text[p] # Absent /\ text[p] \in Texts
      /\ d \in Dirs /\ mirror \in [Dirs -> Texts]
      /\ clean[p] => text[p] = Copy(agents[d]) /\ mirror[d] = Stub
  BY <1>1, FirstIsAhead DEF Own, Writing, Mirrored, Here, SyncInv, RunsTyped, FilesTyped
<1>3. PICK f \in After(mirror[d], text[p]) : mirror' = [mirror EXCEPT ![d] = f]
  BY DEF MirrorWrite
<1>4. /\ f = mirror[d] \/ (f \in Texts /\ f # Custom /\ f # Absent)
      /\ clean[p] => f = text[p]
  BY <1>2, <1>3, TextsDiffer DEF After
<1>5. /\ mirror' \in [Dirs -> Texts] /\ mirror'[d] = f
      /\ \A e \in Dirs : \/ mirror'[e] = mirror[e]
                         \/ e = d /\ mirror'[e] # Custom /\ mirror'[e] # Absent
  BY <1>2, <1>3, <1>4
<1> QED
  BY <1>1, <1>2, <1>4, <1>5, MirrorAdvances

LEMMA MirrorFailsKeeps ==
  ASSUME SyncInv, NEW p \in Runners, MirrorFails(p)
  PROVE  SyncInv'
<1> DEFINE d == Here(p)
<1>1. /\ step[p] \in {"mtruncate", "mwrite"} /\ step[p] \in Mirroring /\ Own(p)
      /\ step' = [step EXCEPT ![p] = "mirror"] /\ Advance(p) /\ Record(p, "mirror", d)
      /\ UNCHANGED <<facts, agents, toml, layout, opts, edits, clean, missed>>
      /\ faults' = faults + 1
  BY DEF MirrorFails, Goto, Fault, SyncInv, Mirroring
<1>2. d \in Dirs /\ ahead[p] # {} /\ mirror \in [Dirs -> Texts]
  BY <1>1, FirstIsAhead DEF Own, Writing, Here, SyncInv, RunsTyped, FilesTyped
<1>3. mirror' = mirror \/ mirror' = [mirror EXCEPT ![d] = Part]
  BY DEF MirrorFails
<1>4. /\ mirror' \in [Dirs -> Texts]
      /\ \A e \in Dirs : \/ mirror'[e] = mirror[e]
                         \/ e = d /\ mirror'[e] # Custom /\ mirror'[e] # Absent
  BY <1>2, <1>3, TextsDiffer
<1>5. d \in recorded'[p].mirror
  BY <1>1, <1>2, RecordGrows
<1> QED
  BY <1>1, <1>2, <1>4, <1>5, MirrorAdvances

LEMMA EndMirrorKeeps ==
  ASSUME SyncInv, NEW p \in Runners, EndMirror(p)
  PROVE  SyncInv'
<1>1. /\ step[p] = "mirror" /\ ahead[p] = {} /\ p \in Active /\ Own(p) /\ step[p] \notin Filling
      /\ step' = [step EXCEPT ![p] = "done"] /\ step'[p] = "done"
      /\ UNCHANGED <<facts, agents, mirror, toml, layout, opts, ahead, text, recorded, edits, faults,
                     clean, unseen, missed>>
  BY DEF EndMirror, project, counts, history, SyncInv, Active, Goto, RunsTyped, Filling
<1>2. FilesTyped' /\ RunsTyped' /\ Counted' /\ Traced'
  BY <1>1, TracedStays DEF SyncInv, FilesTyped, RunsTyped, Ended, Counted
<1>3. OnlyOf(p)
  BY <1>1 DEF OnlyOf, SyncInv, RunsTyped
<1>4. Writing(p)' /\ Keeping(p)' /\ Preparation(p)'
  BY <1>1 DEF Own, Writing, Keeping, Preparation, Preparing, Parts, Notes, Filling
<1>5. RootFirst(p)'
  BY <1>1 DEF Own, RootFirst, Preparing, Parts, Notes, Filling, Syncing, Mirroring
<1>6. Synced(p)'
  <2>1. \A e : Describes(agents[e], e)' <=> Describes(agents[e], e)
    BY <1>1 DEF Describes, AnalyzeFolder
  <2> QED
    BY <1>1, <2>1, SameWalks DEF Own, Synced, Preparing, Parts, Notes, Filling, Syncing
<1>7. Mirrored(p)'
  BY <1>1, SameWalks DEF Own, Mirrored, Mirroring
<1> QED
  BY <1>1, <1>2, <1>3, <1>4, <1>5, <1>6, <1>7, OneActs DEF Own

-----------------------------------------------------------------------------
(* Kills and users.                                                        *)

LEMMA KillRunKeeps ==
  ASSUME SyncInv, NEW p \in Runners, KillRun(p)
  PROVE  SyncInv'
<1> DEFINE d == Here(p)
<1>1. /\ p \in Active /\ Own(p) /\ faults' = faults + 1
      /\ step' = [step EXCEPT ![p] = "failed"] /\ ahead' = [ahead EXCEPT ![p] = {}]
      /\ text' = [text EXCEPT ![p] = Absent] /\ opts' = [opts EXCEPT ![p] = NoOpts]
      /\ recorded' = [recorded EXCEPT ![p] = Silent] /\ missed' = [missed EXCEPT ![p] = Silent]
      /\ clean' = [clean EXCEPT ![p] = FALSE] /\ unseen' = unseen \ {p}
      /\ UNCHANGED <<facts, toml, edits>>
  BY DEF KillRun, Goto, SyncInv, Fault
<1>2. /\ agents' = agents \/ agents' = [agents EXCEPT ![d] = Part]
      /\ mirror' = mirror \/ mirror' = [mirror EXCEPT ![d] = Part]
  BY DEF KillRun
<1>3. /\ layout' \in Layouts /\ layout'["dirs"] = layout["dirs"]
      /\ \A part \in Notes : layout[part] # "none" => layout'[part] # "none"
  BY DEF KillRun, CutOff, SyncInv, FilesTyped, Layouts, Parts, Notes, Filling, About
<1>4. FilesTyped' /\ Counted' /\ Traced'
  BY <1>1, <1>2, <1>3, TextsDiffer DEF SyncInv, FilesTyped, Counted, Traced
<1>5. RunsTyped'
  BY <1>1, TextsDiffer DEF SyncInv, RunsTyped, Ended, NoOpts, Silent, Options, Reports
<1>6. OnlyOf(p)
  <2>1. \A e \in Dirs : agents'[e] = agents[e] \/ agents'[e] # Custom
    BY <1>2, TextsDiffer DEF SyncInv, FilesTyped
  <2>2. \A e \in Dirs : mirror'[e] = mirror[e] \/ mirror'[e] # Custom
    BY <1>2, TextsDiffer DEF SyncInv, FilesTyped
  <2> QED
    BY <1>1, <1>3, <2>1, <2>2 DEF OnlyOf, SyncInv, RunsTyped
<1>7. step'[p] = "failed" /\ ~clean'[p] /\ opts'[p].kind = "sync"
  BY <1>1 DEF SyncInv, RunsTyped, NoOpts
<1>8. Own(p)'
  BY <1>7 DEF Own, Writing, Keeping, Preparation, RootFirst, Synced, Mirrored, Preparing, Parts,
              Notes, Filling
<1> QED
  BY <1>1, <1>4, <1>5, <1>6, <1>8, OneActs

\* What a user does disturbs every run; a run in the middle of the file has not seen it.
LEMMA DisturbKeeps ==
  ASSUME SyncInv, Disturb, FilesTyped', unseen \subseteq unseen', unseen' \subseteq Runners,
         \A p \in Runners :
           /\ step[p] \in {"truncate", "write"} =>
                agents'[Here(p)] = agents[Here(p)] \/ p \in unseen'
           /\ step[p] \in {"mtruncate", "mwrite"} =>
                mirror'[Here(p)] = mirror[Here(p)] \/ p \in unseen'
  PROVE  SyncInv'
<1>1. /\ clean' = [p \in Runners |-> FALSE] /\ edits' = edits + 1
      /\ UNCHANGED <<toml, layout, step, opts, ahead, text, recorded, faults, missed>>
  BY DEF Disturb
<1>2. RunsTyped' /\ Counted' /\ Traced'
  BY <1>1 DEF SyncInv, RunsTyped, Counted, Traced
<1>3. ASSUME NEW p \in Runners PROVE Own(p)' /\ Undisturbed(p)'
  <2>1. Own(p) /\ ~clean'[p] /\ Here(p)' = Here(p)
    BY <1>1 DEF SyncInv, Here
  <2>2. Writing(p)' /\ Keeping(p)'
    BY <1>1, <2>1 DEF Own, Writing, Keeping
  <2>3. Preparation(p)' /\ RootFirst(p)'
    BY <1>1, <2>1 DEF Own, Preparation, RootFirst
  <2> QED
    BY <2>1, <2>2, <2>3 DEF Own, Synced, Mirrored, Undisturbed
<1> QED
  BY <1>2, <1>3 DEF SyncInv

LEMMA EditKeeps ==
  ASSUME SyncInv, NEW d \in Edited, EditAgents(d) \/ EditMirror(d) \/ EditFolder(d)
  PROVE  SyncInv'
<1>1. d \in Dirs /\ unseen \subseteq Runners
  BY EditAssumption DEF SyncInv, RunsTyped
<1>2. CASE EditAgents(d)
  <2>1. PICK f \in {Absent, Kept, Custom} : agents' = [agents EXCEPT ![d] = f]
    BY <1>2 DEF EditAgents
  <2>2. /\ Disturb /\ UNCHANGED <<facts, mirror>>
        /\ unseen' = unseen \cup Amid(d, {"truncate", "write"})
    BY <1>2 DEF EditAgents
  <2>3. FilesTyped'
    BY <1>1, <2>1, <2>2, TextsDiffer DEF SyncInv, FilesTyped, Disturb
  <2>4. ASSUME NEW p \in Runners, step[p] \in {"truncate", "write"}, Here(p) = d
        PROVE  p \in unseen'
    BY <2>2, <2>4 DEF Amid
  <2>5. \A e : e # d => agents'[e] = agents[e]
    BY <2>1
  <2>6. unseen \subseteq unseen' /\ unseen' \subseteq Runners
    BY <1>1, <2>2 DEF Amid
  <2> QED
    BY <2>2, <2>3, <2>4, <2>5, <2>6, DisturbKeeps
<1>3. CASE EditMirror(d)
  <2>1. PICK f \in {Absent, Kept, Custom} : mirror' = [mirror EXCEPT ![d] = f]
    BY <1>3 DEF EditMirror
  <2>2. /\ Disturb /\ UNCHANGED <<facts, agents>>
        /\ unseen' = unseen \cup Amid(d, {"mtruncate", "mwrite"})
    BY <1>3 DEF EditMirror
  <2>3. FilesTyped'
    BY <1>1, <2>1, <2>2, TextsDiffer DEF SyncInv, FilesTyped, Disturb
  <2>4. ASSUME NEW p \in Runners, step[p] \in {"mtruncate", "mwrite"}, Here(p) = d
        PROVE  p \in unseen'
    BY <2>2, <2>4 DEF Amid
  <2>5. \A e : e # d => mirror'[e] = mirror[e]
    BY <2>1
  <2>6. unseen \subseteq unseen' /\ unseen' \subseteq Runners
    BY <1>1, <2>2 DEF Amid
  <2> QED
    BY <2>2, <2>3, <2>4, <2>5, <2>6, DisturbKeeps
<1>4. CASE EditFolder(d)
  <2>1. /\ Disturb /\ facts' = [facts EXCEPT ![d] = 1 - @] /\ UNCHANGED <<agents, mirror, unseen>>
    BY <1>4 DEF EditFolder
  <2>2. FilesTyped'
    BY <1>1, <2>1 DEF SyncInv, FilesTyped, Disturb
  <2> QED
    BY <1>1, <2>1, <2>2, DisturbKeeps
<1> QED
  BY <1>2, <1>3, <1>4

-----------------------------------------------------------------------------
(* The theorems.                                                           *)

LEMMA SyncInductive == SyncInv /\ [SyncNext]_syncVars => SyncInv'
<1> SUFFICES ASSUME SyncInv, [SyncNext]_syncVars PROVE SyncInv'
  OBVIOUS
<1>1. ASSUME NEW p \in Runners, InitStep(p) PROVE SyncInv'
  <2>1. CASE WriteReadme(p) \/ WriteGitignore(p)
    BY <2>1, WriteNoteKeeps DEF WriteReadme, WriteGitignore
  <2> QED
    BY <1>1, <2>1, SaveConfigKeeps, MakeDirsKeeps, MirrorBuiltinsKeeps, WriteRootKeeps,
       InitFailsKeeps DEF InitStep
<1>2. ASSUME NEW p \in Runners, SyncStep(p) PROVE SyncInv'
  BY <1>2, AnalyzeKeeps, TruncateKeeps, WriteKeeps, WriteFailsKeeps, EndSyncKeeps DEF SyncStep
<1>3. ASSUME NEW p \in Runners, MirrorStep(p) PROVE SyncInv'
  BY <1>3, ReadSourceKeeps, CompareKeeps, MirrorTruncateKeeps, MirrorWriteKeeps,
     MirrorFailsKeeps, EndMirrorKeeps DEF MirrorStep
<1>4. CASE UNCHANGED syncVars
  <2>1. UNCHANGED <<facts, agents, mirror, toml, layout, step, opts, ahead, text, recorded, edits,
                    faults, clean, unseen, missed>>
    BY <1>4 DEF syncVars, project, counts, history
  <2>2. FilesTyped' /\ RunsTyped' /\ Counted' /\ Traced'
    BY <2>1 DEF SyncInv, FilesTyped, RunsTyped, Counted, Traced
  <2>3. ASSUME NEW p \in Runners PROVE Own(p)' /\ Undisturbed(p)'
    <3>1. Own(p) /\ Undisturbed(p) /\ Here(p)' = Here(p) /\ Active' = Active
      BY <2>1 DEF SyncInv, Here, Active
    <3>2. Writing(p)' /\ Keeping(p)' /\ Preparation(p)' /\ RootFirst(p)' /\ Undisturbed(p)'
      BY <2>1, <3>1 DEF Own, Writing, Keeping, Preparation, RootFirst, Undisturbed
    <3>3. Synced(p)'
      <4>1. /\ Describes(text[p], Here(p))' <=> Describes(text[p], Here(p))
            /\ \A e : Describes(agents[e], e)' <=> Describes(agents[e], e)
        BY <2>1, <3>1 DEF Describes, AnalyzeFolder
      <4> QED
        BY <2>1, <3>1, <4>1, SameWalks DEF Own, Synced
    <3>4. Mirrored(p)'
      BY <2>1, <3>1, SameWalks DEF Own, Mirrored
    <3> QED
      BY <3>2, <3>3, <3>4 DEF Own
  <2> QED
    BY <2>2, <2>3 DEF SyncInv
<1>5. ASSUME NEW p \in Runners,
             BeginRun(p) \/ InitStep(p) \/ SyncStep(p) \/ MirrorStep(p) \/ WalkMisses(p) \/ KillRun(p)
      PROVE  SyncInv'
  BY <1>1, <1>2, <1>3, <1>5, BeginRunKeeps, WalkMissesKeeps, KillRunKeeps
<1> QED
  BY <1>4, <1>5, EditKeeps DEF SyncNext

LEMMA SyncInvariance == SyncSpec => []SyncInv
BY SyncInitially, SyncInductive, PTL DEF SyncSpec

\* A step that replaces a folder's files is one of the writes, at that folder.
LEMMA OnlyWritesReplace ==
  ASSUME SyncInv, SyncNext, edits' = edits, NEW d \in Dirs
  PROVE  /\ agents'[d] # agents[d] => \E p \in Runners :
              /\ step[p] \in {"truncate", "write"} /\ Here(p) = d /\ step'[p] # step[p]
         /\ mirror'[d] # mirror[d] => \E p \in Runners :
              /\ step[p] \in {"mtruncate", "mwrite"} /\ Here(p) = d /\ step'[p] # step[p]
<1> DEFINE Replaces(p) ==
             /\ agents'[d] # agents[d] =>
                  /\ step[p] \in {"truncate", "write"} /\ Here(p) = d /\ step'[p] # step[p]
             /\ mirror'[d] # mirror[d] =>
                  /\ step[p] \in {"mtruncate", "mwrite"} /\ Here(p) = d /\ step'[p] # step[p]
<1>1. step \in [Runners -> Preparing \cup Syncing \cup Mirroring \cup Ended]
      /\ agents \in [Dirs -> Sources] /\ mirror \in [Dirs -> Texts]
  BY DEF SyncInv, RunsTyped, FilesTyped
<1>2. ASSUME NEW p \in Runners, BeginRun(p) \/ InitStep(p) \/ WalkMisses(p) PROVE Replaces(p)
  <2>1. agents' = agents /\ mirror' = mirror
    BY <1>2 DEF BeginRun, InitStep, WalkMisses, SaveConfig, MakeDirs, MirrorBuiltins, WriteReadme,
                WriteGitignore, WriteNote, LayOut, WriteRoot, InitFails, project
  <2> QED
    BY <2>1
<1>3. ASSUME NEW p \in Runners, SyncStep(p) PROVE Replaces(p)
  <2>1. CASE Analyze(p) \/ EndSync(p)
    BY <2>1 DEF Analyze, EndSync, project
  <2>2. CASE Truncate(p) \/ Write(p) \/ WriteFails(p)
    <3>1. /\ step[p] \in {"truncate", "write"} /\ mirror' = mirror
          /\ \E f : agents' \in {agents, [agents EXCEPT ![Here(p)] = f]}
      BY <2>2 DEF Truncate, Write, WriteFails, GiveUp
    <3>2. step'[p] # step[p]
      BY <1>1, <2>2 DEF Truncate, Write, WriteFails, GiveUp, Goto
    <3> QED
      BY <1>1, <3>1, <3>2
  <2> QED
    BY <1>3, <2>1, <2>2 DEF SyncStep
<1>4. ASSUME NEW p \in Runners, MirrorStep(p) PROVE Replaces(p)
  <2>1. CASE ReadSource(p) \/ Compare(p) \/ EndMirror(p)
    BY <2>1 DEF ReadSource, Compare, EndMirror, project
  <2>2. CASE MirrorTruncate(p) \/ MirrorWrite(p) \/ MirrorFails(p)
    <3>1. /\ step[p] \in {"mtruncate", "mwrite"} /\ agents' = agents
          /\ \E f : mirror' \in {mirror, [mirror EXCEPT ![Here(p)] = f]}
      BY <2>2 DEF MirrorTruncate, MirrorWrite, MirrorFails
    <3>2. step'[p] # step[p]
      BY <1>1, <2>2 DEF MirrorTruncate, MirrorWrite, MirrorFails, Goto
    <3> QED
      BY <1>1, <3>1, <3>2
  <2> QED
    BY <1>4, <2>1, <2>2 DEF MirrorStep
<1>5. ASSUME NEW p \in Runners, KillRun(p) PROVE Replaces(p)
  <2>1. /\ agents' = agents \/ (step[p] = "write" /\ agents' = [agents EXCEPT ![Here(p)] = Part])
        /\ mirror' = mirror \/ (step[p] = "mwrite" /\ mirror' = [mirror EXCEPT ![Here(p)] = Part])
    BY <1>5 DEF KillRun
  <2>2. step'[p] # step[p]
    BY <1>1, <1>5 DEF KillRun, Goto, Active
  <2> QED
    BY <1>1, <2>1, <2>2
<1>6. ASSUME NEW e \in Edited, EditAgents(e) \/ EditMirror(e) \/ EditFolder(e) PROVE FALSE
  BY <1>6 DEF EditAgents, EditMirror, EditFolder, Disturb, SyncInv, Counted
<1> QED
  BY <1>2, <1>3, <1>4, <1>5, <1>6 DEF SyncNext

\* For any tree, any number of runs of init and sync, one after another or at a time, whatever
\* fails and whoever is killed: a user's file without the marker goes only by the user's hand, by
\* a run with --force, or by one that has not seen the text: edited between the run's look and the
\* end of its write, or not to be read.
THEOREM UserTextIsKept == SyncSpec => UserTextKept
<1>1. SyncInv /\ [SyncNext]_syncVars =>
        [edits' = edits => \A d \in Dirs :
           /\ agents[d] = Custom /\ agents'[d] # Custom =>
                 \E p \in Runners : May(p, d, {"truncate", "write"})
           /\ mirror[d] = Custom /\ mirror'[d] # Custom =>
                 \E p \in Runners : May(p, d, {"mtruncate", "mwrite"})]_syncVars
  <2> SUFFICES ASSUME SyncInv, SyncNext, edits' = edits, NEW d \in Dirs
               PROVE  /\ agents[d] = Custom /\ agents'[d] # Custom =>
                            \E p \in Runners : May(p, d, {"truncate", "write"})
                      /\ mirror[d] = Custom /\ mirror'[d] # Custom =>
                            \E p \in Runners : May(p, d, {"mtruncate", "mwrite"})
    BY DEF syncVars
  <2>1. ASSUME NEW p \in Runners, step[p] \in {"truncate", "write"}, Here(p) = d,
               step'[p] # step[p], agents[d] = Custom
        PROVE  May(p, d, {"truncate", "write"})
    BY <2>1 DEF May, SyncInv, Own, Keeping
  <2>2. ASSUME NEW p \in Runners, step[p] \in {"mtruncate", "mwrite"}, Here(p) = d,
               step'[p] # step[p], mirror[d] = Custom
        PROVE  May(p, d, {"mtruncate", "mwrite"})
    BY <2>2 DEF May, SyncInv, Own, Keeping
  <2> QED
    BY <2>1, <2>2, OnlyWritesReplace
<1> QED
  BY <1>1, SyncInvariance, PTL DEF SyncSpec, UserTextKept

\* ... a run that ends undisturbed leaves every folder that it entered and has neither recorded
\* nor, because a read failed, missed, with a text that describes it, and every AGENTS.md with
\* its mirror.
THEOREM SyncedOrRecorded == SyncSpec => []SyncedUnlessRecorded
<1>1. SyncInv => SyncedUnlessRecorded
  <2> SUFFICES ASSUME SyncInv, NEW p \in Runners, Finished(p)
               PROVE  /\ \A d \in Folders :
                            /\ Entered(d, opts[p].limit)
                            /\ d \notin recorded[p].sync \cup missed[p].sync
                            => Describes(agents[d], d)
                      /\ (toml = "on" \/ opts[p].kind = "init") =>
                            \A d \in Dirs :
                              /\ d = Root \/ (Entered(d, opts[p].limit) /\ d \notin Unreadable)
                              /\ agents[d] # Absent
                              /\ d \notin recorded[p].mirror \cup missed[p].mirror
                              => mirror[d] = Copy(agents[d])
    BY DEF SyncedUnlessRecorded
  <2>1. Own(p) /\ step[p] = "done" /\ clean[p] /\ ~opts[p].dry
    BY DEF SyncInv, Finished
  <2>2. \A d \in SyncWalk(opts[p].limit) :
          d \in recorded[p].sync \cup missed[p].sync \/ Describes(agents[d], d)
    BY <2>1 DEF Own, Synced, Preparing, Parts, Notes, Filling, Syncing
  <2>3. (toml = "on" \/ opts[p].kind = "init") =>
          \A d \in MirrorWalk(opts[p].limit) :
            \/ agents[d] = Absent \/ d \in recorded[p].mirror \cup missed[p].mirror
            \/ mirror[d] = Copy(agents[d])
    BY <2>1 DEF Own, Mirrored, Mirroring
  <2> QED
    BY <2>2, <2>3 DEF SyncWalk, MirrorWalk, Dirs
<1> QED
  BY <1>1, SyncInvariance, PTL

\* ... and an init that ends undisturbed leaves samuel.toml, the directories and the builtins
\* whole, the notes there (whole, where nothing has ever failed), and the root's AGENTS.md.
THEOREM InitLeavesWhole == SyncSpec => []InitWhole
<1>1. SyncInv => InitWhole
  <2> SUFFICES ASSUME SyncInv, NEW p \in Runners, Finished(p), opts[p].kind = "init"
               PROVE  /\ toml = "on" /\ layout["dirs"] = "whole" /\ layout["builtins"] = "whole"
                      /\ \A part \in Notes :
                            layout[part] # "none" /\ (faults = 0 => layout[part] = "whole")
                      /\ agents[Root] # Absent
                      /\ opts[p].force => agents[Root] = Template
    BY DEF InitWhole
  <2>1. Own(p) /\ step[p] = "done" /\ clean[p] /\ Undisturbed(p)
    BY DEF SyncInv, Finished
  <2>2. /\ toml = "on" /\ layout["dirs"] = "whole" /\ layout["builtins"] = "whole"
        /\ layout["readme"] # "none" /\ layout["gitignore"] # "none"
    BY <2>1 DEF Own, Preparation, Preparing, Parts, Notes, Filling
  <2>3. agents[Root] # Absent /\ (opts[p].force => agents[Root] = Template)
    BY <2>1 DEF Own, RootFirst
  <2>4. \A q \in Runners : step[q] \notin Filling
    BY <2>1 DEF Undisturbed, Active, Filling
  <2>5. ASSUME NEW part \in Notes, faults = 0 PROVE layout[part] = "whole"
    <3>1. layout[part] # "cut"
      BY <2>4, <2>5 DEF SyncInv, Traced
    <3>2. layout[part] \in {"none", "cut", "whole"}
      BY DEF SyncInv, FilesTyped, Layouts, Parts
    <3> QED
      BY <2>2, <3>1, <3>2 DEF Notes
  <2> QED
    BY <2>2, <2>3, <2>5 DEF Notes
<1> QED
  BY <1>1, SyncInvariance, PTL

====
