---------------------------- MODULE WasmRuntime ----------------------------
(***************************************************************************)
(* The runtime every WebAssembly plugin of one process shares             *)
(* (internal/plugin/wasm/runtime.go, plugin.go): a cache of compiled       *)
(* modules with a byte budget and oldest-first eviction, the `samuel' host *)
(* module that is installed once, and the calls that compile, instantiate  *)
(* and run a module.  Calls run on threads of their own.                   *)
(*                                                                         *)
(* An "invoke" is InstantiateWithBudgets: it goes through the cache.  The   *)
(* other kinds (the probe of an install, Check, Run) compile the module    *)
(* for themselves and close it at the end; each gives its instance a name  *)
(* fixed by its kind and plugin, and wazero refuses a name that is live.   *)
(***************************************************************************)
EXTENDS Integers, Sequences, FiniteSets

CONSTANTS
    Threads,    \* the goroutines that call the runtime
    Bodies,     \* module bodies (one per plugin); the cache key is their hash
    Size,       \* Size[b]: bytes of body b
    Budget,     \* cacheBudgetBytes; 0 disables eviction
    Broken,     \* bodies that do not compile
    MaxCalls    \* bound: calls begun in a behaviour

ASSUME SizeAssumption   == Size \in [Bodies -> Nat \ {0}]
ASSUME BudgetAssumption == Budget \in Nat
ASSUME BrokenAssumption == Broken \subseteq Bodies
ASSUME CallsAssumption  == MaxCalls \in Nat

None  == 0
Kinds == {"invoke", "probe", "check", "run"}
Failures == {"compile", "host", "name", "closed", "trap"}

VARIABLES
    cache,      \* moduleCache: body -> compiled module, None when absent
    lru,        \* moduleCacheLRU, newest at the end
    used,       \* cacheBytes
    open,       \* compiled modules that nobody has closed
    made,       \* CompileModule's so far; a module is named by its number
    hostBuilt,  \* Runtime.hostBuilt
    hostModule, \* wazero knows a module named `samuel'
    shut,       \* Runtime.Close was called
    pc, kind, body, cm,  \* per thread: the step, the call and its module
    calls,      \* calls begun
    result,     \* per thread: how its last call ended
    alone,      \* history: no other call was in flight during this one
    doubled     \* history: a module was added over one still in the cache

cacheVars  == <<cache, lru, used>>
hostVars   == <<hostBuilt, hostModule>>
callVars   == <<kind, body>>
vars == <<cache, lru, used, open, made, hostBuilt, hostModule, shut,
          pc, kind, body, cm, calls, result, alone, doubled>>

Cached == {b \in Bodies : cache[b] # None}
InLRU  == {lru[i] : i \in 1..Len(lru)}
Live(t) == pc[t] = "running"

Init ==
    /\ cache = [b \in Bodies |-> None]
    /\ lru = <<>>
    /\ used = 0
    /\ open = {}
    /\ made = 0
    /\ hostBuilt = FALSE
    /\ hostModule = FALSE
    /\ shut = FALSE
    /\ pc = [t \in Threads |-> "idle"]
    /\ kind = [t \in Threads |-> "invoke"]
    /\ body \in {[t \in Threads |-> b] : b \in Bodies}
    /\ cm = [t \in Threads |-> None]
    /\ calls = 0
    /\ result = [t \in Threads |-> "ok"]
    /\ alone = [t \in Threads |-> TRUE]
    /\ doubled = FALSE

(* A call starts: whoever is in flight is no longer alone. *)
Begin(t, k, b) ==
    /\ pc[t] = "idle"
    /\ calls < MaxCalls
    /\ calls' = calls + 1
    /\ kind' = [kind EXCEPT ![t] = k]
    /\ body' = [body EXCEPT ![t] = b]
    /\ result' = [result EXCEPT ![t] = "pending"]
    /\ alone' = [u \in Threads |->
                    IF u = t THEN \A v \in Threads : pc[v] = "idle"
                             ELSE alone[u] /\ pc[u] = "idle"]

(* bumpLRULocked: the key's first entry moves to the end. *)
First(b) == CHOOSE i \in 1..Len(lru) :
                lru[i] = b /\ \A j \in 1..(i - 1) : lru[j] # b
\* Mutant: the entry is taken out of its place and not put back.
BumpLosesKey(b) ==
    IF b \in InLRU
    THEN LET i == First(b)
         IN  SubSeq(lru, 1, i - 1) \o SubSeq(lru, i + 1, Len(lru))
    ELSE lru
Bump(b) ==
    IF b \in InLRU
    THEN LET i == First(b)
         IN  SubSeq(lru, 1, i - 1) \o SubSeq(lru, i + 1, Len(lru)) \o <<b>>
    ELSE lru

(* LoadCached, the key is cached: bumped under the lock, handed out. *)
Hit(t, b) ==
    /\ Begin(t, "invoke", b)
    /\ cache[b] # None
    /\ lru' = Bump(b)
    /\ cm' = [cm EXCEPT ![t] = cache[b]]
    /\ pc' = [pc EXCEPT ![t] = "register"]
    /\ UNCHANGED <<cache, used, open, made, hostVars, shut, doubled>>

(* LoadCached, the key is absent: the lock is released before compiling. *)
Miss(t, b) ==
    /\ Begin(t, "invoke", b)
    /\ cache[b] = None
    /\ pc' = [pc EXCEPT ![t] = "compile"]
    /\ UNCHANGED <<cacheVars, open, made, hostVars, shut, cm, doubled>>

(* Compiled directly, not cached; the module is closed at the end. *)
Direct(t, k, b) ==
    /\ Begin(t, k, b)
    /\ pc' = [pc EXCEPT ![t] = "compile"]
    /\ UNCHANGED <<cacheVars, open, made, hostVars, shut, cm, doubled>>

(* verifyProtocol, of an install. *)
Probe(t, b) == Direct(t, "probe", b)

(* Plugin.Check: the health export. *)
Check(t, b) == Direct(t, "check", b)

(* Plugin.Run: a hook's export. *)
Run(t, b) == Direct(t, "run", b)

\* Mutant: the deferred Close of a direct call is missing.
FailKeepsModule(t, why) ==
    /\ pc' = [pc EXCEPT ![t] = "idle"]
    /\ result' = [result EXCEPT ![t] = why]
    /\ cm' = [cm EXCEPT ![t] = None]
    /\ UNCHANGED <<cacheVars, open, made, hostVars, shut, callVars, calls, alone, doubled>>

(* A call returns an error; a direct call's deferred Close runs. *)
Fail(t, why) ==
    /\ pc' = [pc EXCEPT ![t] = "idle"]
    /\ result' = [result EXCEPT ![t] = why]
    /\ open' = IF kind[t] = "invoke" THEN open ELSE open \ {cm[t]}
    /\ cm' = [cm EXCEPT ![t] = None]
    /\ UNCHANGED <<cacheVars, made, hostVars, shut, callVars, calls, alone, doubled>>

(* wzRT.CompileModule; a runtime that was closed refuses it. *)
Compile(t) ==
    /\ pc[t] = "compile"
    /\ ~shut
    /\ body[t] \notin Broken
    /\ made' = made + 1
    /\ cm' = [cm EXCEPT ![t] = made + 1]
    /\ open' = open \cup {made + 1}
    /\ pc' = [pc EXCEPT ![t] = IF kind[t] = "invoke" THEN "add" ELSE "register"]
    /\ UNCHANGED <<cacheVars, hostVars, shut, callVars, calls, result, alone, doubled>>

CompileFails(t) ==
    /\ pc[t] = "compile"
    /\ shut \/ body[t] \in Broken
    /\ Fail(t, "compile")

\* Mutant: the newest entry may be evicted as well.
EvictionsAll(l, bytes, justAdded) ==
    IF Budget = 0 THEN 0
    ELSE CHOOSE n \in 0..Len(l) :
            /\ bytes - n * justAdded <= Budget \/ n = Len(l)
            /\ \A m \in 0..(n - 1) : bytes - m * justAdded > Budget

(* evictIfOverLocked: how many of the oldest entries are dropped.  The size
   of the module just added is subtracted for each, whatever was dropped. *)
Evictions(l, bytes, justAdded) ==
    IF Budget = 0 THEN 0
    ELSE CHOOSE n \in 0..(Len(l) - 1) :
            /\ bytes - n * justAdded <= Budget \/ n = Len(l) - 1
            /\ \A m \in 0..(n - 1) : bytes - m * justAdded > Budget

(* LoadCached after the compilation, under the lock again: add, then evict.
   Nothing looks whether the key has arrived in the meantime. *)
Add(t) ==
    LET b       == body[t]
        size    == Size[b]
        added   == Append(lru, b)
        filled  == [cache EXCEPT ![b] = cm[t]]
        n       == Evictions(added, used + size, size)
        dropped == {added[i] : i \in 1..n}
    IN  /\ pc[t] = "add"
        /\ cache' = [c \in Bodies |-> IF c \in dropped THEN None ELSE filled[c]]
        /\ lru' = SubSeq(added, n + 1, Len(added))
        /\ used' = used + size - n * size
        /\ open' = open \ {filled[c] : c \in dropped}
        /\ doubled' = (doubled \/ cache[b] # None)
        /\ pc' = [pc EXCEPT ![t] = "register"]
        /\ UNCHANGED <<made, hostVars, shut, callVars, cm, calls, result, alone>>

(* RegisterHost: the flag is read without a lock ... *)
Register(t) ==
    /\ pc[t] = "register"
    /\ pc' = [pc EXCEPT ![t] = IF hostBuilt THEN "instantiate" ELSE "build"]
    /\ UNCHANGED <<cacheVars, open, made, hostVars, shut, callVars, cm,
                   calls, result, alone, doubled>>

(* ... the host module is instantiated, unless it exists already ... *)
Build(t) ==
    /\ pc[t] = "build"
    /\ ~hostModule
    /\ ~shut
    /\ hostModule' = TRUE
    /\ pc' = [pc EXCEPT ![t] = "mark"]
    /\ UNCHANGED <<cacheVars, open, made, hostBuilt, shut, callVars, cm,
                   calls, result, alone, doubled>>

BuildFails(t) ==
    /\ pc[t] = "build"
    /\ hostModule \/ shut
    /\ Fail(t, "host")

(* ... and the flag is set afterwards. *)
Mark(t) ==
    /\ pc[t] = "mark"
    /\ hostBuilt' = TRUE
    /\ pc' = [pc EXCEPT ![t] = "instantiate"]
    /\ UNCHANGED <<cacheVars, open, made, hostModule, shut, callVars, cm,
                   calls, result, alone, doubled>>

(* An invocation's name carries the time and is taken to be unique. *)
NameTaken(t) ==
    /\ kind[t] # "invoke"
    /\ \E u \in Threads \ {t} :
          Live(u) /\ kind[u] = kind[t] /\ body[u] = body[t]

(* InstantiateModule of an open module under a free name.  wazero keeps the
   code of a body while another compilation of it is open, so a module that
   was closed may still work. *)
Instantiate(t) ==
    /\ pc[t] = "instantiate"
    /\ ~shut
    /\ ~NameTaken(t)
    /\ pc' = [pc EXCEPT ![t] = "running"]
    /\ UNCHANGED <<cacheVars, open, made, hostVars, shut, callVars, cm,
                   calls, result, alone, doubled>>

InstantiateFails(t) ==
    /\ pc[t] = "instantiate"
    /\ \/ NameTaken(t) /\ Fail(t, "name")
       \/ (shut \/ cm[t] \notin open) /\ Fail(t, "closed")
       \/ Fail(t, "trap")        \* the start function fails or runs out of time

(* The caller closes the instance; a direct call closes its module too. *)
Finish(t) ==
    /\ pc[t] = "running"
    /\ Fail(t, "ok")

(* Runtime.Close closes every module; the cache's maps are left as they are. *)
Close ==
    /\ ~shut
    /\ shut' = TRUE
    /\ open' = {}
    /\ hostModule' = FALSE
    /\ UNCHANGED <<cacheVars, made, hostBuilt, pc, callVars, cm, calls, result,
                   alone, doubled>>

Step(t) ==
    \/ \E b \in Bodies :
          \/ Hit(t, b) \/ Miss(t, b)
          \/ Probe(t, b) \/ Check(t, b) \/ Run(t, b)
    \/ Compile(t) \/ CompileFails(t) \/ Add(t)
    \/ Register(t) \/ Build(t) \/ BuildFails(t) \/ Mark(t)
    \/ Instantiate(t) \/ InstantiateFails(t) \/ Finish(t)

Next == Close \/ \E t \in Threads : Step(t)

Spec == Init /\ [][Next]_vars

-----------------------------------------------------------------------------
PCs == {"idle", "compile", "add", "register", "build", "mark",
        "instantiate", "running"}

(* Every variable has its type; a cached module is one that was compiled. *)
TypeOK ==
    /\ cache \in [Bodies -> 0..made]
    /\ lru \in Seq(Bodies)
    /\ used \in Int
    /\ made \in Nat
    /\ open \subseteq 1..made
    /\ hostBuilt \in BOOLEAN /\ hostModule \in BOOLEAN /\ shut \in BOOLEAN
    /\ pc \in [Threads -> PCs]
    /\ kind \in [Threads -> Kinds]
    /\ body \in [Threads -> Bodies]
    /\ cm \in [Threads -> 0..made]
    /\ calls \in 0..MaxCalls
    /\ result \in [Threads -> Failures \cup {"ok", "pending"}]
    /\ alone \in [Threads -> BOOLEAN]
    /\ doubled \in BOOLEAN

(* Whatever the threads do, the cache hands out only modules that are open
   (until the runtime itself is closed), and every module it holds is in the
   LRU list, so that eviction can reach it. *)
CacheSound ==
    /\ Cached \subseteq InLRU
    /\ ~shut => \A b \in Cached : cache[b] \in open

Held(t) == IF pc[t] \in {"idle", "compile"} THEN None ELSE cm[t]

(* Until two overlapping calls have compiled one body, the LRU list and the
   cache describe the same modules, each once, and every open module is in
   the cache or in the hands of the call that compiled it: none leaks. *)
TidyUntilDoubled ==
    ~doubled =>
        /\ \A i, j \in 1..Len(lru) : lru[i] = lru[j] => i = j
        /\ InLRU = Cached
        /\ open \subseteq {cache[b] : b \in Cached} \cup {Held(t) : t \in Threads}

(* A call nobody else overlapped never fails because of the runtime's own
   state (a module evicted under it, the host module half installed, a name
   still taken), unless the list was already spoilt by a double compilation
   or the runtime was closed. *)
LoneCallSucceeds ==
    \A t \in Threads :
        alone[t] /\ ~doubled /\ ~shut => result[t] \notin {"host", "name", "closed"}
=============================================================================
