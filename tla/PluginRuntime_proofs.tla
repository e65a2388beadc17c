------------------------ MODULE PluginRuntime_proofs ------------------------
(***************************************************************************)
(* What holds of the three components that are at work while a plugin runs, *)
(* each by itself: WasmRuntime, BridgeServer and NetworkPolicy.  They share *)
(* no state, and no name, so one module can speak of them all.              *)
(***************************************************************************)
EXTENDS WasmRuntime, BridgeServer, NetworkPolicy, WellFoundedInduction, FiniteSetTheorems, TLAPS

(***************************************************************************)
(* WasmRuntime, for any number of goroutines, bodies, sizes and budgets:    *)
(* its types, and what the cache hands out.  Two calls may compile one body *)
(* at once and the list may then name it twice; still no module is known    *)
(* under two keys, and none that a call is about to add is known to anybody *)
(* else (HeldInv), so what eviction or a direct call closes is never a      *)
(* module the cache goes on listing.                                        *)
(***************************************************************************)
CacheInv ==
  /\ Cached \subseteq InLRU
  /\ ~shut => \A b \in Bodies : cache[b] # None => cache[b] \in open
  /\ \A b, c \in Bodies : cache[b] = cache[c] /\ cache[b] # None => b = c

HeldInv ==
  \A t \in Threads :
    /\ pc[t] \in {"idle", "compile"} => cm[t] = None
    /\ pc[t] = "add" =>
         /\ kind[t] = "invoke" /\ cm[t] # None
         /\ ~shut => cm[t] \in open
         /\ \A b \in Bodies : cache[b] # cm[t]
         /\ \A u \in Threads \ {t} : cm[u] # cm[t]
    /\ kind[t] # "invoke" /\ cm[t] # None => \A b \in Bodies : cache[b] # cm[t]

Past(t) == pc[t] \in {"register", "build", "mark", "instantiate", "running"}

\* An invocation's module is the cache's until it is evicted.
OwnInv ==
  ~doubled =>
    \A t \in Threads :
      kind[t] = "invoke" /\ Past(t) /\ cm[t] \in open => \E b \in Cached : cache[b] = cm[t]

\* While a call is alone nobody is between the host module and its flag but the call itself.
LoneInv ==
  /\ \A t \in Threads : alone[t] /\ pc[t] # "idle" => \A u \in Threads \ {t} : pc[u] = "idle"
  /\ hostModule /\ ~hostBuilt /\ ~shut => \E u \in Threads : pc[u] = "mark"
  /\ \A t \in Threads : alone[t] /\ pc[t] = "build" => ~hostBuilt
  /\ ~doubled /\ ~shut => \A t \in Threads : alone[t] /\ Past(t) => cm[t] \in open

Inv == /\ TypeOK /\ CacheInv /\ HeldInv
       /\ OwnInv /\ TidyUntilDoubled
       /\ LoneInv /\ LoneCallSucceeds

-----------------------------------------------------------------------------
(* The list.                                                               *)

LEMMA Least ==
  ASSUME NEW T, T \subseteq Nat, T # {}
  PROVE  \E n \in T : \A m \in T : n <= m
<1>1. \E n \in T : \A m \in T : ~ (<<m, n>> \in OpToRel(<, Nat))
  BY WFMin, NatLessThanWellFounded, Zenon
<1>2. \A m, n \in T : <<m, n>> \in OpToRel(<, Nat) <=> m < n
  BY DEF OpToRel
<1>3. PICK n \in T : \A m \in T : ~ (<<m, n>> \in OpToRel(<, Nat))
  BY <1>1
<1>4. \A m \in T : ~ (m < n) /\ m \in Nat /\ n \in Nat
  BY <1>2, <1>3
<1>5. \A m \in T : n <= m
  BY <1>4
<1> QED
  BY <1>5

\* bumpLRULocked finds a key that is listed.
LEMMA FirstIsThere ==
  ASSUME lru \in Seq(Bodies), NEW b \in InLRU
  PROVE  First(b) \in 1 .. Len(lru) /\ lru[First(b)] = b
<1> DEFINE At == {i \in 1 .. Len(lru) : lru[i] = b}
<1>1. At # {} /\ At \subseteq Nat
  BY DEF InLRU
<1>2. PICK i \in At : \A j \in At : i <= j
  BY <1>1, Least
<1>3. i \in 1 .. Len(lru) /\ lru[i] = b /\ \A j \in 1 .. (i - 1) : lru[j] # b
  BY <1>2
<1> QED
  BY <1>3 DEF First

\* It moves the key from its place to the end, and the ones behind it forward.
LEMMA Bumped ==
  ASSUME lru \in Seq(Bodies), NEW b \in InLRU
  PROVE  /\ Bump(b) \in Seq(Bodies) /\ Len(Bump(b)) = Len(lru)
         /\ \A j \in 1 .. First(b) - 1 : Bump(b)[j] = lru[j]
         /\ \A j \in 1 .. Len(lru) - First(b) : Bump(b)[First(b) - 1 + j] = lru[First(b) + j]
         /\ Bump(b)[Len(lru)] = b
<1> DEFINE i == First(b)
           before == SubSeq(lru, 1, i - 1)
           after == SubSeq(lru, i + 1, Len(lru))
           n == Len(lru)
<1>1. i \in 1 .. n /\ lru[i] = b /\ n \in Nat
  BY FirstIsThere
<1>2. b \in Bodies
  BY <1>1
<1> HIDE DEF i
<1>3. /\ before \in Seq(Bodies) /\ Len(before) = i - 1
      /\ \A j \in 1 .. i - 1 : before[j] = lru[j]
  BY <1>1
<1>4. /\ after \in Seq(Bodies) /\ Len(after) = n - i
      /\ \A j \in 1 .. n - i : after[j] = lru[i + j]
  BY <1>1
<1> HIDE DEF before, after
<1> DEFINE rest == before \o after
           l == rest \o <<b>>
<1>5. /\ l \in Seq(Bodies) /\ Len(l) = n
      /\ \A j \in 1 .. i - 1 : l[j] = lru[j]
      /\ \A j \in 1 .. n - i : l[i - 1 + j] = lru[i + j]
      /\ l[n] = b
  <2>1. rest \in Seq(Bodies) /\ Len(rest) = n - 1
    <3>1. before \in Seq(Bodies) /\ after \in Seq(Bodies)
      BY <1>3, <1>4
    <3>2. rest \in Seq(Bodies) /\ Len(rest) = Len(before) + Len(after)
      BY <3>1
    <3>3. i \in Int /\ n \in Int
      BY <1>1
    <3> QED
      BY <3>2, <3>3, <1>3, <1>4
  <2>2. \A j \in 1 .. i - 1 : rest[j] = lru[j]
    BY <1>1, <1>3, <1>4
  <2>3. \A j \in 1 .. n - i : rest[i - 1 + j] = lru[i + j]
    <3> SUFFICES ASSUME NEW j \in 1 .. n - i PROVE rest[i - 1 + j] = lru[i + j]
      OBVIOUS
    <3>1. rest[Len(before) + j] = after[j]
      BY <1>1, <1>3, <1>4
    <3> QED
      BY <3>1, <1>3, <1>4
  <2> HIDE DEF rest
  <2>4. <<b>> \in Seq(Bodies) /\ Len(<<b>>) = 1 /\ <<b>>[1] = b
    BY <1>2
  <2>5. /\ l \in Seq(Bodies) /\ Len(l) = n /\ l[n] = b
        /\ \A j \in 1 .. n - 1 : l[j] = rest[j]
    BY <2>1, <2>4, <1>1
  <2>6. (\A j \in 1 .. i - 1 : j \in 1 .. n - 1) /\ (\A j \in 1 .. n - i : i - 1 + j \in 1 .. n - 1)
    BY <1>1
  <2> QED
    BY <2>2, <2>3, <2>5, <2>6
<1>6. Bump(b) = l
  BY DEF Bump, i, before, after
<1> QED
  BY <1>5, <1>6 DEF i

\* Where a key of the new list was in the old one.
LEMMA BumpMoves ==
  ASSUME lru \in Seq(Bodies), NEW b \in InLRU
  PROVE  /\ Bump(b) \in Seq(Bodies) /\ Len(Bump(b)) = Len(lru)
         /\ \E was \in [1 .. Len(lru) -> 1 .. Len(lru)] :
              /\ \A k \in 1 .. Len(lru) : Bump(b)[k] = lru[was[k]]
              /\ \A k, m \in 1 .. Len(lru) : was[k] = was[m] => k = m
              /\ \A m \in 1 .. Len(lru) : \E k \in 1 .. Len(lru) : was[k] = m
<1> DEFINE i == First(b)
           n == Len(lru)
           was == [k \in 1 .. n |-> IF k < i THEN k ELSE IF k = n THEN i ELSE k + 1]
           l == Bump(b)
<1>1. i \in 1 .. n /\ lru[i] = b /\ n \in Nat
  BY FirstIsThere
<1>2. /\ l \in Seq(Bodies) /\ Len(l) = n /\ l[n] = b
      /\ \A j \in 1 .. i - 1 : l[j] = lru[j]
      /\ \A j \in 1 .. n - i : l[i - 1 + j] = lru[i + j]
  BY Bumped
<1> HIDE DEF i, n, l
<1>3. was \in [1 .. n -> 1 .. n]
  BY <1>1
<1>4. ASSUME NEW k \in 1 .. n PROVE l[k] = lru[was[k]]
  <2>1. CASE k < i
    BY <2>1, <1>1, <1>2
  <2>2. CASE ~(k < i) /\ k = n
    BY <2>2, <1>1, <1>2
  <2>3. CASE ~(k < i) /\ k # n
    <3>1. was[k] = k + 1 /\ k + 1 - i \in 1 .. n - i /\ i - 1 + (k + 1 - i) = k /\ i + (k + 1 - i) = k + 1
      BY <2>3, <1>1
    <3>2. l[i - 1 + (k + 1 - i)] = lru[i + (k + 1 - i)]
      BY <3>1, <1>2, Zenon
    <3> QED
      BY <3>1, <3>2, Zenon
  <2> QED
    BY <2>1, <2>2, <2>3
<1>5. \A k, m \in 1 .. n : was[k] = was[m] => k = m
  BY <1>1
<1>6. ASSUME NEW m \in 1 .. n PROVE \E k \in 1 .. n : was[k] = m
  <2>1. CASE m < i
    BY <2>1, <1>1
  <2>2. CASE m = i
    <3>1. n \in 1 .. n /\ was[n] = i
      BY <1>1
    <3> QED
      BY <3>1, <2>2
  <2>3. CASE m > i
    <3>1. m - 1 \in 1 .. n /\ was[m - 1] = m
      BY <2>3, <1>1
    <3> QED
      BY <3>1
  <2> QED
    BY <2>1, <2>2, <2>3, <1>1
<1> HIDE DEF was
<1> QED
  BY <1>2, <1>3, <1>4, <1>5, <1>6 DEF l, n

\* evictIfOverLocked stops, and short of the newest entry.
LEMMA EvictionsStop ==
  ASSUME NEW l \in Seq(Bodies), l # <<>>, NEW bytes \in Int, NEW size \in Nat
  PROVE  Evictions(l, bytes, size) \in 0 .. (Len(l) - 1)
<1>1. CASE Budget = 0
  BY <1>1 DEF Evictions
<1>2. CASE Budget # 0
  <2> DEFINE Enough == {n \in 0 .. (Len(l) - 1) : bytes - n * size <= Budget \/ n = Len(l) - 1}
  <2>1. Len(l) - 1 \in Nat
    OBVIOUS
  <2>2. Enough # {} /\ Enough \subseteq Nat
    <3>1. Len(l) - 1 \in Enough
      BY <2>1
    <3>2. Enough \subseteq 0 .. (Len(l) - 1)
      OBVIOUS
    <3>3. 0 .. (Len(l) - 1) \subseteq Nat
      BY <2>1
    <3> QED
      BY <3>1, <3>2, <3>3
  <2>3. PICK n \in Enough : \A m \in Enough : n <= m
    BY <2>2, Least
  <2>4. \A m \in 0 .. (n - 1) : m \in 0 .. (Len(l) - 1) /\ m \notin Enough
    BY <2>1, <2>3
  <2>5. \A m \in 0 .. (n - 1) : ~(bytes - m * size <= Budget)
    BY <2>4
  <2>6. \A m \in 0 .. (n - 1) : bytes - m * size > Budget
    <3> SUFFICES ASSUME NEW m \in 0 .. (n - 1) PROVE bytes - m * size > Budget
      OBVIOUS
    <3>1. m * size \in Int /\ ~(bytes - m * size <= Budget)
      BY <2>5
    <3> QED
      BY <3>1, BudgetAssumption
  <2> QED
    BY <1>2, <2>3, <2>6 DEF Evictions
<1> QED
  BY <1>1, <1>2
-----------------------------------------------------------------------------
(* The steps.                                                              *)

THEOREM Initially == Init => Inv
<1> SUFFICES ASSUME Init PROVE Inv
  OBVIOUS
<1>1. TypeOK
  <2>1. /\ made = 0 /\ open = {} /\ lru = <<>> /\ used = 0 /\ calls \in 0 .. MaxCalls
        /\ cache = [b \in Bodies |-> 0] /\ cm = [t \in Threads |-> 0]
    BY CallsAssumption DEF Init, None
  <2>2. body \in [Threads -> Bodies] /\ kind \in [Threads -> Kinds] /\ pc \in [Threads -> PCs]
        /\ result \in [Threads -> Failures \cup {"ok", "pending"}] /\ alone \in [Threads -> BOOLEAN]
    BY DEF Init, Kinds, PCs
  <2>3. /\ hostBuilt \in BOOLEAN /\ hostModule \in BOOLEAN /\ shut \in BOOLEAN
        /\ doubled \in BOOLEAN
    BY DEF Init
  <2>4. /\ cache \in [Bodies -> 0 .. made] /\ cm \in [Threads -> 0 .. made] /\ made \in Nat
        /\ open \subseteq 1 .. made
    BY <2>1
  <2> QED
    BY <2>1, <2>2, <2>3, <2>4 DEF TypeOK
<1>2. CacheInv /\ HeldInv
  BY DEF Init, CacheInv, HeldInv, Cached, None
<1>3. TidyUntilDoubled
  BY DEF Init, TidyUntilDoubled, Cached, InLRU
<1>4. OwnInv /\ LoneInv /\ LoneCallSucceeds
  BY DEF Init, OwnInv, Past, LoneInv, LoneCallSucceeds
<1> QED
  BY <1>1, <1>2, <1>3, <1>4 DEF Inv

\* A call that begins is a new one, and nobody else is alone any longer.
LEMMA BeginKeeps ==
  ASSUME Inv, NEW t \in Threads, NEW k \in Kinds, NEW b \in Bodies, Begin(t, k, b),
         pc' = [pc EXCEPT ![t] = "compile"],
         UNCHANGED <<cacheVars, open, made, hostVars, shut, cm, doubled>>
  PROVE  Inv'
<1> USE DEF cacheVars, hostVars
<1>1. TypeOK'
  <2>1. /\ calls' = calls + 1 /\ calls < MaxCalls /\ calls \in 0 .. MaxCalls
        /\ kind' \in [Threads -> Kinds] /\ body' \in [Threads -> Bodies] /\ pc' \in [Threads -> PCs]
        /\ result' \in [Threads -> Failures \cup {"ok", "pending"}]
        /\ alone' \in [Threads -> BOOLEAN]
    BY DEF Inv, TypeOK, Begin, PCs
  <2>2. calls' \in 0 .. MaxCalls
    BY <2>1, CallsAssumption
  <2> QED
    BY <2>1, <2>2 DEF Inv, TypeOK
<1>2. CacheInv' /\ HeldInv'
  BY DEF Inv, TypeOK, CacheInv, HeldInv, Begin, Cached, InLRU
<1>3. OwnInv'
  BY DEF Inv, TypeOK, OwnInv, Past, Begin, Cached
<1>4. TidyUntilDoubled'
  <2>1. \A u \in Threads : Held(u)' = Held(u)
    BY DEF Begin, Held, Inv, TypeOK
  <2> QED
    BY <2>1 DEF Inv, TidyUntilDoubled, Cached, InLRU
<1>5. LoneInv'
  BY DEF Inv, TypeOK, LoneInv, Past, Begin
<1>6. LoneCallSucceeds'
  BY DEF Inv, TypeOK, LoneCallSucceeds, Begin
<1> QED
  BY <1>1, <1>2, <1>3, <1>4, <1>5, <1>6 DEF Inv

LEMMA CloseKeeps ==
  ASSUME Inv, Close
  PROVE  Inv'
<1> USE DEF Close, cacheVars, callVars, Inv
<1>1. TypeOK'
  BY DEF TypeOK
<1>2. CacheInv' /\ HeldInv'
  BY DEF CacheInv, HeldInv, Cached, InLRU
<1>3. OwnInv' /\ TidyUntilDoubled'
  BY DEF OwnInv, Past, TidyUntilDoubled, Cached, InLRU
<1>4. LoneInv' /\ LoneCallSucceeds'
  BY DEF LoneInv, Past, LoneCallSucceeds
<1> QED
  BY <1>1, <1>2, <1>3, <1>4

LEMMA CompileKeeps ==
  ASSUME Inv, NEW t \in Threads, Compile(t)
  PROVE  Inv'
<1> USE DEF Compile, cacheVars, hostVars, callVars, Inv
<1>1. TypeOK'
  BY DEF TypeOK, PCs
<1>2. made + 1 # None /\ \A b \in Bodies : cache[b] # made + 1
  BY DEF TypeOK, None
<1>3. \A u \in Threads : cm[u] # made + 1
  BY DEF TypeOK
<1>4. CacheInv'
  BY DEF CacheInv, Cached, InLRU
<1>5. HeldInv'
  BY <1>2, <1>3 DEF TypeOK, HeldInv
<1>6. OwnInv'
  BY <1>2, <1>3 DEF TypeOK, OwnInv, Past, Cached
<1>7. TidyUntilDoubled'
  <2>1. Held(t)' = made + 1 /\ \A u \in Threads \ {t} : Held(u)' = Held(u)
    BY DEF Held, TypeOK
  <2>2. Held(t) = None
    BY DEF Held, TypeOK
  <2>3. \A m \in open : m # None
    BY DEF TypeOK, None
  <2> QED
    BY <2>1, <2>2, <2>3 DEF TidyUntilDoubled, Cached, InLRU
<1>8. LoneInv' /\ LoneCallSucceeds'
  BY DEF TypeOK, LoneInv, LoneCallSucceeds, Past
<1> QED
  BY <1>1, <1>4, <1>5, <1>6, <1>7, <1>8

\* The host module and the instance: only the step of the call changes, and the host's flags.
LEMMA HostKeeps ==
  ASSUME Inv, NEW t \in Threads, Register(t) \/ Build(t) \/ Mark(t) \/ Instantiate(t)
  PROVE  Inv'
<1>1. /\ UNCHANGED <<cacheVars, open, made, shut, callVars, cm, calls, result, alone, doubled>>
      /\ Past(t) /\ Past(t)' /\ \A u \in Threads \ {t} : pc'[u] = pc[u]
      /\ pc' \in [Threads -> PCs] /\ hostBuilt' \in BOOLEAN /\ hostModule' \in BOOLEAN
  BY DEF Register, Build, Mark, Instantiate, hostVars, Past, Inv, TypeOK, PCs
<1>2. \A u \in Threads : (Past(u)' <=> Past(u)) /\ Held(u)' = Held(u)
  BY <1>1 DEF Past, Held
<1>3. TypeOK'
  BY <1>1 DEF Inv, TypeOK, cacheVars, callVars
<1>4. CacheInv' /\ HeldInv'
  BY <1>1 DEF Inv, CacheInv, HeldInv, Cached, InLRU, cacheVars, callVars, Past
<1>5. OwnInv' /\ TidyUntilDoubled'
  BY <1>1, <1>2 DEF Inv, OwnInv, TidyUntilDoubled, Cached, InLRU, cacheVars, callVars
<1>6. LoneInv'
  <2>1. \A u \in Threads : pc'[u] = "idle" <=> pc[u] = "idle"
    BY <1>1 DEF Past
  <2>2. hostModule' /\ ~hostBuilt' /\ ~shut' => \E u \in Threads : pc'[u] = "mark"
    <3>1. CASE Build(t)
      BY <3>1 DEF Build, Inv, TypeOK
    <3>2. CASE Register(t) \/ Instantiate(t)
      BY <3>2, <1>1 DEF Register, Instantiate, hostVars, Inv, LoneInv
    <3>3. CASE Mark(t)
      BY <3>3 DEF Mark
    <3> QED
      BY <3>1, <3>2, <3>3
  <2>3. ASSUME NEW u \in Threads, alone'[u], pc'[u] = "build" PROVE ~hostBuilt'
    <3>1. CASE Register(t)
      BY <3>1, <2>3, <1>1 DEF Register, hostVars, Inv, TypeOK, LoneInv
    <3>2. CASE Build(t) \/ Instantiate(t)
      BY <3>2, <2>3, <1>1 DEF Build, Instantiate, hostVars, Inv, TypeOK, LoneInv
    <3>3. CASE Mark(t)
      <4>1. u # t /\ pc[u] = "build" /\ alone[u] /\ pc[t] = "mark"
        BY <3>3, <2>3, <1>1 DEF Mark, Inv, TypeOK
      <4> QED
        BY <4>1 DEF Inv, LoneInv
    <3> QED
      BY <3>1, <3>2, <3>3
  <2>4. ~doubled' /\ ~shut' => \A u \in Threads : alone'[u] /\ Past(u)' => cm'[u] \in open'
    BY <1>1, <1>2 DEF Inv, LoneInv
  <2>5. \A u \in Threads : alone'[u] /\ pc'[u] # "idle" => \A v \in Threads \ {u} : pc'[v] = "idle"
    BY <1>1, <2>1 DEF Inv, LoneInv
  <2> QED
    BY <2>2, <2>3, <2>4, <2>5 DEF LoneInv
<1>7. LoneCallSucceeds'
  BY <1>1 DEF Inv, LoneCallSucceeds
<1> QED
  BY <1>3, <1>4, <1>5, <1>6, <1>7 DEF Inv

\* A call that ends: what it closes is its own.
LEMMA FailKeeps ==
  ASSUME Inv, NEW t \in Threads, NEW why \in Failures \cup {"ok"}, Fail(t, why),
         Past(t) \/ pc[t] = "compile", pc[t] # "mark",
         why \in {"host", "name", "closed"} => ~alone[t] \/ doubled \/ shut
  PROVE  Inv'
<1>1. /\ pc' = [pc EXCEPT ![t] = "idle"] /\ result' = [result EXCEPT ![t] = why]
      /\ cm' = [cm EXCEPT ![t] = None]
      /\ open' = IF kind[t] = "invoke" THEN open ELSE open \ {cm[t]}
      /\ UNCHANGED <<cache, lru, used, made, hostBuilt, hostModule, shut, kind, body, calls, alone, doubled>>
  BY DEF Fail, cacheVars, hostVars, callVars
<1>2. TypeOK'
  <2>1. None \in 0 .. made /\ open' \subseteq open
    BY <1>1 DEF Inv, TypeOK, None
  <2>2. cm' \in [Threads -> 0 .. made]
    BY <1>1, <2>1 DEF Inv, TypeOK
  <2>3. pc' \in [Threads -> PCs] /\ result' \in [Threads -> Failures \cup {"ok", "pending"}]
    BY <1>1 DEF Inv, TypeOK, PCs
  <2> QED
    BY <1>1, <2>1, <2>2, <2>3 DEF Inv, TypeOK
<1>3. \A b \in Bodies : kind[t] # "invoke" /\ cache[b] # None => cache[b] # cm[t]
  BY DEF Inv, HeldInv
<1>4. CacheInv'
  BY <1>1, <1>3 DEF Inv, CacheInv, Cached, InLRU
<1>5. HeldInv'
  BY <1>1, <1>2 DEF Inv, TypeOK, HeldInv, Past
<1>6. OwnInv'
  BY <1>1, <1>3 DEF Inv, TypeOK, OwnInv, Past, Cached
<1>7. TidyUntilDoubled'
  <2>1. \A u \in Threads \ {t} : Held(u)' = Held(u)
    BY <1>1 DEF Held, Inv, TypeOK
  <2>2. Held(t) \in {cm[t], None}
    BY DEF Held
  <2>3. ~doubled /\ kind[t] = "invoke" /\ Held(t) \in open => \E b \in Cached : cache[b] = Held(t)
    <3>1. Past(t) => Held(t) = cm[t]
      BY DEF Past, Held
    <3>2. ~Past(t) => Held(t) = None
      BY DEF Past, Held
    <3>3. None \notin open
      BY DEF Inv, TypeOK, None
    <3> QED
      BY <3>1, <3>2, <3>3 DEF Inv, OwnInv
  <2>4. Cached' = Cached /\ InLRU' = InLRU
    BY <1>1 DEF Cached, InLRU
  <2>5. ASSUME ~doubled', NEW m \in open' PROVE m \in {cache[b] : b \in Cached} \cup {Held(u)' : u \in Threads}
    <3>1. m \in open /\ (kind[t] # "invoke" => m # cm[t]) /\ m # None
      BY <2>5, <1>1 DEF Inv, TypeOK, None
    <3>2. m \in {cache[b] : b \in Cached} \cup {Held(u) : u \in Threads}
      BY <3>1, <2>5, <1>1 DEF Inv, TidyUntilDoubled
    <3> QED
      BY <3>1, <3>2, <2>1, <2>2, <2>3, <2>5, <1>1
  <2> QED
    BY <2>4, <2>5, <1>1 DEF Inv, TidyUntilDoubled
<1>8. LoneInv'
  BY <1>1, ZenonT(60) DEF Inv, TypeOK, LoneInv, Past
<1>9. LoneCallSucceeds'
  BY <1>1 DEF Inv, TypeOK, LoneCallSucceeds
<1> QED
  BY <1>2, <1>4, <1>5, <1>6, <1>7, <1>8, <1>9 DEF Inv

LEMMA AddKeeps ==
  ASSUME Inv, NEW t \in Threads, Add(t)
  PROVE  Inv'
<1> DEFINE b == body[t]
           size == Size[b]
           added == Append(lru, b)
           n == Evictions(added, used + size, size)
           dropped == {added[i] : i \in 1 .. n}
           filled == [cache EXCEPT ![b] = cm[t]]
<1>1. /\ b \in Bodies /\ size \in Nat /\ lru \in Seq(Bodies) /\ used + size \in Int
      /\ cm[t] \in 0 .. made /\ kind[t] = "invoke" /\ cm[t] # None /\ pc[t] = "add"
      /\ \A c \in Bodies : cache[c] # cm[t]
      /\ ~shut => cm[t] \in open
  BY SizeAssumption DEF Inv, TypeOK, HeldInv, Add
<1>2. /\ added \in Seq(Bodies) /\ added # <<>> /\ Len(added) = Len(lru) + 1 /\ Len(lru) \in Nat
      /\ added[Len(added)] = b /\ \A i \in 1 .. Len(lru) : added[i] = lru[i]
  BY <1>1
<1> HIDE DEF b, size, added
<1>3. n \in 0 .. (Len(added) - 1)
  BY <1>1, <1>2, EvictionsStop
<1>4. /\ cache' = [c \in Bodies |-> IF c \in dropped THEN None ELSE filled[c]]
      /\ lru' = SubSeq(added, n + 1, Len(added))
      /\ used' = used + size - n * size
      /\ open' = open \ {filled[c] : c \in dropped}
      /\ doubled' = (doubled \/ cache[b] # None)
      /\ pc' = [pc EXCEPT ![t] = "register"]
      /\ UNCHANGED <<made, hostBuilt, hostModule, shut, kind, body, cm, calls, result, alone>>
  BY DEF Add, b, size, added, hostVars, callVars
<1> HIDE DEF n
<1>5. /\ lru' \in Seq(Bodies) /\ Len(lru') = Len(added) - n
      /\ \A i \in 1 .. Len(added) - n : lru'[i] = added[n + i]
  BY <1>2, <1>3, <1>4
<1>6. /\ dropped \subseteq Bodies
      /\ \A c \in Bodies : filled[c] = IF c = b THEN cm[t] ELSE cache[c]
  <2>1. ASSUME NEW i \in 1 .. n PROVE added[i] \in Bodies
    <3>1. i \in 1 .. Len(added)
      BY <1>2, <1>3, <2>1
    <3> QED
      BY <1>2, <3>1
  <2>2. cache \in [Bodies -> Nat]
    BY DEF Inv, TypeOK
  <2> QED
    BY <1>1, <2>1, <2>2
<1> HIDE DEF dropped, filled
<1>7. \A c \in Bodies : cache'[c] = IF c \in dropped THEN None ELSE filled[c]
  BY <1>4
<1>8. \A c, d \in Bodies : filled[c] = filled[d] /\ filled[c] # None => c = d
  BY <1>1, <1>6 DEF Inv, CacheInv
<1>9. TypeOK'
  <2>1. cache' \in [Bodies -> 0 .. made]
    <3>1. None \in 0 .. made
      BY DEF Inv, TypeOK, None
    <3>2. \A c \in Bodies : filled[c] \in 0 .. made
      BY <1>1, <1>6 DEF Inv, TypeOK
    <3> QED
      BY <1>4, <3>1, <3>2
  <2>2. used' \in Int
    <3>1. n * size \in Int
      BY <1>1, <1>2, <1>3
    <3> QED
      BY <3>1, <1>1, <1>4 DEF Inv, TypeOK
  <2>3. pc' \in [Threads -> PCs] /\ doubled' \in BOOLEAN /\ open' \subseteq open
    BY <1>4 DEF Inv, TypeOK, PCs
  <2> QED
    BY <1>4, <1>5, <2>1, <2>2, <2>3 DEF Inv, TypeOK
\* What is listed is dropped or stays.
<1>10. \A c \in InLRU \cup {b} : c \in dropped \/ c \in InLRU'
  <2> SUFFICES ASSUME NEW c \in InLRU \cup {b}, c \notin dropped PROVE c \in InLRU'
    OBVIOUS
  <2>1. PICK i \in 1 .. Len(added) : added[i] = c
    BY <1>2 DEF InLRU
  <2>2. i > n /\ i \in Int /\ n \in Int
    BY <2>1, <1>2, <1>3 DEF dropped
  <2>3. i - n \in 1 .. Len(added) - n /\ n + (i - n) = i
    BY <2>1, <2>2, <1>2
  <2>4. lru'[i - n] = c
    BY <2>1, <2>3, <1>5
  <2> QED
    BY <2>3, <2>4, <1>5 DEF InLRU
<1>11. CacheInv'
  <2>1. Cached' \subseteq InLRU'
    BY <1>6, <1>7, <1>10 DEF Inv, CacheInv, Cached
  <2>2. ~shut' => \A c \in Bodies : cache'[c] # None => cache'[c] \in open'
    <3> SUFFICES ASSUME ~shut', NEW c \in Bodies, cache'[c] # None PROVE cache'[c] \in open'
      OBVIOUS
    <3>1. c \notin dropped /\ cache'[c] = filled[c] /\ ~shut
      BY <1>4, <1>7
    <3>2. filled[c] \in open
      BY <3>1, <1>1, <1>6 DEF Inv, CacheInv
    <3>3. filled[c] \notin {filled[d] : d \in dropped}
      BY <3>1, <1>6, <1>8
    <3> QED
      BY <3>1, <3>2, <3>3, <1>4
  <2>3. \A c, d \in Bodies : cache'[c] = cache'[d] /\ cache'[c] # None => c = d
    BY <1>7, <1>8
  <2> QED
    BY <2>1, <2>2, <2>3 DEF CacheInv
\* Modules in the hands of others are not touched.
<1>12. ASSUME NEW u \in Threads \ {t}, \A c \in Bodies : cache[c] # cm[u], cm[u] # None
       PROVE  (\A c \in Bodies : cache'[c] # cm[u]) /\ (cm[u] \in open => cm[u] \in open')
  <2>1. cm[u] # cm[t]
    BY <1>1, <1>12 DEF Inv, HeldInv
  <2>2. \A c \in Bodies : filled[c] # cm[u]
    BY <2>1, <1>12, <1>6
  <2> QED
    BY <2>2, <1>12, <1>4, <1>6, <1>7
<1>13. HeldInv'
  <2> SUFFICES ASSUME NEW u \in Threads PROVE HeldInv!(u)'
    BY DEF HeldInv
  <2>1. CASE u = t
    BY <2>1, <1>1, <1>4 DEF Inv, TypeOK
  <2>2. CASE u # t
    <3>1. pc'[u] = pc[u] /\ cm' = cm /\ kind' = kind /\ shut' = shut
      BY <2>2, <1>4 DEF Inv, TypeOK
    <3> QED
      BY <2>2, <3>1, <1>12 DEF Inv, HeldInv
  <2> QED
    BY <2>1, <2>2
\* As long as no body is doubled the key just added is listed once, at the end.
<1>14. ASSUME ~doubled'
       PROVE  /\ ~doubled /\ cache[b] = None /\ b \notin dropped
              /\ \A i, j \in 1 .. Len(added) : added[i] = added[j] => i = j
              /\ InLRU \cup {b} = {added[i] : i \in 1 .. Len(added)} /\ InLRU = Cached
  <2>1. ~doubled /\ cache[b] = None
    BY <1>14, <1>4 DEF Inv, TypeOK
  <2>2. InLRU = Cached /\ b \notin InLRU
    BY <2>1, <1>1 DEF Inv, TidyUntilDoubled, Cached
  <2>3. \A i \in 1 .. Len(lru) : added[i] # b
    BY <2>2, <1>2 DEF InLRU
  <2>4. ASSUME NEW i \in 1 .. Len(added), NEW j \in 1 .. Len(added), added[i] = added[j] PROVE i = j
    <3>1. CASE i \in 1 .. Len(lru) /\ j \in 1 .. Len(lru)
      BY <3>1, <2>1, <2>4, <1>2 DEF Inv, TidyUntilDoubled
    <3>2. CASE i = Len(added) \/ j = Len(added)
      BY <3>2, <2>3, <2>4, <1>2
    <3> QED
      BY <3>1, <3>2, <1>2
  <2>5. b \notin dropped
    BY <2>4, <1>2, <1>3 DEF dropped
  <2>6. InLRU \cup {b} = {added[i] : i \in 1 .. Len(added)}
    <3>1. \A i \in 1 .. Len(added) : i \in 1 .. Len(lru) \/ i = Len(added)
      BY <1>2
    <3>2. 1 .. Len(lru) \subseteq 1 .. Len(added) /\ Len(added) \in 1 .. Len(added)
      BY <1>2
    <3> QED
      BY <3>1, <3>2, <1>2 DEF InLRU
  <2> QED
    BY <2>1, <2>2, <2>4, <2>5, <2>6
<1>15. TidyUntilDoubled'
  <2> SUFFICES ASSUME ~doubled' PROVE TidyUntilDoubled!2'
    BY DEF TidyUntilDoubled
  <2>1. \A i, j \in 1 .. Len(lru') : lru'[i] = lru'[j] => i = j
    <3> SUFFICES ASSUME NEW i \in 1 .. Len(lru'), NEW j \in 1 .. Len(lru'), lru'[i] = lru'[j] PROVE i = j
      OBVIOUS
    <3>1. n + i \in 1 .. Len(added) /\ n + j \in 1 .. Len(added) /\ added[n + i] = added[n + j]
      BY <1>2, <1>3, <1>5
    <3>2. n + i = n + j
      BY <3>1, <1>14
    <3> QED
      BY <3>2, <1>3, <1>5
  <2>2. \A c \in InLRU' : c \in InLRU \cup {b} /\ c \notin dropped
    <3> SUFFICES ASSUME NEW i \in 1 .. Len(lru') PROVE lru'[i] \in InLRU \cup {b} /\ lru'[i] \notin dropped
      BY DEF InLRU
    <3>1. n + i \in 1 .. Len(added) /\ lru'[i] = added[n + i] /\ n + i \notin 1 .. n
      BY <1>2, <1>3, <1>5
    <3>2. 1 .. n \subseteq 1 .. Len(added)
      BY <1>2, <1>3
    <3>3. \A j \in 1 .. n : added[j] # added[n + i]
      BY <3>1, <3>2, <1>14
    <3> QED
      BY <3>1, <3>3, <1>14 DEF dropped
  <2>3. InLRU' = Cached'
    <3>1. \A c \in Bodies : c \in InLRU \cup {b} <=> filled[c] # None
      BY <1>1, <1>6, <1>14 DEF Cached
    <3>2. InLRU' \subseteq Bodies
      BY <1>5 DEF InLRU
    <3> QED
      BY <3>1, <3>2, <2>2, <1>7, <1>10 DEF Cached
  <2>4. ASSUME NEW m \in open' PROVE m \in {cache'[c] : c \in Cached'} \cup {Held(u)' : u \in Threads}
    <3>1. m \in open /\ m \notin {filled[c] : c \in dropped}
      BY <1>4
    <3>2. \A u \in Threads : Held(u)' = Held(u)
      BY <1>1, <1>4 DEF Held, Inv, TypeOK
    <3>3. CASE \E c \in Cached : m = cache[c]
      <4>1. PICK c \in Cached : m = cache[c]
        BY <3>3
      <4>2. c \in Bodies /\ filled[c] = m /\ m # None
        BY <4>1, <1>6, <1>14 DEF Cached
      <4>3. cache'[c] = m /\ c \in Cached'
        BY <4>2, <3>1, <1>7 DEF Cached
      <4> QED
        BY <4>3
    <3>4. CASE \E u \in Threads : m = Held(u)
      BY <3>2, <3>4
    <3> QED
      BY <3>1, <3>3, <3>4, <1>14 DEF Inv, TidyUntilDoubled
  <2> QED
    BY <2>1, <2>3, <2>4
<1>16. OwnInv'
  <2> SUFFICES ASSUME ~doubled', NEW u \in Threads, kind'[u] = "invoke", Past(u)', cm'[u] \in open'
               PROVE  \E c \in Cached' : cache'[c] = cm'[u]
    BY DEF OwnInv
  <2>1. CASE u = t
    <3>1. cache'[b] = cm[t]
      BY <1>1, <1>6, <1>7, <1>14
    <3> QED
      BY <3>1, <2>1, <1>1, <1>4 DEF Cached
  <2>2. CASE u # t
    <3>1. kind[u] = "invoke" /\ Past(u) /\ cm[u] \in open /\ cm'[u] = cm[u]
      BY <2>2, <1>4 DEF Past, Inv, TypeOK
    <3>2. PICK c \in Cached : cache[c] = cm[u]
      BY <3>1, <1>14 DEF Inv, OwnInv
    <3>3. c \in Bodies /\ filled[c] = cm[u] /\ cm[u] # None
      BY <3>2, <1>6, <1>14 DEF Cached
    <3>4. c \notin dropped
      BY <3>1, <3>3, <1>4
    <3> QED
      BY <3>1, <3>3, <3>4, <1>7 DEF Cached
  <2> QED
    BY <2>1, <2>2
<1>17. LoneInv' /\ LoneCallSucceeds'
  <2>1. ~doubled' /\ ~shut' => cm'[t] \in open'
    <3> SUFFICES ASSUME ~doubled', ~shut' PROVE cm'[t] \in open'
      OBVIOUS
    <3>1. filled[b] = cm[t] /\ filled[b] \notin {filled[d] : d \in dropped}
      BY <1>1, <1>6, <1>8, <1>14
    <3> QED
      BY <3>1, <1>1, <1>4
  <2>2. \A u \in Threads \ {t} : pc'[u] = pc[u] /\ (pc[u] # "idle" => ~alone[u])
    BY <1>1, <1>4 DEF Inv, TypeOK, LoneInv
  <2>3. pc'[t] = "register"
    BY <1>4 DEF Inv, TypeOK
  <2>4. \A u \in Threads : alone'[u] /\ pc'[u] # "idle" => \A v \in Threads \ {u} : pc'[v] = "idle"
    BY <2>2, <2>3, <1>1, <1>4 DEF Inv, LoneInv
  <2>5. hostModule' /\ ~hostBuilt' /\ ~shut' => \E u \in Threads : pc'[u] = "mark"
    BY <2>2, <2>3, <1>1, <1>4 DEF Inv, LoneInv
  <2>6. \A u \in Threads : alone'[u] /\ pc'[u] = "build" => ~hostBuilt'
    BY <2>2, <2>3, <1>4
  <2>7. ~doubled' /\ ~shut' => \A u \in Threads : alone'[u] /\ Past(u)' => cm'[u] \in open'
    BY <2>1, <2>2, <1>4 DEF Past
  <2>8. LoneCallSucceeds'
    BY <1>4, <1>14 DEF Inv, LoneCallSucceeds
  <2> QED
    BY <2>4, <2>5, <2>6, <2>7, <2>8 DEF LoneInv
<1> QED
  BY <1>9, <1>11, <1>13, <1>15, <1>16, <1>17 DEF Inv

LEMMA HitKeeps ==
  ASSUME Inv, NEW t \in Threads, NEW b \in Bodies, Hit(t, b)
  PROVE  Inv'
<1>1. /\ lru' = Bump(b) /\ cache[b] # None /\ pc[t] = "idle" /\ kind' = [kind EXCEPT ![t] = "invoke"]
      /\ cm' = [cm EXCEPT ![t] = cache[b]] /\ pc' = [pc EXCEPT ![t] = "register"]
      /\ body' = [body EXCEPT ![t] = b] /\ result' = [result EXCEPT ![t] = "pending"]
      /\ alone' = [u \in Threads |-> IF u = t THEN \A v \in Threads : pc[v] = "idle"
                                               ELSE alone[u] /\ pc[u] = "idle"]
      /\ calls < MaxCalls /\ calls' = calls + 1
      /\ UNCHANGED <<cache, used, open, made, hostBuilt, hostModule, shut, doubled>>
  BY DEF Hit, Begin, hostVars
<1>2. b \in InLRU
  BY <1>1 DEF Inv, CacheInv, Cached
<1> DEFINE n == Len(lru)
<1>13. lru \in Seq(Bodies)
  BY DEF Inv, TypeOK
<1>3. PICK was \in [1 .. n -> 1 .. n] :
        /\ \A k \in 1 .. n : Bump(b)[k] = lru[was[k]]
        /\ \A k, m \in 1 .. n : was[k] = was[m] => k = m
        /\ \A m \in 1 .. n : \E k \in 1 .. n : was[k] = m
  BY <1>2, <1>13, BumpMoves
<1>11. lru' \in Seq(Bodies) /\ Len(lru') = n /\ \A k \in 1 .. n : lru'[k] = lru[was[k]]
  BY <1>1, <1>2, <1>3, <1>13, BumpMoves
<1>12. InLRU' = InLRU
  <2>1. InLRU = {lru[k] : k \in 1 .. n} /\ InLRU' = {lru[was[k]] : k \in 1 .. n}
    BY <1>11 DEF InLRU
  <2>2. \A k \in 1 .. n : was[k] \in 1 .. n
    BY <1>3
  <2>3. \A m \in 1 .. n : \E k \in 1 .. n : lru[m] = lru[was[k]]
    BY <1>3
  <2>4. \A c : c \in {lru[was[k]] : k \in 1 .. n} => c \in {lru[k] : k \in 1 .. n}
    BY <2>2, Zenon
  <2>5. ASSUME NEW m \in 1 .. n PROVE lru[m] \in {lru[was[k]] : k \in 1 .. n}
    <3>1. PICK k \in 1 .. n : lru[m] = lru[was[k]]
      BY <2>3
    <3> QED
      BY <3>1, Zenon
  <2>6. \A c : c \in {lru[k] : k \in 1 .. n} => c \in {lru[was[k]] : k \in 1 .. n}
    BY <2>5, Zenon
  <2> QED
    BY <2>1, <2>4, <2>6, Zenon
<1>4. TypeOK'
  <2>1. calls' \in 0 .. MaxCalls
    BY <1>1, CallsAssumption DEF Inv, TypeOK
  <2> QED
    BY <1>1, <1>11, <2>1 DEF Inv, TypeOK, PCs, Kinds
<1>5. CacheInv'
  BY <1>1, <1>12 DEF Inv, CacheInv, Cached
<1>6. HeldInv'
  BY <1>1 DEF Inv, TypeOK, HeldInv
<1>7. OwnInv'
  BY <1>1 DEF Inv, TypeOK, OwnInv, Past, Cached
<1>8. TidyUntilDoubled'
  <2>1. Held(t) = None /\ \A u \in Threads \ {t} : Held(u)' = Held(u)
    BY <1>1 DEF Held, Inv, TypeOK
  <2>2. None \notin open
    BY DEF Inv, TypeOK, None
  <2>3. ~doubled => \A i, j \in 1 .. Len(lru') : lru'[i] = lru'[j] => i = j
    <3> SUFFICES ASSUME ~doubled, NEW i \in 1 .. n, NEW j \in 1 .. n, lru'[i] = lru'[j] PROVE i = j
      BY <1>11
    <3>1. was[i] \in 1 .. n /\ was[j] \in 1 .. n /\ lru[was[i]] = lru[was[j]]
      BY <1>3, <1>11
    <3>2. was[i] = was[j]
      BY <3>1 DEF Inv, TidyUntilDoubled
    <3> QED
      BY <3>2, <1>3
  <2>4. Cached' = Cached /\ cache' = cache /\ open' = open /\ doubled' = doubled
    BY <1>1 DEF Cached
  <2>5. ~doubled => open \subseteq {cache[c] : c \in Cached} \cup {Held(u)' : u \in Threads}
    BY <2>1, <2>2 DEF Inv, TidyUntilDoubled
  <2> QED
    BY <2>3, <2>4, <2>5, <1>12 DEF Inv, TidyUntilDoubled
<1>9. LoneInv'
  <2>1. ~shut => cache[b] \in open
    BY <1>1 DEF Inv, CacheInv
  <2> QED
    BY <2>1, <1>1 DEF Inv, TypeOK, LoneInv, Past
<1>10. LoneCallSucceeds'
  BY <1>1 DEF Inv, TypeOK, LoneCallSucceeds
<1> QED
  BY <1>4, <1>5, <1>6, <1>7, <1>8, <1>9, <1>10 DEF Inv

LEMMA CallEnds ==
  ASSUME Inv, NEW t \in Threads, CompileFails(t) \/ BuildFails(t) \/ InstantiateFails(t) \/ Finish(t)
  PROVE  Inv'
<1>1. CASE CompileFails(t)
  BY <1>1, FailKeeps DEF CompileFails, Failures
<1>2. CASE BuildFails(t)
  <2>1. hostModule /\ alone[t] => shut
    BY <1>2 DEF BuildFails, Inv, LoneInv
  <2> QED
    BY <1>2, <2>1, FailKeeps DEF BuildFails, Failures, Past
<1>3. CASE InstantiateFails(t)
  <2>1. NameTaken(t) => ~alone[t]
    BY <1>3 DEF InstantiateFails, NameTaken, Live, Inv, LoneInv
  <2>2. cm[t] \notin open => ~alone[t] \/ doubled \/ shut
    BY <1>3 DEF InstantiateFails, Inv, LoneInv, Past
  <2>3. PICK why \in {"name", "closed", "trap"} :
          Fail(t, why) /\ (why \in {"name", "closed"} => ~alone[t] \/ doubled \/ shut)
    BY <1>3, <2>1, <2>2 DEF InstantiateFails
  <2> QED
    BY <1>3, <2>3, FailKeeps DEF InstantiateFails, Failures, Past
<1>4. CASE Finish(t)
  BY <1>4, FailKeeps DEF Finish, Past
<1> QED
  BY <1>1, <1>2, <1>3, <1>4

THEOREM Inductive == Inv /\ [Next]_vars => Inv'
<1> SUFFICES ASSUME Inv, [Next]_vars PROVE Inv'
  OBVIOUS
<1>1. CASE Close
  BY <1>1, CloseKeeps
<1>2. ASSUME NEW t \in Threads, Step(t) PROVE Inv'
  <2>1. ASSUME NEW b \in Bodies, Miss(t, b) \/ Probe(t, b) \/ Check(t, b) \/ Run(t, b) PROVE Inv'
    BY <2>1, BeginKeeps DEF Miss, Probe, Check, Run, Direct, Kinds
  <2> QED
    BY <1>2, <2>1, HitKeeps, CompileKeeps, AddKeeps, HostKeeps, CallEnds DEF Step
<1>3. CASE UNCHANGED vars
  <2>1. TypeOK' /\ CacheInv' /\ HeldInv'
    BY <1>3 DEF vars, Inv, TypeOK, CacheInv, HeldInv, Cached, InLRU
  <2>2. OwnInv' /\ TidyUntilDoubled' /\ LoneInv' /\ LoneCallSucceeds'
    BY <1>3 DEF vars, Inv, OwnInv, Past, TidyUntilDoubled, Held, Cached, InLRU, LoneInv, LoneCallSucceeds
  <2> QED
    BY <2>1, <2>2 DEF Inv
<1> QED
  BY <1>1, <1>2, <1>3 DEF Next

THEOREM Invariance == Spec => []Inv
BY Initially, Inductive, PTL DEF Spec

-----------------------------------------------------------------------------
\* Every variable has its type, however many goroutines share the runtime (runtime.go: Runtime).
THEOREM TypeCorrect == Spec => []TypeOK
<1>1. Inv => TypeOK
  BY DEF Inv
<1> QED
  BY <1>1, Invariance, PTL

\* The cache hands out no module that eviction has closed, and lists every one it holds,
\* although two calls may compile one body at once (runtime.go: LoadCached, evictIfOverLocked).
THEOREM CacheIsSound == Spec => []CacheSound
<1>1. Inv => CacheSound
  BY DEF Inv, CacheInv, CacheSound, Cached
<1> QED
  BY <1>1, Invariance, PTL

\* Only a body compiled twice at once makes the list, the cache and the open modules differ
\* (runtime.go: LoadCached).
THEOREM TidyTillThen == Spec => []TidyUntilDoubled
<1>1. Inv => TidyUntilDoubled
  BY DEF Inv
<1> QED
  BY <1>1, Invariance, PTL

\* The runtime's own state fails no call that had the runtime for itself (runtime.go:
\* InstantiateWithBudgets, RegisterHost).
THEOREM AloneSucceeds == Spec => []LoneCallSucceeds
<1>1. Inv => LoneCallSucceeds
  BY DEF Inv
<1> QED
  BY <1>1, Invariance, PTL

-----------------------------------------------------------------------------
(***************************************************************************)
(* BridgeServer, for any number of calls: its types, and what Stop leaves   *)
(* behind.  The connections being served are those the WaitGroup counts and *)
(* the one Accept has just returned (ServedInv); Stop returns when the      *)
(* first set is empty, and after that none is accepted.                     *)
(***************************************************************************)
Busy == {"reading", "waiting", "running", "answering", "failing"}

ServedInv ==
  /\ serve = "adding" => taken \in Clients /\ conn[taken] = "accepted" /\ handler[taken] = "none"
  /\ serve # "adding" => taken = NoClient
  /\ \A c \in Clients :
       /\ conn[c] = "accepted" => c = taken \/ c \in counted
       /\ conn[c] \in {"none", "backlog"} => handler[c] = "none"

LeftInv == stop = "done" /\ listener = "closed" => \E x : InFlight \subseteq {x}

BridgeInv == BridgeTypeOK /\ ServedInv /\ LeftInv

THEOREM BridgeInitially == BridgeInit => BridgeInv
BY DEF BridgeInit, BridgeInv, BridgeTypeOK, ServedInv, LeftInv, InFlight, Methods

\* Nothing but the locks and Stop's own progress changes, and Stop has not returned.
LEMMA LockStep ==
  ASSUME BridgeInv, BridgeTypeOK', UNCHANGED <<serverVars, clientVars, handler, counted>>,
         stop' = "done" => stop = "done"
  PROVE  BridgeInv'
BY DEF BridgeInv, ServedInv, LeftInv, InFlight, serverVars, clientVars

\* No connection is accepted: what was left can only become less.
LEMMA NothingAccepted ==
  ASSUME LeftInv, stop' = stop, listener' = "closed" => listener = "closed",
         \A c \in Clients : conn'[c] = "accepted" => conn[c] = "accepted"
  PROVE  LeftInv'
BY DEF LeftInv, InFlight

LEMMA ServeKeeps ==
  ASSUME BridgeInv, ServeStep
  PROVE  BridgeInv'
<1>1. CASE Listen
  BY <1>1 DEF Listen, BridgeInv, BridgeTypeOK, ServedInv, LeftInv, InFlight, lockVars, clientVars
<1>2. ASSUME NEW c \in Clients, Accept(c) PROVE BridgeInv'
  <2>1. /\ listener' = "open" /\ serve' = "adding" /\ taken' = c /\ serve = "accepting"
        /\ conn' = [conn EXCEPT ![c] = "accepted"] /\ conn[c] = "backlog"
        /\ UNCHANGED <<lockVars, sent, dead, answer, handler, counted>>
    BY <1>2 DEF Accept
  <2>2. BridgeTypeOK'
    BY <2>1 DEF BridgeInv, BridgeTypeOK, lockVars
  <2>3. ServedInv'
    BY <2>1, ClientsAssumption DEF BridgeInv, BridgeTypeOK, ServedInv, lockVars
  <2>4. LeftInv'
    BY <2>1 DEF LeftInv
  <2> QED
    BY <2>2, <2>3, <2>4 DEF BridgeInv
<1>3. CASE Spawn
  <2>1. /\ taken \in Clients /\ conn[taken] = "accepted" /\ handler[taken] = "none"
        /\ taken' = NoClient /\ serve' = "accepting"
        /\ handler' = [handler EXCEPT ![taken] = "reading"] /\ counted' = counted \cup {taken}
        /\ UNCHANGED <<listener, lockVars, clientVars>>
    BY <1>3 DEF Spawn, BridgeInv, ServedInv
  <2>2. BridgeTypeOK'
    BY <2>1 DEF BridgeInv, BridgeTypeOK, lockVars, clientVars
  <2>3. ServedInv'
    BY <2>1 DEF BridgeInv, BridgeTypeOK, ServedInv, clientVars
  <2>4. LeftInv'
    BY <2>1 DEF BridgeInv, LeftInv, InFlight, lockVars, clientVars
  <2> QED
    BY <2>2, <2>3, <2>4 DEF BridgeInv
<1>4. CASE AcceptFails
  BY <1>4 DEF AcceptFails, BridgeInv, BridgeTypeOK, ServedInv, LeftInv, InFlight, lockVars, clientVars
<1> QED
  BY <1>1, <1>2, <1>3, <1>4 DEF ServeStep

LEMMA StopKeeps ==
  ASSUME BridgeInv, StopAsked \/ StopStep
  PROVE  BridgeInv'
<1>1. CASE StopAsked
  BY <1>1, LockStep DEF StopAsked, BridgeInv, BridgeTypeOK, serverVars, clientVars
<1>2. CASE StopFlags
  BY <1>2, LockStep DEF StopFlags, BridgeInv, BridgeTypeOK, serverVars, clientVars
<1>3. CASE StopCloses
  <2>1. BridgeTypeOK'
    BY <1>3 DEF StopCloses, BridgeInv, BridgeTypeOK
  <2>2. ServedInv'
    BY <1>3 DEF StopCloses, BridgeInv, BridgeTypeOK, ServedInv
  <2>3. LeftInv'
    BY <1>3 DEF StopCloses, LeftInv
  <2> QED
    BY <2>1, <2>2, <2>3 DEF BridgeInv
<1>4. CASE StopReturns
  <2>1. BridgeTypeOK' /\ ServedInv'
    BY <1>4 DEF StopReturns, BridgeInv, BridgeTypeOK, ServedInv, serverVars, clientVars
  <2>2. InFlight' \subseteq {taken}
    BY <1>4 DEF StopReturns, BridgeInv, ServedInv, InFlight, clientVars
  <2> QED
    BY <2>1, <2>2 DEF BridgeInv, LeftInv
<1> QED
  BY <1>1, <1>2, <1>3, <1>4 DEF StopStep

LEMMA ClientKeeps ==
  ASSUME BridgeInv, NEW c \in Clients, Dial(c) \/ Send(c) \/ Die(c)
  PROVE  BridgeInv'
<1>1. BridgeTypeOK'
  BY ZenonT(60) DEF Dial, Send, Die, BridgeInv, BridgeTypeOK, serverVars, lockVars
<1>2. ServedInv'
  BY DEF Dial, Send, Die, BridgeInv, BridgeTypeOK, ServedInv, serverVars
<1>3. LeftInv'
  <2>1. \A d \in Clients : conn'[d] = "accepted" => conn[d] = "accepted"
    BY DEF Dial, Send, Die, BridgeInv, BridgeTypeOK
  <2>2. stop' = stop /\ listener' = listener
    BY DEF Dial, Send, Die, serverVars, lockVars
  <2> QED
    BY <2>1, <2>2, NothingAccepted DEF BridgeInv
<1> QED
  BY <1>1, <1>2, <1>3 DEF BridgeInv

LEMMA HandleKeeps ==
  ASSUME BridgeInv, NEW c \in Clients, Handle(c)
  PROVE  BridgeInv'
<1>1. CASE Read(c) \/ Dispatch(c) \/ HandlerReturns(c)
  <2>1. \E h \in Busy : handler' = [handler EXCEPT ![c] = h]
    BY <1>1 DEF Read, Dispatch, HandlerReturns, Busy
  <2>2. handler[c] \in Busy /\ UNCHANGED <<serverVars, lockVars, clientVars, counted>>
    BY <1>1 DEF Read, Dispatch, HandlerReturns, Busy
  <2>3. BridgeTypeOK'
    BY <2>1, <2>2 DEF BridgeInv, BridgeTypeOK, Busy, serverVars, lockVars, clientVars
  <2>4. ServedInv'
    BY <2>1, <2>2 DEF BridgeInv, BridgeTypeOK, ServedInv, Busy, serverVars, clientVars
  <2>5. LeftInv'
    BY <2>2 DEF BridgeInv, LeftInv, InFlight, serverVars, lockVars, clientVars
  <2> QED
    BY <2>3, <2>4, <2>5 DEF BridgeInv
<1>2. CASE Respond(c)
  <2>1. /\ handler[c] \in Busy /\ counted' = counted \ {c}
        /\ handler' = [handler EXCEPT ![c] = "done"] /\ conn' = [conn EXCEPT ![c] = "over"]
        /\ UNCHANGED <<serverVars, lockVars, sent, dead>>
    BY <1>2 DEF Respond, Busy
  <2>2. answer' \in [Clients -> {"none", "ok", "error"}]
    BY <1>2 DEF Respond, BridgeInv, BridgeTypeOK
  <2>3. BridgeTypeOK'
    BY <2>1, <2>2 DEF BridgeInv, BridgeTypeOK, serverVars, lockVars
  <2>4. ServedInv'
    BY <2>1 DEF BridgeInv, BridgeTypeOK, ServedInv, Busy, serverVars
  <2>5. LeftInv'
    BY <2>1, NothingAccepted DEF BridgeInv, BridgeTypeOK, serverVars, lockVars
  <2> QED
    BY <2>3, <2>4, <2>5 DEF BridgeInv
<1> QED
  BY <1>1, <1>2 DEF Handle

THEOREM BridgeInductive == BridgeInv /\ [BridgeNext]_bridgeVars => BridgeInv'
<1> SUFFICES ASSUME BridgeInv, [BridgeNext]_bridgeVars PROVE BridgeInv'
  OBVIOUS
<1>1. CASE RegisterAsked \/ RegisterStep
  <2>1. BridgeTypeOK'
    BY <1>1 DEF RegisterAsked, RegisterStep, Registers, BridgeInv, BridgeTypeOK, Methods, serverVars, clientVars
  <2> QED
    BY <1>1, <2>1, LockStep DEF RegisterAsked, RegisterStep, Registers
<1>2. CASE UNCHANGED bridgeVars
  BY <1>2 DEF bridgeVars, BridgeInv, BridgeTypeOK, ServedInv, LeftInv, InFlight
<1> QED
  BY <1>1, <1>2, ServeKeeps, StopKeeps, ClientKeeps, HandleKeeps DEF BridgeNext

THEOREM BridgeInvariance == BridgeSpec => []BridgeInv
BY BridgeInitially, BridgeInductive, PTL DEF BridgeSpec

\* Every variable of the server and its clients has its type, and the WaitGroup counts the
\* goroutines that have not ended (bridge.go: wg.Add, wg.Done).
THEOREM BridgeTypeCorrect == BridgeSpec => []BridgeTypeOK
<1>1. BridgeInv => BridgeTypeOK
  BY DEF BridgeInv
<1> QED
  BY <1>1, BridgeInvariance, PTL

\* Once Stop has closed the listener and returned, one connection at most is still served,
\* however many clients call (bridge.go: Stop, wg.Wait).
THEOREM StopLeaves == BridgeSpec => []StopLeavesAtMostOne
<1>1. BridgeInv => StopLeavesAtMostOne
  <2> SUFFICES ASSUME BridgeInv, stop = "done", listener = "closed" PROVE Cardinality(InFlight) <= 1
    BY DEF StopLeavesAtMostOne
  <2>1. PICK x : InFlight \subseteq {x}
    BY DEF BridgeInv, LeftInv
  <2>2. InFlight = {} \/ InFlight = {x}
    BY <2>1
  <2>3. Cardinality({}) = 0 /\ Cardinality({x}) = 1
    BY FS_EmptySet, FS_Singleton, Zenon
  <2> QED
    BY <2>2, <2>3
<1> QED
  BY <1>1, BridgeInvariance, PTL

-----------------------------------------------------------------------------
(***************************************************************************)
(* NetworkPolicy, for any plugins, hosts, manifests and modes, when no      *)
(* command runs beside a session or another command (~Overlap).  The file   *)
(* is then at every instant what was last written to it without an error    *)
(* (disk = acked); what a session has in memory is ahead of that by its own *)
(* decisions only (SessionInv), so writing it whole puts nothing back.      *)
(***************************************************************************)
RequestLabels ==
  {"idle", "lookup", "asking", "record", "write", "rename", "act", "piping", "over"}
CommandLabels == {"idle", "loaded", "write", "rename", "remove", "done"}

PolicyTypes ==
  /\ disk \in Entries /\ mem \in Entries /\ latest \in Entries /\ acked \in Entries
  /\ tmp \in SUBSET Entries
  /\ mode \in Modes \cup {"down"}
  /\ at \in [Conns -> RequestLabels] /\ decided \in [Conns -> Decisions]
  /\ cpc \in [Commands -> CommandLabels] /\ buf \in [Commands -> Entries]
  /\ ckey \in [Commands -> SUBSET Keys]
  /\ cdecision \in [Commands -> Persistent \cup {"none"}]

\* A session knows of each key the file's decision or a later one of its own, and no command
\* is at work meanwhile; without a session no request is under way.
SessionInv ==
  /\ mode # "down" => Running = {} /\ \A k \in Keys : mem[k] \in {acked[k], latest[k]}
  /\ mode = "down" => \A c \in Conns : at[c] \in {"idle", "over"}

\* A request that writes the file holds the store's lock, and what it is about to rename is
\* the session's copy.
HolderInv ==
  \A c \in Conns :
    /\ at[c] \in {"write", "rename"} => mu = c
    /\ at[c] = "rename" => tmp = {mem}

\* A command at work is the only one, and its copy is the file with its change.
CommandInv ==
  /\ \A p, q \in Running : p = q
  /\ \A p \in Commands :
       /\ cpc[p] = "loaded" => buf[p] = disk
       /\ cpc[p] \in {"write", "rename"} => buf[p] = Changed(p, disk)
       /\ cpc[p] = "rename" => tmp = {buf[p]}
       /\ cpc[p] = "remove" => ckey[p] = Keys /\ cdecision[p] = "none"

PolicyInv == PolicyTypes /\ disk = acked /\ SessionInv /\ HolderInv /\ CommandInv

\* What a command makes of the entries it does not change.
LEMMA ChangedIsEntries ==
  ASSUME PolicyTypes, NEW p \in Commands, NEW f \in Entries
  PROVE  Changed(p, f) \in Entries
BY DEF PolicyTypes, Changed, Entries

\* A session begins with the file, and leaves it when it ends or is killed.
LEMMA SessionKeeps ==
  ASSUME ~Overlap, PolicyInv, Start \/ End \/ Kill
  PROVE  PolicyInv'
<1>1. UNCHANGED <<disk, tmp, decided, cpc, buf, ckey, cdecision, latest, acked>>
  BY DEF Start, End, Kill, request, command, history
<1>2. PolicyTypes'
  <2>1. NoEntries \in Entries
    BY DEF NoEntries, Entries
  <2>2. mode' \in Modes \cup {"down"} /\ mem' \in Entries /\ at' \in [Conns -> RequestLabels]
    BY <2>1 DEF Start, End, Kill, PolicyInv, PolicyTypes, request, RequestLabels
  <2> QED
    BY <1>1, <2>2 DEF PolicyInv, PolicyTypes
<1>3. CommandInv'
  BY <1>1 DEF PolicyInv, CommandInv, Running, Changed
<1>4. CASE Start
  <2>1. Running = {} /\ mode' \in Modes /\ mem' = disk /\ at' = at /\ mode = "down"
    BY <1>4 DEF Start, request
  <2>2. mode' # "down"
    BY <2>1, ModeAssumption
  <2>3. \A k \in Keys : mem'[k] = acked'[k]
    BY <1>1, <2>1 DEF PolicyInv
  <2>4. SessionInv'
    BY <1>1, <2>1, <2>2, <2>3 DEF SessionInv, Running
  <2>5. HolderInv'
    BY <2>1 DEF PolicyInv, SessionInv, HolderInv
  <2> QED
    BY <1>1, <1>2, <1>3, <2>4, <2>5 DEF PolicyInv
<1>5. CASE End \/ Kill
  <2>1. mode' = "down" /\ \A c \in Conns : at'[c] \in {"idle", "over"}
    BY <1>5 DEF End, Kill, request
  <2> QED
    BY <1>1, <1>2, <1>3, <2>1 DEF PolicyInv, SessionInv, HolderInv
<1> QED
  BY <1>4, <1>5

\* The steps of a request that touch neither the file nor the session's copy.
LEMMA QuietKeeps ==
  ASSUME PolicyInv, NEW c \in Conns,
         Request(c) \/ Lookup(c) \/ Answer(c) \/ Reply(c) \/ HangUp(c)
  PROVE  PolicyInv'
<1>1. UNCHANGED <<disk, tmp, mode, mem, mu, cpc, buf, ckey, cdecision, latest, acked>>
  BY DEF Request, Lookup, Answer, Reply, HangUp, session, command, history
<1>2. mode # "down"
  BY DEF Request, Lookup, Answer, Reply, HangUp, PolicyInv, SessionInv
<1>3. \E l \in RequestLabels \ {"write", "rename"} : at' = [at EXCEPT ![c] = l]
  BY DEF Request, Lookup, Answer, Reply, HangUp, Go, RequestLabels
<1>4. decided' \in [Conns -> Decisions]
  <2>1. CASE Lookup(c)
    <3>1. mem[KeyOf[c]] # "none" => mem[KeyOf[c]] \in Decisions
      BY KeyAssumption DEF PolicyInv, PolicyTypes, Entries, Decisions
    <3>2. mode # "interactive" => ModeDecision \in Decisions
      BY <1>2, ModeAssumption DEF PolicyInv, PolicyTypes, ModeDecision, Decisions, Persistent
    <3> QED
      BY <2>1, <3>1, <3>2 DEF Lookup, PolicyInv, PolicyTypes, Decisions
  <2>2. CASE Answer(c)
    BY <2>2 DEF Answer, PolicyInv, PolicyTypes
  <2>3. CASE Request(c) \/ Reply(c) \/ HangUp(c)
    BY <2>3 DEF Request, Reply, HangUp, PolicyInv, PolicyTypes
  <2> QED
    BY <2>1, <2>2, <2>3
<1>5. PolicyTypes'
  BY <1>1, <1>3, <1>4 DEF PolicyInv, PolicyTypes
<1>6. SessionInv'
  BY <1>1, <1>2 DEF PolicyInv, SessionInv, Running
<1>7. HolderInv'
  BY <1>1, <1>3 DEF PolicyInv, PolicyTypes, HolderInv
<1>8. CommandInv'
  BY <1>1 DEF PolicyInv, CommandInv, Running, Changed
<1> QED
  BY <1>1, <1>5, <1>6, <1>7, <1>8 DEF PolicyInv

\* A decision is recorded under the lock.
LEMMA RecordKeeps ==
  ASSUME PolicyInv, NEW c \in Conns, Record(c)
  PROVE  PolicyInv'
<1> DEFINE k == KeyOf[c]
<1>1. /\ at[c] = "record" /\ mu = Nobody /\ k \in Keys
      /\ UNCHANGED <<disk, tmp, mode, decided, cpc, buf, ckey, cdecision, acked>>
  BY KeyAssumption DEF Record, command
<1>2. PolicyTypes /\ mode # "down" /\ Running = {} /\ disk = acked
      /\ \A d \in Conns : at[d] \notin {"write", "rename"}
  BY <1>1, NobodyAssumption DEF PolicyInv, SessionInv, HolderInv
<1>3. \/ /\ decided[c] \in Persistent
         /\ mem' = [mem EXCEPT ![k] = decided[c]] /\ latest' = [latest EXCEPT ![k] = decided[c]]
         /\ mu' = c /\ at' = [at EXCEPT ![c] = "write"]
      \/ /\ mu' = c /\ at' = [at EXCEPT ![c] = "write"] /\ mem' = mem /\ latest' = latest
      \/ at' = [at EXCEPT ![c] = "act"] /\ mem' = mem /\ latest' = latest
  BY DEF Record, Go
<1>4. PolicyTypes'
  BY <1>1, <1>2, <1>3 DEF PolicyTypes, Entries, RequestLabels
<1>5. \A l \in Keys : mem'[l] \in {acked'[l], latest'[l]}
  <2>1. \A l \in Keys : mem[l] \in {acked[l], latest[l]}
    BY <1>2 DEF PolicyInv, SessionInv
  <2> QED
    BY <1>1, <1>2, <1>3, <2>1 DEF PolicyTypes, Entries
<1>6. SessionInv'
  BY <1>1, <1>2, <1>5 DEF SessionInv, Running
<1>7. HolderInv'
  BY <1>2, <1>3 DEF PolicyTypes, HolderInv
<1>8. CommandInv'
  BY <1>1, <1>2 DEF PolicyInv, CommandInv, Running, Changed
<1> QED
  BY <1>1, <1>2, <1>4, <1>6, <1>7, <1>8 DEF PolicyInv

\* The session's copy is written whole; nothing in the file moves back.
LEMMA SaveKeeps ==
  ASSUME PolicyInv, NEW c \in Conns, Write(c) \/ Rename(c) \/ SaveFails(c)
  PROVE  PolicyInv'
<1>1. /\ at[c] \in {"write", "rename"}
      /\ UNCHANGED <<mode, mem, decided, cpc, buf, ckey, cdecision, latest>>
  BY DEF Write, Rename, SaveFails, session, command, history
<1>2. /\ PolicyTypes /\ mode # "down" /\ Running = {} /\ disk = acked /\ mu = c
      /\ \A k \in Keys : mem[k] \in {acked[k], latest[k]}
  BY <1>1 DEF PolicyInv, SessionInv, HolderInv
<1>3. \A d \in Conns : d # c => at[d] \notin {"write", "rename"}
  BY <1>2 DEF PolicyInv, HolderInv
<1>4. CASE Write(c)
  <2>1. /\ tmp' = {mem} /\ at' = [at EXCEPT ![c] = "rename"]
        /\ UNCHANGED <<disk, mu, acked>>
    BY <1>4 DEF Write, Go, session, history
  <2>2. PolicyTypes'
    BY <1>1, <1>2, <2>1 DEF PolicyTypes, RequestLabels
  <2>3. SessionInv' /\ HolderInv' /\ CommandInv'
    BY <1>1, <1>2, <1>3, <2>1 DEF PolicyTypes, SessionInv, HolderInv, CommandInv, Running
  <2> QED
    BY <1>2, <2>1, <2>2, <2>3 DEF PolicyInv
<1>5. CASE Rename(c)
  <2>1. /\ at[c] = "rename" /\ \E written \in tmp : disk' = written
        /\ acked' = [k \in Keys |-> IF mem[k] = latest[k] THEN latest[k] ELSE acked[k]]
        /\ tmp' = {} /\ at' = [at EXCEPT ![c] = "act"]
    BY <1>5 DEF Rename, Go
  <2>2. disk' = mem
    BY <2>1 DEF PolicyInv, HolderInv
  <2>3. acked' = mem
    <3>1. \A k \in Keys : (IF mem[k] = latest[k] THEN latest[k] ELSE acked[k]) = mem[k]
      BY <1>2
    <3>2. mem = [k \in Keys |-> mem[k]]
      BY <1>2 DEF PolicyTypes, Entries
    <3> QED
      BY <2>1, <3>1, <3>2
  <2>4. PolicyTypes'
    BY <1>1, <1>2, <2>1, <2>2, <2>3 DEF PolicyTypes, RequestLabels
  <2>5. SessionInv' /\ HolderInv' /\ CommandInv'
    BY <1>1, <1>2, <1>3, <2>1, <2>3 DEF PolicyTypes, SessionInv, HolderInv, CommandInv, Running
  <2> QED
    BY <2>2, <2>3, <2>4, <2>5 DEF PolicyInv
<1>6. CASE SaveFails(c)
  <2>1. at' = [at EXCEPT ![c] = "act"] /\ UNCHANGED <<disk, tmp, acked>>
    BY <1>6 DEF SaveFails, Go, history
  <2>2. PolicyTypes'
    BY <1>1, <1>2, <2>1 DEF PolicyTypes, RequestLabels
  <2>3. SessionInv' /\ HolderInv' /\ CommandInv'
    BY <1>1, <1>2, <1>3, <2>1 DEF PolicyTypes, SessionInv, HolderInv, CommandInv, Running
  <2> QED
    BY <1>2, <2>1, <2>2, <2>3 DEF PolicyInv
<1> QED
  BY <1>4, <1>5, <1>6

\* A command loads the file when nobody else has a copy, and makes its change to that copy.
LEMMA CommandBegins ==
  ASSUME ~Overlap, PolicyInv, NEW p \in Commands, Load(p) \/ Change(p)
  PROVE  PolicyInv'
<1>1. UNCHANGED <<disk, tmp, mode, mem, mu, at, decided, latest, acked>>
  BY DEF Load, Change, session, request, history
<1>2. PolicyTypes /\ disk = acked /\ HolderInv /\ SessionInv /\ CommandInv
  BY DEF PolicyInv
<1>3. mode = "down"
  BY DEF Load, Change, PolicyInv, SessionInv, Running
<1>4. SessionInv' /\ HolderInv'
  BY <1>1, <1>2, <1>3 DEF SessionInv, HolderInv
<1>5. CASE Load(p)
  <2>1. /\ Running = {} /\ buf' = [buf EXCEPT ![p] = disk] /\ cpc' = [cpc EXCEPT ![p] = "loaded"]
        /\ UNCHANGED <<ckey, cdecision>>
    BY <1>5 DEF Load
  <2>2. PolicyTypes'
    BY <1>1, <1>2, <2>1 DEF PolicyTypes, CommandLabels
  <2>3. Running' = {p}
    BY <1>2, <2>1 DEF PolicyTypes, Running
  <2>4. \A q \in Commands : q # p => cpc'[q] \in {"idle", "done"}
    BY <2>3 DEF Running
  <2>5. CommandInv'
    BY <1>1, <1>2, <2>1, <2>3, <2>4 DEF PolicyTypes, CommandInv
  <2> QED
    BY <1>1, <1>2, <1>4, <2>2, <2>5 DEF PolicyInv
<1>6. CASE Change(p)
  <2>1. /\ cpc[p] = "loaded" /\ buf[p] = disk
        /\ \A q \in Commands : q # p => cpc[q] \in {"idle", "done"}
    BY <1>2, <1>6 DEF Change, CommandInv, Running
  <2>2. /\ ckey' \in [Commands -> SUBSET Keys]
        /\ cdecision' \in [Commands -> Persistent \cup {"none"}]
    BY <1>2, <1>6, ScopeAssumption DEF Change, PolicyTypes
  <2>3. /\ cpc' = [cpc EXCEPT ![p] = IF ckey'[p] = Keys /\ cdecision'[p] = "none"
                                     THEN "remove" ELSE "write"]
        /\ buf' = [buf EXCEPT ![p] =
                     [k \in Keys |-> IF k \in ckey'[p] THEN cdecision'[p] ELSE buf[p][k]]]
    BY <1>6 DEF Change
  <2>4. [k \in Keys |-> IF k \in ckey'[p] THEN cdecision'[p] ELSE buf[p][k]] \in Entries
    BY <1>2, <2>2 DEF PolicyTypes, Entries
  <2>5. PolicyTypes'
    BY <1>1, <1>2, <2>2, <2>3, <2>4 DEF PolicyTypes, CommandLabels
  <2>6. /\ cpc'[p] = "write" \/ (cpc'[p] = "remove" /\ ckey'[p] = Keys /\ cdecision'[p] = "none")
        /\ \A q \in Commands : q # p => cpc'[q] \in {"idle", "done"}
    BY <1>2, <2>1, <2>3 DEF PolicyTypes
  <2>7. buf'[p] = Changed(p, disk)'
    BY <1>1, <1>2, <2>1, <2>3 DEF PolicyTypes, Changed
  <2>8. Running' \subseteq {p}
    BY <2>6 DEF Running
  <2>9. CommandInv'
    BY <1>1, <2>6, <2>7, <2>8 DEF CommandInv
  <2> QED
    BY <1>1, <1>2, <1>4, <2>5, <2>9 DEF PolicyInv
<1> QED
  BY <1>5, <1>6

\* Its copy becomes the file, or it fails and leaves the file alone.
LEMMA CommandEnds ==
  ASSUME PolicyInv, NEW p \in Commands,
         CommandWrites(p) \/ CommandRenames(p) \/ CommandFails(p)
  PROVE  PolicyInv'
<1>1. UNCHANGED <<mode, mem, mu, at, decided>>
  BY DEF CommandWrites, CommandRenames, CommandFails, session, request
<1>2. PolicyTypes /\ disk = acked /\ HolderInv /\ SessionInv /\ CommandInv
  BY DEF PolicyInv
<1>3. /\ mode = "down" /\ p \in Running
      /\ \A q \in Commands : q # p => cpc[q] \in {"idle", "done"}
  BY <1>2 DEF CommandWrites, CommandRenames, CommandFails, SessionInv, Running, CommandInv
<1>4. SessionInv' /\ HolderInv'
  BY <1>1, <1>2, <1>3 DEF SessionInv, HolderInv
<1>5. ASSUME Leave(p)
      PROVE  /\ cpc' \in [Commands -> CommandLabels] /\ buf' \in [Commands -> Entries]
             /\ ckey' \in [Commands -> SUBSET Keys]
             /\ cdecision' \in [Commands -> Persistent \cup {"none"}]
             /\ \A q \in Commands : cpc'[q] \in {"idle", "done"}
  BY <1>2, <1>3, <1>5 DEF Leave, PolicyTypes, CommandLabels, Entries, NoEntries
<1>6. CASE CommandWrites(p)
  <2>1. /\ cpc[p] = "write" /\ tmp' = {buf[p]} /\ cpc' = [cpc EXCEPT ![p] = "rename"]
        /\ UNCHANGED <<disk, buf, ckey, cdecision, latest, acked>>
    BY <1>6 DEF CommandWrites, history
  <2>2. PolicyTypes'
    BY <1>1, <1>2, <2>1 DEF PolicyTypes, CommandLabels
  <2>3. cpc'[p] = "rename" /\ \A q \in Commands : q # p => cpc'[q] \in {"idle", "done"}
    BY <1>2, <1>3, <2>1 DEF PolicyTypes
  <2>4. CommandInv'
    BY <1>2, <2>1, <2>3 DEF CommandInv, Changed, Running
  <2> QED
    BY <1>2, <1>4, <2>1, <2>2, <2>4 DEF PolicyInv
<1>7. CASE CommandRenames(p)
  <2>1. /\ latest' = Changed(p, latest) /\ acked' = Changed(p, acked) /\ Leave(p)
        /\ \/ cpc[p] = "remove" /\ disk' = NoEntries /\ tmp' = tmp
           \/ cpc[p] = "rename" /\ tmp' = {} /\ \E written \in tmp : disk' = written
    BY <1>7 DEF CommandRenames
  <2>2. disk' = Changed(p, disk)
    <3>1. CASE cpc[p] = "remove"
      <4>1. Changed(p, disk) = NoEntries
        BY <1>2, <3>1 DEF CommandInv, Changed, NoEntries
      <4> QED
        BY <2>1, <3>1, <4>1
    <3>2. CASE cpc[p] = "rename"
      BY <1>2, <2>1, <3>2 DEF CommandInv
    <3> QED
      BY <2>1, <3>1, <3>2
  <2>3. disk' = acked' /\ tmp' \in SUBSET Entries
    BY <1>2, <2>1, <2>2 DEF PolicyTypes
  <2>4. disk' \in Entries /\ acked' \in Entries /\ latest' \in Entries
    BY <1>2, <2>1, <2>2, ChangedIsEntries DEF PolicyTypes
  <2>5. PolicyTypes'
    BY <1>1, <1>2, <1>5, <2>1, <2>3, <2>4 DEF PolicyTypes
  <2>6. CommandInv'
    BY <1>5, <2>1 DEF CommandInv, Running
  <2> QED
    BY <1>4, <2>3, <2>5, <2>6 DEF PolicyInv
<1>8. CASE CommandFails(p)
  <2>1. Leave(p) /\ UNCHANGED <<disk, tmp, latest, acked>>
    BY <1>8 DEF CommandFails, history
  <2>2. PolicyTypes' /\ CommandInv'
    BY <1>1, <1>2, <1>5, <2>1 DEF PolicyTypes, CommandInv, Running
  <2> QED
    BY <1>2, <1>4, <2>1, <2>2 DEF PolicyInv
<1> QED
  BY <1>6, <1>7, <1>8

LEMMA PolicyInitially == PolicyInit => PolicyInv
<1> SUFFICES ASSUME PolicyInit PROVE PolicyInv
  OBVIOUS
<1>1. disk \in Entries /\ NoEntries \in Entries
  BY DEF PolicyInit, Entries, NoEntries, Persistent
<1>2. PolicyTypes
  BY <1>1 DEF PolicyInit, PolicyTypes, RequestLabels, CommandLabels, Decisions
<1> QED
  BY <1>2 DEF PolicyInit, PolicyInv, SessionInv, HolderInv, CommandInv, Running

LEMMA PolicyInductive ==
  ASSUME ~Overlap, PolicyInv, [PolicyNext]_policyVars
  PROVE  PolicyInv'
<1>1. CASE UNCHANGED policyVars
  <2>1. UNCHANGED <<disk, tmp, mode, mem, mu, at, decided, cpc, buf, ckey, cdecision, latest, acked>>
    BY <1>1 DEF policyVars, session, request, command, history
  <2> QED
    BY <2>1 DEF PolicyInv, PolicyTypes, SessionInv, HolderInv, CommandInv, Running, Changed
<1>2. ASSUME NEW c \in Conns, Request(c) \/ Answer(c) \/ Proceed(c) PROVE PolicyInv'
  BY <1>2, QuietKeeps, RecordKeeps, SaveKeeps DEF Proceed
<1>3. ASSUME NEW p \in Commands,
             Load(p) \/ Change(p) \/ CommandWrites(p) \/ CommandRenames(p) \/ CommandFails(p)
      PROVE  PolicyInv'
  BY <1>3, CommandBegins, CommandEnds
<1> QED
  BY <1>1, <1>2, <1>3, SessionKeeps DEF PolicyNext

\* For any plugins, hosts and modes, whatever is prompted for, fails or is killed: while no
\* command runs beside a session or another command, network.toml holds of every key the last
\* decision whose write succeeded or the last decision made (policy.go: Record, save).
THEOREM PolicyIsKept ==
  ASSUME ~Overlap PROVE PolicySpec => []PolicyKept
<1>1. PolicyInv => PolicyKept
  BY DEF PolicyInv, PolicyKept
<1>2. PolicyInv /\ [PolicyNext]_policyVars => PolicyInv'
  BY PolicyInductive
<1> QED
  BY <1>1, <1>2, PolicyInitially, PTL DEF PolicySpec
=============================================================================
