------------------------ MODULE RegistryCache_proofs ------------------------
(***************************************************************************)
(* What holds of RegistryCache for any registries, indexes, cache files and *)
(* processes, which may all write one file at a time.  The invariant bounds, *)
(* for each process, what it has fetched between the age of the copy that   *)
(* expired last and what is served now (Fetched), says of a writer that it  *)
(* has its temporary file to itself or that the file is mixed (Writing), of *)
(* a search what it has passed over (Search), of an update what it has      *)
(* filled again (Update).                                                   *)
(***************************************************************************)
EXTENDS RegistryCache, SequenceTheorems, TLAPS

\* samuel.toml names each registry once.
Distinct == \A i, j \in 1..Len(Sources) : Sources[i] = Sources[j] => i = j

Labels == {"idle", "load", "fetch", "open", "write", "rename", "done"}
Answers == [source : Registries \cup {"none"}, version : Nat]

FileTypes ==
    /\ remote \in [Registries -> Int] /\ since \in [Registries -> Int]
    /\ cache \in [CacheFiles -> Int] /\ tmp \in [CacheFiles -> Int]
    /\ fresh \in [CacheFiles -> BOOLEAN]
    /\ mixed \subseteq CacheFiles /\ Shared \subseteq mixed

ProcessTypes ==
    /\ pc \in [Procs -> Labels] /\ op \in [Procs -> {"find", "update"}]
    /\ forced \in [Procs -> BOOLEAN] /\ calm \in [Procs -> BOOLEAN]
    /\ alone \in [Procs -> BOOLEAN] /\ apart \in [Procs -> BOOLEAN]
    /\ left \in [Procs -> Seq(Registries)]
    /\ body \in [Procs -> Int] /\ file \in [Procs -> {"tmp", "cache", "gone"}]
    /\ got \in [Procs -> [Registries -> Int]] /\ answer \in [Procs -> Answers]
    /\ floor \in [Procs -> [since : [Registries -> Int], remote : [Registries -> Int]]]

Serving(s) == First[s] <= since[s] /\ since[s] <= remote[s] /\ remote[s] <= Last[s]

\* What a source serves, its cache holds and its freshness promises.
Holding(s) ==
    LET f == CachePath[s] IN
    f \notin mixed =>
        /\ cache[f] # None => First[s] <= cache[f] /\ cache[f] <= remote[s]
        /\ fresh[f] => cache[f] # None /\ since[s] <= cache[f]

Cached(s) == Serving(s) /\ Holding(s)

\* The sources a process has still to ask are the last ones of the configuration.
Suffix(p) ==
    /\ Len(left[p]) <= Len(Sources)
    /\ \A i \in 1..Len(left[p]) : left[p][i] = Sources[Len(Sources) - Len(left[p]) + i]
    /\ ~Idle(p) => left[p] # <<>>

\* The place of the source that comes first in what is left; those before it have passed.
Place(rest) == Len(Sources) - Len(rest) + 1
At(p)       == Place(left[p])
Passed(p)   == 1..(At(p) - 1)

Floors(p) ==
    \A s \in Registries : floor[p].since[s] <= since[s] /\ floor[p].remote[s] <= remote[s]

\* What a process has fetched was served after the copy that expired last, and after the
\* process began.
Fetched(p) ==
    pc[p] \in {"open", "write", "rename"} =>
        /\ since[Here(p)] <= body[p] /\ body[p] <= remote[Here(p)]
        /\ floor[p].remote[Here(p)] <= body[p]

\* A writer has the temporary file to itself, or the file is mixed.
AtFile(p) == pc[p] \in {"write", "rename"}

Writing(p) ==
    /\ AtFile(p) /\ apart[p] =>
          file[p] = "tmp" /\ \A q \in Procs : q # p /\ AtFile(q) => Path(q) # Path(p)
    /\ AtFile(p) /\ ~apart[p] => Path(p) \in mixed
    /\ pc[p] = "rename" /\ apart[p] => tmp[Path(p)] = body[p]

Solitary(p) ==
    ~Idle(p) /\ alone[p] =>
        /\ \A q \in Procs : q # p => Idle(q)
        /\ AtFile(p) => apart[p]

\* A search under way has passed over no source without reason.
Missing(p, s) == \E k \in Recent(p, s) : Lists(k) = 0

Search(p) ==
    op[p] = "find" /\ calm[p] =>
        /\ ~forced[p]
        /\ ~Idle(p) => answer[p] = NotFound /\ \A i \in Passed(p) : Missing(p, Sources[i])
        /\ pc[p] = "done" =>
              /\ answer[p] = NotFound => \A s \in Registries : Missing(p, s)
              /\ \A i \in 1..Len(Sources) : answer[p].source = Sources[i] =>
                    /\ \E k \in Recent(p, Sources[i]) : Lists(k) = answer[p].version
                    /\ \A j \in 1..(i - 1) : Missing(p, Sources[j])

\* What an update that runs alone has asked for is there, and in the cache.
Current(p, s)  == floor[p].remote[s] <= got[p][s] /\ got[p][s] <= remote[s]
Filled(p, s)   == CachePath[s] \notin mixed => floor[p].remote[s] <= cache[CachePath[s]]
Refilled(p, s) == Current(p, s) /\ Filled(p, s)

Update(p) ==
    op[p] = "update" /\ calm[p] /\ alone[p] =>
        /\ ~Idle(p) /\ forced[p] => \A i \in Passed(p) : Refilled(p, Sources[i])
        /\ ~Idle(p) /\ ~forced[p] => \A s \in Registries : Refilled(p, s)
        /\ pc[p] = "done" => \A s \in Registries : Current(p, s)

Good(p) ==
    Suffix(p) /\ Floors(p) /\ Fetched(p) /\ Writing(p) /\ Solitary(p) /\ Search(p) /\ Update(p)

Inv ==
    /\ FileTypes /\ ProcessTypes
    /\ \A s \in Registries : Cached(s)
    /\ \A p \in Procs : Good(p)

\* Every registry has its place among the sources.
LEMMA SourceFacts ==
  /\ Sources \in Seq(Registries) /\ Len(Sources) \in Nat \ {0}
  /\ \A i \in 1..Len(Sources) : Sources[i] \in Registries
  /\ \A s \in Registries : \E i \in 1..Len(Sources) : s = Sources[i]
  /\ NotFound \in Answers
<1>1. /\ Len(Sources) \in Nat \ {0}
      /\ \A i \in 1..Len(Sources) : Sources[i] \in Registries
      /\ \A s \in Registries : \E i \in 1..Len(Sources) : s = Sources[i]
  BY SourcesAssumption DEF Registries
<1>2. Sources \in [1..Len(Sources) -> Registries]
  BY <1>1, SourcesAssumption
<1>3. Sources \in Seq(Registries)
  BY <1>1, <1>2, SeqDef
<1> QED
  BY <1>1, <1>3 DEF NotFound, Answers

\* An index lists a plugin or not.
LEMMA ListsNat == ASSUME NEW k PROVE Lists(k) \in Nat
<1>1. CASE k \in 1..Len(Published)
  <2>1. Published[k] \in [{Name} -> Nat]
    BY <1>1, PublishedAssumption, ElementOfSeq
  <2> QED
    BY <1>1, <2>1 DEF Lists
<1>2. CASE k \notin 1..Len(Published)
  BY <1>2 DEF Lists
<1> QED
  BY <1>1, <1>2

\* The files of the registries, and the one of the source at hand.
LEMMA FileFacts ==
  /\ \A s \in Registries : CachePath[s] \in CacheFiles
  /\ Shared \subseteq CacheFiles
  /\ \A r, s \in Registries : r # s /\ CachePath[r] = CachePath[s] => CachePath[r] \in Shared
BY DEF CacheFiles, Shared

LEMMA AtWorkHere ==
  ASSUME Inv, NEW p \in Procs, ~Idle(p)
  PROVE  Here(p) \in Registries /\ Path(p) \in CacheFiles
<1>1. left[p] \in Seq(Registries) /\ left[p] # <<>>
  BY DEF Inv, ProcessTypes, Good, Suffix
<1>2. Here(p) \in Registries
  BY <1>1, HeadTailProperties DEF Here
<1> QED
  BY <1>2, FileFacts DEF Path

-----------------------------------------------------------------------------
(* A process that takes a step while it is at work. *)

Kept(q) ==
    /\ pc'[q] = pc[q] /\ op'[q] = op[q] /\ forced'[q] = forced[q] /\ left'[q] = left[q]
    /\ body'[q] = body[q] /\ got'[q] = got[q] /\ answer'[q] = answer[q]
    /\ floor'[q] = floor[q] /\ calm'[q] = calm[q]
    /\ alone'[q] = alone[q]

\* Where one process at work moves, all that the others have to be shown is what becomes
\* of the file they write.
LEMMA OthersStay ==
  ASSUME Inv, NEW p \in Procs, ~Idle(p), UNCHANGED remotes, NEW q \in Procs, q # p, Kept(q),
         Writing(q)'
  PROVE  Good(q)'
<1>1. Good(q) /\ remote' = remote /\ since' = since
  BY DEF Inv, remotes
<1>2. Suffix(q)' /\ Floors(q)' /\ Fetched(q)' /\ Search(q)'
  BY <1>1, ZenonT(60) DEF Good, Kept, Suffix, Floors, Fetched, Search, Missing, Recent, Passed, At,
                          Idle, Here
<1>3. ~Idle(q) => ~alone[q]
  BY <1>1 DEF Good, Solitary
<1>4. Solitary(q)'
  BY <1>3 DEF Kept, Solitary, Idle
<1>5. Update(q)'
  BY <1>1, <1>3 DEF Good, Kept, Update, Current, Idle
<1> QED
  BY <1>2, <1>4, <1>5 DEF Good

\* What a step does to the files of the cache: it touches its own, and only as a writer ...
TmpApart(p) ==
    \/ tmp' = tmp
    \/ AtFile(p) /\ \A f \in CacheFiles : f # Path(p) => tmp'[f] = tmp[f]

\* ... which it makes its own again when nobody else writes it.
MixedApart(p) ==
    \/ mixed' = mixed
    \/ AtFile(p) /\ apart[p] /\ mixed \ {Path(p)} \subseteq mixed'

\* Writing for the other processes, in a step that opens no file.
LEMMA OthersWrite ==
  ASSUME Inv, NEW p \in Procs, ~Idle(p), TmpApart(p), MixedApart(p), apart' = apart,
         \A r \in Procs : r # p => pc'[r] = pc[r] /\ left'[r] = left[r],
         AtFile(p)' => AtFile(p) /\ left'[p] = left[p],
         NEW q \in Procs, q # p, Kept(q),
         file'[q] = file[q] \/ (AtFile(p) /\ AtFile(q) /\ Path(q) = Path(p))
  PROVE  Writing(q)'
<1>1. /\ pc'[q] = pc[q] /\ left'[q] = left[q] /\ body'[q] = body[q]
      /\ Path(q)' = Path(q) /\ (AtFile(q)' <=> AtFile(q)) /\ apart'[q] = apart[q]
      /\ Writing(q) /\ Writing(p)
  BY DEF Kept, Path, Here, AtFile, Inv, Good
<1>2. ASSUME AtFile(q), apart[q]
      PROVE  /\ file'[q] = "tmp" /\ tmp'[Path(q)] = tmp[Path(q)]
             /\ \A r \in Procs : r # q /\ AtFile(r)' => Path(r)' # Path(q)
  <2>1. file[q] = "tmp" /\ \A r \in Procs : r # q /\ AtFile(r) => Path(r) # Path(q)
    BY <1>1, <1>2 DEF Writing
  <2>2. AtFile(p) => Path(p) # Path(q)
    BY <2>1
  <2>3. Path(q) \in CacheFiles
    BY <1>2, AtWorkHere DEF AtFile, Idle
  <2>4. ASSUME NEW r \in Procs, r # q, AtFile(r)' PROVE Path(r)' # Path(q)
    <3>1. AtFile(r) /\ Path(r)' = Path(r)
      BY <2>4 DEF AtFile, Path, Here
    <3> QED
      BY <2>1, <2>4, <3>1
  <2> QED
    BY <2>1, <2>2, <2>3, <2>4 DEF TmpApart
<1>3. ASSUME AtFile(q), ~apart[q] PROVE Path(q) \in mixed'
  <2>1. Path(q) \in mixed
    BY <1>1, <1>3 DEF Writing
  <2>2. AtFile(p) /\ apart[p] => Path(q) # Path(p)
    BY <1>1, <1>3 DEF Writing
  <2> QED
    BY <2>1, <2>2 DEF MixedApart
<1>4. pc[q] = "rename" => AtFile(q)
  BY DEF AtFile
<1> QED
  BY <1>1, <1>2, <1>3, <1>4 DEF Writing

\* The head and the tail of the last elements of a sequence.
LEMMA HeadOfSuffix ==
  ASSUME NEW S, NEW s \in Seq(S), NEW t \in Seq(S), t # <<>>, Len(t) <= Len(s),
         \A i \in 1..Len(t) : t[i] = s[Len(s) - Len(t) + i]
  PROVE  /\ Len(t) \in 1..Len(s)
         /\ Head(t) \in S /\ Head(t) = s[Len(s) - Len(t) + 1]
         /\ Tail(t) \in Seq(S) /\ Len(Tail(t)) = Len(t) - 1
         /\ \A i \in 1..Len(Tail(t)) : Tail(t)[i] = s[Len(s) - Len(Tail(t)) + i]
<1>1. Len(t) \in Nat /\ Len(s) \in Nat /\ Len(t) # 0
  BY EmptySeq
<1>2. Head(t) = t[1] /\ 1 \in 1..Len(t)
  BY <1>1
<1>3. Head(t) = s[Len(s) - Len(t) + 1]
  BY <1>2
<1>4. /\ Head(t) \in S /\ Tail(t) \in Seq(S) /\ Len(Tail(t)) = Len(t) - 1
      /\ \A i \in 1..Len(Tail(t)) : Tail(t)[i] = t[i + 1]
  BY HeadTailProperties
<1>5. ASSUME NEW i \in 1..Len(Tail(t)) PROVE Tail(t)[i] = s[Len(s) - Len(Tail(t)) + i]
  <2>1. Tail(t)[i] = t[i + 1] /\ i + 1 \in 1..Len(t)
    BY <1>1, <1>4
  <2>2. t[i + 1] = s[Len(s) - Len(t) + (i + 1)]
    BY <2>1
  <2>3. Len(s) - Len(t) + (i + 1) = Len(s) - Len(Tail(t)) + i
    BY <1>1, <1>4
  <2> QED
    BY <2>1, <2>2, <2>3
<1> QED
  BY <1>1, <1>3, <1>4, <1>5

\* The source at hand, and what is left when it has been dealt with.
LEMMA AtWork ==
  ASSUME Inv, NEW p \in Procs, ~Idle(p)
  PROVE  /\ Here(p) \in Registries
         /\ At(p) \in 1..Len(Sources) /\ Here(p) = Sources[At(p)]
         /\ Tail(left[p]) \in Seq(Registries)
         /\ Len(Tail(left[p])) <= Len(Sources)
         /\ \A i \in 1..Len(Tail(left[p])) :
               Tail(left[p])[i] = Sources[Len(Sources) - Len(Tail(left[p])) + i]
         /\ Place(Tail(left[p])) = At(p) + 1
         /\ Tail(left[p]) = <<>> => At(p) = Len(Sources)
<1> DEFINE t == left[p]
           n == Len(Sources)
<1>1. /\ t \in Seq(Registries) /\ t # <<>> /\ Len(t) <= n
      /\ \A i \in 1..Len(t) : t[i] = Sources[n - Len(t) + i]
  BY DEF Inv, ProcessTypes, Good, Suffix
<1>2. Sources \in Seq(Registries) /\ n \in Nat
  BY SourceFacts
<1> HIDE DEF t
<1>3. /\ Len(t) \in 1..n
      /\ Head(t) \in Registries /\ Head(t) = Sources[n - Len(t) + 1]
      /\ Tail(t) \in Seq(Registries) /\ Len(Tail(t)) = Len(t) - 1
      /\ \A i \in 1..Len(Tail(t)) : Tail(t)[i] = Sources[n - Len(Tail(t)) + i]
  BY <1>1, <1>2, HeadOfSuffix
<1>4. Tail(t) = <<>> => Len(t) = 1
  <2>1. Len(<<>>) = 0
    OBVIOUS
  <2>2. ASSUME Tail(t) = <<>> PROVE Len(Tail(t)) = 0
    BY <2>1, <2>2, Zenon
  <2> QED
    BY <1>2, <1>3, <2>2
<1> HIDE DEF n
<1>5. /\ n - Len(t) + 1 \in 1..n /\ Len(Tail(t)) <= n
      /\ n - Len(Tail(t)) + 1 = (n - Len(t) + 1) + 1
      /\ Tail(t) = <<>> => n - Len(t) + 1 = n
  BY <1>2, <1>3, <1>4
<1> QED
  BY <1>3, <1>5 DEF t, n, Here, At, Place

\* The types of what a return changes, and how far the process is with its sources.
LEMMA ReturnTypes ==
  ASSUME Inv, NEW p \in Procs, ~Idle(p), NEW k \in Int, Return(p, k)
  PROVE  /\ got' \in [Procs -> [Registries -> Int]] /\ answer' \in [Procs -> Answers]
         /\ left' \in [Procs -> Seq(Registries)] /\ forced' \in [Procs -> BOOLEAN]
         /\ pc' \in [Procs -> Labels] /\ op' = op
         /\ pc'[p] \in {"load", "done"}
         /\ \A q \in Procs : q # p =>
               /\ got'[q] = got[q] /\ answer'[q] = answer[q] /\ left'[q] = left[q]
               /\ forced'[q] = forced[q] /\ pc'[q] = pc[q]
         /\ Suffix(p)'
<1> DEFINE s == Here(p)
           hit == Found(p, k)
           results == [got[p] EXCEPT ![s] = k]
           more == ~hit /\ Tail(left[p]) # <<>>
           relist == ~hit /\ ~more /\ ListAvailable(p, results)
<1>1. /\ got' = [got EXCEPT ![p] = results]
      /\ answer' = IF hit THEN [answer EXCEPT ![p] = [source |-> s, version |-> Lists(k)]]
                          ELSE answer
      /\ left' = [left EXCEPT ![p] = CASE more -> Tail(@) [] relist -> Sources [] OTHER -> <<>>]
      /\ forced' = [forced EXCEPT ![p] = @ /\ ~relist]
      /\ pc' = [pc EXCEPT ![p] = IF more \/ relist THEN "load" ELSE "done"]
      /\ op' = op
  BY DEF Return, Goto
<1>2. ProcessTypes /\ Lists(k) \in Nat /\ s \in Registries
  BY AtWork, ListsNat DEF Inv
<1>3. got' \in [Procs -> [Registries -> Int]]
  BY <1>1, <1>2 DEF ProcessTypes
<1>4. answer' \in [Procs -> Answers]
  BY <1>1, <1>2 DEF ProcessTypes, Answers
<1>5. left' \in [Procs -> Seq(Registries)]
  <2>1. Tail(left[p]) \in Seq(Registries) /\ Sources \in Seq(Registries) /\ <<>> \in Seq(Registries)
    BY AtWork, SourceFacts, EmptySeq
  <2> HIDE DEF more, relist
  <2> QED
    BY <1>1, <1>2, <2>1 DEF ProcessTypes
<1>6. forced' \in [Procs -> BOOLEAN]
  <2> HIDE DEF relist
  <2> QED
    BY <1>1, <1>2, Zenon DEF ProcessTypes
<1>7. pc' \in [Procs -> Labels] /\ pc'[p] = IF more \/ relist THEN "load" ELSE "done"
  <2> HIDE DEF more, relist
  <2> QED
    BY <1>1, <1>2 DEF ProcessTypes, Labels
<1>8. left'[p] = CASE more -> Tail(left[p]) [] relist -> Sources [] OTHER -> <<>>
  <2> HIDE DEF more, relist
  <2> QED
    BY <1>1, <1>2 DEF ProcessTypes
<1>9. Suffix(p)'
  <2>1. CASE more
    <3>1. left'[p] = Tail(left[p]) /\ Tail(left[p]) # <<>>
      BY <1>8, <2>1
    <3> QED
      BY <3>1, AtWork DEF Suffix
  <2>2. CASE ~more /\ relist
    <3>1. left'[p] = Sources
      BY <1>8, <2>2
    <3> QED
      BY <3>1, SourceFacts, SourcesAssumption DEF Suffix
  <2>3. CASE ~more /\ ~relist
    <3>1. left'[p] = <<>> /\ pc'[p] = "done"
      <4> HIDE DEF more, relist
      <4> QED
        BY <1>7, <1>8, <2>3
    <3> QED
      BY <3>1, SourceFacts, EmptySeq DEF Suffix, Idle
  <2> QED
    BY <2>1, <2>2, <2>3
<1>10. \A q \in Procs : q # p =>
          /\ got'[q] = got[q] /\ answer'[q] = answer[q] /\ left'[q] = left[q]
          /\ forced'[q] = forced[q] /\ pc'[q] = pc[q]
  <2> HIDE DEF more, relist, hit, results
  <2> QED
    BY <1>1, <1>2 DEF ProcessTypes
<1> QED
  BY <1>1, <1>3, <1>4, <1>5, <1>6, <1>7, <1>9, <1>10

\* What a return does, case by case.
LEMMA ReturnCases ==
  ASSUME Inv, NEW p \in Procs, ~Idle(p), NEW k \in Int, Return(p, k)
  PROVE  /\ got'[p] = [got[p] EXCEPT ![Here(p)] = k]
         /\ Found(p, k) =>
               /\ pc'[p] = "done" /\ forced'[p] = forced[p]
               /\ answer'[p] = [source |-> Here(p), version |-> Lists(k)]
         /\ ~Found(p, k) => answer'[p] = answer[p]
         /\ ~Found(p, k) /\ Tail(left[p]) # <<>> =>
               pc'[p] = "load" /\ forced'[p] = forced[p] /\ left'[p] = Tail(left[p])
         /\ ~Found(p, k) /\ Tail(left[p]) = <<>> =>
               IF ListAvailable(p, got'[p])
               THEN pc'[p] = "load" /\ forced'[p] = FALSE /\ left'[p] = Sources
               ELSE pc'[p] = "done" /\ forced'[p] = forced[p]
<1>0. ProcessTypes
  BY DEF Inv
<1> DEFINE s == Here(p)
           hit == Found(p, k)
           results == [got[p] EXCEPT ![s] = k]
           more == ~hit /\ Tail(left[p]) # <<>>
           relist == ~hit /\ ~more /\ ListAvailable(p, results)
<1>1. /\ got' = [got EXCEPT ![p] = results]
      /\ answer' = IF hit THEN [answer EXCEPT ![p] = [source |-> s, version |-> Lists(k)]]
                          ELSE answer
      /\ left' = [left EXCEPT ![p] = CASE more -> Tail(@) [] relist -> Sources [] OTHER -> <<>>]
      /\ forced' = [forced EXCEPT ![p] = @ /\ ~relist]
      /\ pc' = [pc EXCEPT ![p] = IF more \/ relist THEN "load" ELSE "done"]
  BY DEF Return, Goto
<1>2. /\ got'[p] = results
      /\ answer'[p] = IF hit THEN [source |-> s, version |-> Lists(k)] ELSE answer[p]
  <2> HIDE DEF results, hit
  <2> QED
    BY <1>0, <1>1 DEF ProcessTypes
<1>3. /\ left'[p] = CASE more -> Tail(left[p]) [] relist -> Sources [] OTHER -> <<>>
      /\ pc'[p] = IF more \/ relist THEN "load" ELSE "done"
  <2> HIDE DEF relist, more
  <2> QED
    BY <1>0, <1>1 DEF ProcessTypes
<1>4. forced'[p] = (forced[p] /\ ~relist)
  <2> HIDE DEF relist
  <2> QED
    BY <1>0, <1>1 DEF ProcessTypes
<1>5. forced[p] \in BOOLEAN /\ (relist => forced[p])
  BY <1>0 DEF ProcessTypes, ListAvailable
<1>6. relist <=> ~hit /\ ~more /\ ListAvailable(p, got'[p])
  BY <1>2
<1>7. CASE hit
  BY <1>2, <1>3, <1>4, <1>5, <1>7
<1>8. CASE ~hit /\ Tail(left[p]) # <<>>
  <2>1. more /\ ~relist
    BY <1>8
  <2> HIDE DEF more, relist
  <2> QED
    BY <1>2, <1>3, <1>4, <1>5, <1>8, <2>1
<1>9. CASE ~hit /\ Tail(left[p]) = <<>>
  <2>1. ~more /\ (relist <=> ListAvailable(p, got'[p]))
    BY <1>6, <1>9
  <2> HIDE DEF more, relist
  <2> QED
    BY <1>2, <1>3, <1>4, <1>5, <1>9, <2>1
<1> QED
  BY <1>7, <1>8, <1>9

\* A search goes on, or ends, on an index recent enough.
LEMMA ReturnSearch ==
  ASSUME Distinct, Inv, NEW p \in Procs, ~Idle(p), NEW k \in Int, Return(p, k),
         remote' = remote, floor' = floor, op[p] = "find", calm[p],
         since[Here(p)] <= k, k <= remote[Here(p)]
  PROVE  Search(p)'
<1> DEFINE s == Here(p)
           i0 == At(p)
           n == Len(Sources)
<1>1. /\ s \in Registries /\ s = Sources[i0] /\ i0 \in 1..n /\ n \in Nat
      /\ Passed(p) = 1..(i0 - 1) /\ Place(Tail(left[p])) = i0 + 1
      /\ Tail(left[p]) = <<>> => i0 = n
  BY AtWork, SourceFacts DEF Passed
<1>2. /\ ~forced[p] /\ answer[p] = NotFound
      /\ \A i \in 1..(i0 - 1) : Missing(p, Sources[i])
  BY <1>1 DEF Inv, Good, Search
<1>3. k \in Recent(p, s) /\ Lists(k) \in Nat /\ k # Error
  <2>1. floor[p].since[s] \in Int /\ floor[p].since[s] <= since[s]
    BY <1>1 DEF Inv, ProcessTypes, Good, Floors
  <2>2. since[s] \in Int /\ remote[s] \in Int /\ 1 <= since[s]
    <3>1. since[s] \in Int /\ remote[s] \in Int /\ First[s] <= since[s]
      BY <1>1 DEF Inv, FileTypes, Cached, Serving
    <3>2. First[s] \in Int /\ 1 <= First[s]
      BY <1>1, PublishedAssumption
    <3> QED
      BY <3>1, <3>2
  <2>3. floor[p].since[s] <= k /\ k <= remote[s]
    BY <2>1, <2>2
  <2>4. Lists(k) \in Nat
    BY ListsNat
  <2> QED
    BY <2>1, <2>2, <2>3, <2>4 DEF Recent, Error
<1>4. \A r : /\ Recent(p, r)' = Recent(p, r)
             /\ Missing(p, r)' <=> Missing(p, r)
  BY DEF Missing, Recent
<1>5. ~forced'[p] /\ op' = op
  BY <1>2, ReturnCases, ReturnTypes DEF ListAvailable
<1> HIDE DEF s, i0, n
<1>6. CASE Found(p, k)
  <2>1. pc'[p] = "done" /\ answer'[p] = [source |-> s, version |-> Lists(k)] /\ Lists(k) > 0
    BY <1>6, ReturnCases DEF Found, s
  <2>2. answer'[p] # NotFound
    BY <2>1 DEF NotFound
  <2>3. ASSUME NEW i \in 1..n, answer'[p].source = Sources[i]
        PROVE  /\ \E l \in Recent(p, Sources[i])' : Lists(l) = answer'[p].version
               /\ \A j \in 1..(i - 1) : Missing(p, Sources[j])'
    <3>1. i = i0 /\ Sources[i] = s
      BY <1>1, <2>1, <2>3 DEF Distinct, n
    <3>2. \A j \in 1..(i - 1) : Missing(p, Sources[j])'
      BY <1>2, <1>4, <3>1
    <3>3. k \in Recent(p, Sources[i])' /\ Lists(k) = answer'[p].version
      BY <1>3, <1>4, <2>1, <3>1
    <3> QED
      BY <3>2, <3>3
  <2> QED
    BY <1>5, <2>1, <2>2, <2>3 DEF Search, Idle, n
<1>7. ASSUME ~Found(p, k) PROVE Missing(p, s) /\ answer'[p] = NotFound
  <2>1. ~(Lists(k) > 0)
    BY <1>3, <1>7 DEF Found, s
  <2>2. Lists(k) = 0
    BY <1>3, <2>1
  <2>3. Missing(p, s)
    BY <1>3, <2>2 DEF Missing
  <2> QED
    BY <1>2, <1>7, <2>3, ReturnCases
<1>8. CASE ~Found(p, k) /\ Tail(left[p]) # <<>>
  <2>1. pc'[p] = "load" /\ left'[p] = Tail(left[p])
    BY <1>8, ReturnCases
  <2>2. Passed(p)' = 1..i0
    BY <1>1, <2>1 DEF Passed, At
  <2>3. \A i \in 1..i0 : Missing(p, Sources[i])'
    BY <1>1, <1>2, <1>4, <1>7, <1>8
  <2> QED
    BY <1>5, <1>7, <1>8, <2>1, <2>2, <2>3 DEF Search, Idle
<1>9. CASE ~Found(p, k) /\ Tail(left[p]) = <<>>
  <2>1. pc'[p] = "done"
    BY <1>2, <1>9, ReturnCases DEF ListAvailable
  <2>2. \A i \in 1..n : Missing(p, Sources[i])'
    BY <1>1, <1>2, <1>4, <1>7, <1>9
  <2>3. \A r \in Registries : Missing(p, r)'
    BY <2>2, SourceFacts DEF n
  <2>4. \A i \in 1..n : answer'[p].source # Sources[i]
    BY <1>7, <1>9, SourceFacts, SourcesAssumption DEF NotFound, n
  <2> QED
    BY <1>5, <2>1, <2>3, <2>4 DEF Search, Idle, n
<1> QED
  BY <1>6, <1>8, <1>9

\* What the other sources have in the cache is still theirs.
OthersFilled(p) ==
    \A s \in Registries : s # Here(p) /\ CachePath[s] \notin mixed' =>
        CachePath[s] \notin mixed /\ cache'[CachePath[s]] = cache[CachePath[s]]

\* An update that runs alone goes on, or ends, on what the registry serves now.
LEMMA ReturnUpdate ==
  ASSUME Inv, NEW p \in Procs, ~Idle(p), NEW k \in Int, Return(p, k),
         remote' = remote, floor' = floor, op[p] = "update", calm[p], alone[p],
         floor[p].remote[Here(p)] <= k, k <= remote[Here(p)],
         Path(p) \notin mixed' => floor[p].remote[Here(p)] <= cache'[Path(p)],
         OthersFilled(p)
  PROVE  Update(p)'
<1> DEFINE h == Here(p)
           i0 == At(p)
           n == Len(Sources)
<1>1. /\ h \in Registries /\ h = Sources[i0] /\ i0 \in 1..n /\ n \in Nat
      /\ Passed(p) = 1..(i0 - 1) /\ Place(Tail(left[p])) = i0 + 1
      /\ Tail(left[p]) = <<>> => i0 = n
      /\ \A i \in 1..n : Sources[i] \in Registries
  BY AtWork, SourceFacts DEF Passed
<1>2. /\ forced[p] => \A i \in 1..(i0 - 1) : Refilled(p, Sources[i])
      /\ ~forced[p] => \A s \in Registries : Refilled(p, s)
  BY <1>1 DEF Inv, Good, Update
<1>3. got[p] \in [Registries -> Int]
  BY DEF Inv, ProcessTypes
<1>4. got'[p][h] = k /\ \A s \in Registries : s # h => got'[p][s] = got[p][s]
  <2>1. got'[p] = [got[p] EXCEPT ![h] = k]
    BY ReturnCases
  <2> QED
    BY <1>1, <1>3, <2>1
<1>5. ASSUME NEW s \in Registries, s = h PROVE Refilled(p, s)'
  BY <1>4, <1>5 DEF Refilled, Current, Filled, Path
<1>6. ASSUME NEW s \in Registries, Refilled(p, s) PROVE Refilled(p, s)'
  <2>1. CASE s = h
    BY <1>5, <2>1, Zenon
  <2>2. CASE s # h
    BY <1>4, <1>6, <2>2 DEF Refilled, Current, Filled, OthersFilled
  <2> QED
    BY <2>1, <2>2
<1>7. ~Found(p, k) /\ op' = op
  BY ReturnTypes DEF Found
<1> HIDE DEF h, i0, n
<1>8. CASE Tail(left[p]) # <<>>
  <2>1. pc'[p] = "load" /\ left'[p] = Tail(left[p]) /\ forced'[p] = forced[p]
    BY <1>7, <1>8, ReturnCases
  <2>2. Passed(p)' = 1..i0
    BY <1>1, <2>1 DEF Passed, At
  <2>3. forced[p] => \A i \in 1..i0 : Refilled(p, Sources[i])'
    <3>1. ASSUME forced[p], NEW i \in 1..i0 PROVE Refilled(p, Sources[i])'
      <4>1. i = i0 \/ i \in 1..(i0 - 1)
        BY <1>1
      <4> QED
        BY <1>1, <1>2, <1>5, <1>6, <3>1, <4>1
    <3> QED
      BY <3>1
  <2>4. ~forced[p] => \A s \in Registries : Refilled(p, s)'
    BY <1>2, <1>6
  <2> QED
    BY <2>1, <2>2, <2>3, <2>4 DEF Update
<1>9. CASE Tail(left[p]) = <<>>
  <2>1. \A s \in Registries : Refilled(p, s)'
    <3>1. CASE ~forced[p]
      BY <1>2, <1>6, <3>1
    <3>2. ASSUME forced[p], NEW i \in 1..n PROVE Refilled(p, Sources[i])'
      <4>1. i = i0 \/ i \in 1..(i0 - 1)
        BY <1>1, <1>9
      <4> QED
        BY <1>1, <1>2, <1>5, <1>6, <3>2, <4>1
    <3> QED
      BY <3>1, <3>2, SourceFacts DEF n
  <2>2. \/ pc'[p] = "load" /\ forced'[p] = FALSE /\ left'[p] = Sources
        \/ pc'[p] = "done"
    BY <1>7, <1>9, ReturnCases
  <2>3. CASE pc'[p] = "load" /\ forced'[p] = FALSE
    BY <2>1, <2>3 DEF Update
  <2>4. CASE pc'[p] = "done"
    BY <2>1, <2>4 DEF Update, Refilled, Idle
  <2> QED
    BY <2>2, <2>3, <2>4
<1> QED
  BY <1>8, <1>9

\* A return leaves a process in good order if what it returns is: recent for a search,
\* current for an update that runs alone.  After a fault neither is asked.
LEMMA ReturnGood ==
  ASSUME Distinct, Inv, NEW p \in Procs, ~Idle(p), NEW k \in Int, Return(p, k),
         UNCHANGED remotes, floor' = floor, alone' = alone,
         calm'[p] => calm[p] /\ since[Here(p)] <= k /\ k <= remote[Here(p)],
         calm'[p] /\ alone[p] /\ op[p] = "update" =>
            /\ floor[p].remote[Here(p)] <= k
            /\ Path(p) \notin mixed' => floor[p].remote[Here(p)] <= cache'[Path(p)]
            /\ OthersFilled(p)
  PROVE  Good(p)'
<1>1. /\ Suffix(p)' /\ pc'[p] \in {"load", "done"} /\ op' = op
      /\ \A q \in Procs : q # p => pc'[q] = pc[q]
  BY ReturnTypes
<1>2. remote' = remote /\ since' = since /\ op[p] \in {"find", "update"}
  BY DEF remotes, Inv, ProcessTypes
<1>3. Floors(p)'
  BY <1>2 DEF Inv, Good, Floors
<1>4. Fetched(p)' /\ Writing(p)'
  BY <1>1 DEF Fetched, Writing, AtFile
<1>5. Solitary(p)'
  BY <1>1 DEF Inv, Good, Solitary, Idle, AtFile
<1>6. Search(p)'
  BY <1>1, <1>2, ReturnSearch DEF Search
<1>7. Update(p)'
  BY <1>1, <1>2, ReturnUpdate DEF Update
<1> QED
  BY <1>1, <1>3, <1>4, <1>5, <1>6, <1>7 DEF Good

\* A step that returns nothing leaves a process in good order but for its writing.
LEMMA MoveGood ==
  ASSUME Inv, NEW p \in Procs, ~Idle(p), NEW step \in Labels \ {"idle", "done"},
         Goto(p, step), UNCHANGED <<remotes, cache, control, floor, calm, alone>>,
         mixed \subseteq mixed', alone[p] /\ AtFile(p)' => apart'[p],
         Fetched(p)', Writing(p)'
  PROVE  Good(p)'
<1>1. Good(p) /\ pc'[p] = step /\ \A q \in Procs : q # p => pc'[q] = pc[q]
  BY DEF Inv, ProcessTypes, Goto
<1>2. ~Idle(p)' /\ \A q \in Procs : q # p => (Idle(q)' <=> Idle(q))
  BY <1>1 DEF Idle, Labels
<1>3. /\ left' = left /\ remote' = remote /\ since' = since /\ cache' = cache /\ floor' = floor
      /\ op' = op /\ calm' = calm /\ alone' = alone /\ got' = got /\ answer' = answer
      /\ forced' = forced
  BY DEF control, remotes
<1>4. Suffix(p)' /\ Floors(p)'
  BY <1>1, <1>2, <1>3 DEF Good, Suffix, Floors
<1>5. Solitary(p)'
  BY <1>1, <1>2, <1>3 DEF Good, Solitary
<1>6. Search(p)'
  BY <1>1, <1>2, <1>3 DEF Good, Search, Missing, Recent, Passed, At, Idle
<1>7. Update(p)'
  <2>1. \A s : Refilled(p, s) => Refilled(p, s)'
    BY <1>3 DEF Refilled, Current, Filled
  <2>2. Passed(p)' = Passed(p) /\ pc[p] # "done" /\ pc'[p] # "done"
    BY <1>1, <1>2, <1>3 DEF Passed, At, Idle
  <2>3. Update(p) /\ ~Idle(p) /\ ~Idle(p)'
    BY <1>1, <1>2 DEF Good
  <2> QED
    BY <1>3, <2>1, <2>2, <2>3 DEF Update
<1> QED
  BY <1>4, <1>5, <1>6, <1>7 DEF Good

\* The step of one process at work, put together.
LEMMA StepInv ==
  ASSUME Inv, NEW p \in Procs, ~Idle(p), UNCHANGED remotes, FileTypes', ProcessTypes',
         \A s \in Registries : Cached(s)', Good(p)',
         \A q \in Procs : q # p => Kept(q) /\ Writing(q)'
  PROVE  Inv'
BY OthersStay DEF Inv

LEMMA CachedStay ==
  ASSUME Inv, UNCHANGED <<remotes, cache, fresh>>, mixed \subseteq mixed'
  PROVE  \A s \in Registries : Cached(s)'
BY DEF Inv, Cached, Serving, Holding, remotes

\* A step that returns nothing, put together.
LEMMA MoveInv ==
  ASSUME Inv, NEW p \in Procs, ~Idle(p), NEW step \in Labels \ {"idle", "done"},
         Goto(p, step), UNCHANGED <<remotes, cache, fresh, control, floor, calm, alone>>,
         tmp' \in [CacheFiles -> Int], body' \in [Procs -> Int],
         file' \in [Procs -> {"tmp", "cache", "gone"}],
         apart' \in [Procs -> BOOLEAN], mixed \subseteq mixed', mixed' \subseteq CacheFiles,
         \A q \in Procs : q # p => body'[q] = body[q] /\ Writing(q)',
         alone[p] /\ AtFile(p)' => apart'[p],
         Fetched(p)', Writing(p)'
  PROVE  Inv'
<1>1. FileTypes /\ ProcessTypes
  BY DEF Inv
<1>2. FileTypes' /\ ProcessTypes'
  BY <1>1 DEF FileTypes, ProcessTypes, Goto, control, remotes
<1>3. \A s \in Registries : Cached(s)'
  BY CachedStay
<1>4. Good(p)'
  BY MoveGood
<1>5. \A q \in Procs : q # p => Kept(q)
  BY <1>1 DEF ProcessTypes, Goto, Kept, control
<1> QED
  BY <1>2, <1>3, <1>4, <1>5, StepInv

\* A step that neither returns nor opens a file.
LEMMA PlainMoveInv ==
  ASSUME Inv, NEW p \in Procs, ~Idle(p), NEW step \in Labels \ {"idle", "done"},
         Goto(p, step), UNCHANGED <<remotes, cache, fresh, control, floor, calm, alone, sharing>>,
         tmp' \in [CacheFiles -> Int], body' \in [Procs -> Int], TmpApart(p), file' = file,
         \A q \in Procs : q # p => body'[q] = body[q],
         step \in {"write", "rename"} => AtFile(p),
         Fetched(p)', Writing(p)'
  PROVE  Inv'
<1>1. FileTypes /\ ProcessTypes /\ apart' = apart /\ mixed' = mixed /\ left' = left
  BY DEF Inv, sharing, control
<1>2. pc'[p] = step /\ \A q \in Procs : q # p => pc'[q] = pc[q]
  BY <1>1 DEF ProcessTypes, Goto
<1>3. MixedApart(p) /\ (AtFile(p)' => AtFile(p))
  BY <1>1, <1>2 DEF MixedApart, AtFile
<1>4. ASSUME NEW q \in Procs, q # p PROVE Writing(q)'
  <2>1. Kept(q)
    BY <1>2, <1>4 DEF Kept, control
  <2> QED
    BY <1>1, <1>2, <1>3, <1>4, <2>1, OthersWrite
<1>5. alone[p] /\ AtFile(p)' => apart'[p]
  BY <1>1, <1>3 DEF Inv, Good, Solitary
<1>6. mixed \subseteq mixed' /\ mixed' \subseteq CacheFiles
  BY <1>1 DEF FileTypes
<1>7. apart' \in [Procs -> BOOLEAN] /\ file' \in [Procs -> {"tmp", "cache", "gone"}]
  BY <1>1 DEF ProcessTypes
<1> QED
  BY <1>4, <1>5, <1>6, <1>7, MoveInv DEF sharing

\* A return, put together.
LEMMA ReturnInv ==
  ASSUME Distinct, Inv, NEW p \in Procs, ~Idle(p), NEW k \in Int, Return(p, k),
         UNCHANGED remotes, floor' = floor, alone' = alone, apart' = apart,
         FileTypes', \A s \in Registries : Cached(s)',
         body' \in [Procs -> Int], file' \in [Procs -> {"tmp", "cache", "gone"}],
         calm' \in [Procs -> BOOLEAN],
         \A q \in Procs : q # p =>
            /\ body'[q] = body[q] /\ calm'[q] = calm[q]
            /\ file'[q] = file[q] \/ (AtFile(p) /\ AtFile(q) /\ Path(q) = Path(p)),
         TmpApart(p), MixedApart(p),
         calm'[p] => calm[p] /\ since[Here(p)] <= k /\ k <= remote[Here(p)],
         calm'[p] /\ alone[p] /\ op[p] = "update" =>
            /\ floor[p].remote[Here(p)] <= k
            /\ Path(p) \notin mixed' => floor[p].remote[Here(p)] <= cache'[Path(p)]
            /\ OthersFilled(p)
  PROVE  Inv'
<1>1. Good(p)'
  BY ReturnGood
<1>2. ProcessTypes'
  BY ReturnTypes DEF Inv, ProcessTypes
<1>3. /\ ~AtFile(p)'
      /\ \A r \in Procs : r # p => pc'[r] = pc[r] /\ left'[r] = left[r]
  BY ReturnTypes, ZenonT(60) DEF AtFile
<1>4. ASSUME NEW q \in Procs, q # p PROVE Kept(q) /\ Writing(q)'
  <2>1. Kept(q)
    BY <1>4, ReturnTypes DEF Kept
  <2> QED
    BY <1>3, <1>4, <2>1, OthersWrite
<1> QED
  BY <1>1, <1>2, <1>4, StepInv

-----------------------------------------------------------------------------
(* The actions. *)

LEMMA LoadKeeps == ASSUME Distinct, Inv, NEW p \in Procs, Load(p) PROVE Inv'
<1>1. /\ pc[p] = "load" /\ ~Idle(p)
      /\ UNCHANGED <<remotes, files, body, file, runs, faults, floor, alone, sharing>>
  BY DEF Load, Idle
<1>2. /\ Here(p) \in Registries /\ Path(p) \in CacheFiles /\ Path(p) = CachePath[Here(p)]
      /\ FileTypes /\ ProcessTypes /\ Good(p) /\ \A s \in Registries : Cached(s)
  BY <1>1, AtWorkHere DEF Inv, Path
<1>3. /\ FileTypes' /\ (\A s \in Registries : Cached(s)') /\ TmpApart(p) /\ MixedApart(p)
      /\ apart' = apart /\ mixed' = mixed /\ cache' = cache /\ OthersFilled(p)
  BY <1>1, <1>2, CachedStay DEF FileTypes, files, remotes, sharing, TmpApart, MixedApart, OthersFilled
<1>4. CASE ~forced[p] /\ fresh[Path(p)] /\ Parses(cache[Path(p)])
  <2> DEFINE k == cache[Path(p)]
  <2>1. Return(p, k) /\ k \in Int /\ calm' = [calm EXCEPT ![p] = @ /\ Path(p) \notin mixed]
    BY <1>2, <1>4 DEF Load, Serve, FileTypes
  <2>2. /\ calm' \in [Procs -> BOOLEAN] /\ \A q \in Procs : q # p => calm'[q] = calm[q]
        /\ calm'[p] => calm[p] /\ Path(p) \notin mixed
    BY <1>2, <2>1 DEF ProcessTypes
  <2>3. calm'[p] => since[Here(p)] <= k /\ k <= remote[Here(p)]
    BY <1>2, <1>4, <2>2 DEF Cached, Holding
  <2>4. calm'[p] /\ alone[p] /\ op[p] = "update" => floor[p].remote[Here(p)] <= k
    BY <1>1, <1>2, <1>4, <2>2 DEF Good, Update, Refilled, Filled
  <2>5. /\ body' = body /\ file' = file /\ UNCHANGED remotes /\ floor' = floor /\ alone' = alone
        /\ body' \in [Procs -> Int] /\ file' \in [Procs -> {"tmp", "cache", "gone"}]
    BY <1>1, <1>2 DEF ProcessTypes
  <2> HIDE DEF k
  <2>6. Return(p, k) /\ k \in Int /\ cache[Path(p)] = k
    BY <2>1 DEF k
  <2> QED
    BY <1>1, <1>3, <2>2, <2>3, <2>4, <2>5, <2>6, ReturnInv
<1>5. CASE Goto(p, "fetch") /\ UNCHANGED <<control, calm>>
  <2>1. Fetched(p)' /\ Writing(p)'
    BY <1>2, <1>5 DEF Fetched, Writing, AtFile, Goto, ProcessTypes
  <2> QED
    BY <1>1, <1>2, <1>3, <1>5, <2>1, PlainMoveInv DEF Labels, files, FileTypes, ProcessTypes
<1> QED
  BY <1>4, <1>5 DEF Load

LEMMA FetchKeeps == ASSUME Inv, NEW p \in Procs, Fetch(p) PROVE Inv'
<1>1. /\ pc[p] = "fetch" /\ ~Idle(p) /\ Goto(p, "open")
      /\ body' = [body EXCEPT ![p] = remote[Here(p)]]
      /\ UNCHANGED <<remotes, files, control, file, runs, faults, floor, calm, alone, sharing>>
  BY DEF Fetch, Idle
<1>2. /\ Here(p) \in Registries /\ FileTypes /\ ProcessTypes /\ Good(p)
      /\ \A s \in Registries : Cached(s)
  BY <1>1, AtWorkHere DEF Inv
<1>3. body' \in [Procs -> Int] /\ body'[p] = remote[Here(p)] /\ pc'[p] = "open"
  BY <1>1, <1>2 DEF FileTypes, ProcessTypes, Goto
<1>4. Here(p)' = Here(p) /\ remote' = remote /\ since' = since
  BY <1>1 DEF Here, control, remotes
<1>5. Fetched(p)' /\ Writing(p)'
  <2>1. since[Here(p)] <= remote[Here(p)] /\ remote[Here(p)] \in Int
    BY <1>2 DEF Cached, Serving, FileTypes
  <2>2. floor[p].remote[Here(p)] <= remote[Here(p)]
    BY <1>2 DEF Good, Floors
  <2> QED
    BY <1>1, <1>3, <1>4, <2>1, <2>2 DEF Fetched, Writing, AtFile
<1>6. \A q \in Procs : q # p => body'[q] = body[q]
  BY <1>1, <1>2 DEF ProcessTypes
<1> QED
  BY <1>1, <1>2, <1>3, <1>5, <1>6, PlainMoveInv DEF Labels, files, FileTypes, TmpApart

LEMMA FaultFacts ==
  ASSUME Inv, NEW p \in Procs, Faulty(p)
  PROVE  /\ calm' \in [Procs -> BOOLEAN] /\ ~calm'[p] /\ alone' = alone
         /\ apart' = apart /\ mixed' = mixed /\ MixedApart(p)
         /\ \A q \in Procs : q # p => calm'[q] = calm[q]
BY DEF Inv, ProcessTypes, Faulty, sharing, MixedApart

LEMMA FetchErrorKeeps ==
  ASSUME Distinct, Inv, NEW p \in Procs, FetchFails(p) \/ Garbled(p)
  PROVE  Inv'
<1>1. /\ pc[p] = "fetch" /\ ~Idle(p) /\ Faulty(p)
      /\ \E k \in {Error, cache[Path(p)]} : Return(p, k)
      /\ UNCHANGED <<remotes, files, body, file, runs, floor>>
  BY DEF FetchFails, Garbled, Idle
<1>2. Path(p) \in CacheFiles /\ FileTypes /\ ProcessTypes
  BY <1>1, AtWorkHere DEF Inv
<1>3. PICK k \in Int : Return(p, k)
  BY <1>1, <1>2 DEF Error, FileTypes
<1>4. FileTypes' /\ (\A s \in Registries : Cached(s)') /\ TmpApart(p)
  BY <1>1, <1>2, CachedStay, FaultFacts DEF FileTypes, files, remotes, TmpApart
<1> QED
  BY <1>1, <1>2, <1>3, <1>4, FaultFacts, ReturnInv DEF ProcessTypes

\* A file that is opened by a second writer is mixed from then on, and neither has it to
\* itself.
LEMMA OpenKeeps == ASSUME Inv, NEW p \in Procs, Open(p) PROVE Inv'
<1> DEFINE f == Path(p)
<1>1. /\ pc[p] = "open" /\ ~Idle(p) /\ Goto(p, "write") /\ Join(p, f)
      /\ tmp' = [tmp EXCEPT ![f] = Empty] /\ file' = [file EXCEPT ![p] = "tmp"]
      /\ UNCHANGED <<remotes, cache, fresh, control, body, runs, faults, floor, calm, alone>>
  BY DEF Open, Idle
<1>2. /\ Path(p) \in CacheFiles /\ FileTypes /\ ProcessTypes /\ Good(p)
      /\ \A q \in Procs : Good(q)
  BY <1>1, AtWorkHere DEF Inv
<1>3. /\ tmp' \in [CacheFiles -> Int] /\ file' \in [Procs -> {"tmp", "cache", "gone"}]
      /\ \A g \in CacheFiles : g # f => tmp'[g] = tmp[g]
      /\ file'[p] = "tmp" /\ \A q \in Procs : q # p => file'[q] = file[q]
  BY <1>1, <1>2 DEF FileTypes, ProcessTypes, Empty
<1>4. /\ pc'[p] = "write" /\ \A q \in Procs : q # p => pc'[q] = pc[q]
      /\ left' = left /\ body' = body /\ floor' = floor /\ remote' = remote /\ since' = since
      /\ alone' = alone
  BY <1>1, <1>2 DEF ProcessTypes, Goto, control, remotes
<1>5. \A q \in Procs : q \in Writers(f) <=> AtFile(q) /\ Path(q) = f
  BY DEF Writers, AtFile
<1>6. /\ apart' \in [Procs -> BOOLEAN] /\ apart'[p] = (Writers(f) = {})
      /\ \A q \in Procs : q # p => apart'[q] = (apart[q] /\ q \notin Writers(f))
  <2>1. apart' = [q \in Procs |-> IF q = p THEN Writers(f) = {} ELSE apart[q] /\ q \notin Writers(f)]
    BY <1>1 DEF Join
  <2>2. \A q \in Procs : (IF q = p THEN Writers(f) = {} ELSE apart[q] /\ q \notin Writers(f)) \in BOOLEAN
    BY Zenon
  <2> QED
    BY <2>1, <2>2, Zenon
<1>7. /\ mixed \subseteq mixed' /\ mixed' \subseteq CacheFiles
      /\ Writers(f) # {} => f \in mixed'
  BY <1>1, <1>2 DEF Join, FileTypes
<1>8. Fetched(p)'
  BY <1>1, <1>2, <1>4 DEF Good, Fetched, Here
<1>9. \A q \in Procs : Path(q)' = Path(q) /\ (q # p => (AtFile(q)' <=> AtFile(q)))
  BY <1>4 DEF Path, Here, AtFile
<1>10. ~AtFile(p) /\ AtFile(p)'
  BY <1>1, <1>4 DEF AtFile
<1>11. Writing(p)'
  <2>1. ASSUME apart'[p], NEW q \in Procs, q # p, AtFile(q)' PROVE Path(q)' # Path(p)'
    BY <1>5, <1>6, <1>9, <2>1
  <2> QED
    BY <1>3, <1>4, <1>6, <1>7, <1>9, <2>1 DEF Writing
<1>12. ASSUME NEW q \in Procs, q # p PROVE Writing(q)'
  <2>1. Writing(q) /\ file'[q] = file[q] /\ pc'[q] = pc[q] /\ body' = body
    BY <1>2, <1>3, <1>4, <1>12 DEF Good
  <2>2. ASSUME AtFile(q), apart'[q]
        PROVE  /\ apart[q] /\ Path(q) # f /\ tmp'[Path(q)] = tmp[Path(q)]
               /\ \A r \in Procs : r # q /\ AtFile(r)' => Path(r)' # Path(q)
    <3>1. apart[q] /\ Path(q) # f
      BY <1>5, <1>6, <1>12, <2>2
    <3>2. Path(q) \in CacheFiles
      BY <2>2, AtWorkHere DEF AtFile, Idle
    <3>3. tmp'[Path(q)] = tmp[Path(q)]
      BY <1>3, <3>1, <3>2
    <3>4. ASSUME NEW r \in Procs, r # q, AtFile(r)' PROVE Path(r)' # Path(q)
      BY <1>9, <2>1, <2>2, <3>1, <3>4 DEF Writing
    <3> QED
      BY <3>1, <3>3, <3>4
  <2>3. ASSUME AtFile(q), ~apart'[q] PROVE Path(q) \in mixed'
    <3>1. CASE apart[q]
      BY <1>5, <1>6, <1>7, <1>12, <2>3, <3>1
    <3>2. CASE ~apart[q]
      BY <1>7, <2>1, <2>3, <3>2 DEF Writing
    <3> QED
      BY <3>1, <3>2
  <2>4. Path(q)' = Path(q) /\ (AtFile(q)' <=> AtFile(q)) /\ (pc[q] = "rename" => AtFile(q))
    BY <1>9, <1>12 DEF AtFile
  <2> QED
    BY <2>1, <2>2, <2>3, <2>4 DEF Writing
<1>13. alone[p] /\ AtFile(p)' => apart'[p]
  <2>1. ASSUME alone[p], NEW q \in Procs PROVE q \notin Writers(f)
    <3>1. q # p => Idle(q)
      BY <1>1, <1>2, <2>1 DEF Good, Solitary
    <3> QED
      BY <1>5, <1>10, <3>1 DEF AtFile, Idle
  <2>2. alone[p] => Writers(f) = {}
    BY <2>1 DEF Writers
  <2> QED
    BY <1>6, <2>2
<1>14. /\ \A q \in Procs : q # p => body'[q] = body[q] /\ Writing(q)'
       /\ body' \in [Procs -> Int] /\ "write" \in Labels \ {"idle", "done"}
       /\ UNCHANGED <<remotes, cache, fresh, control, floor, calm, alone>>
  BY <1>1, <1>2, <1>4, <1>12 DEF Labels, ProcessTypes
<1> HIDE DEF f
<1> QED
  BY <1>1, <1>3, <1>6, <1>7, <1>8, <1>11, <1>13, <1>14, MoveInv

\* What a writer puts goes into the temporary file, or into a file that is mixed.
LEMMA PutFacts ==
  ASSUME Inv, NEW p \in Procs, pc[p] = "write", NEW k \in Int, Put(p, k), UNCHANGED sharing,
         UNCHANGED <<remotes, fresh>>
  PROVE  /\ Path(p) \in CacheFiles /\ TmpApart(p) /\ FileTypes' /\ (\A s \in Registries : Cached(s)')
         /\ apart[p] => cache' = cache /\ tmp' = [tmp EXCEPT ![Path(p)] = k]
<1>1. ~Idle(p) /\ AtFile(p) /\ FileTypes /\ mixed' = mixed /\ Writing(p)
  BY DEF Idle, Inv, Good, AtFile, sharing
<1>2. Path(p) \in CacheFiles
  BY <1>1, AtWorkHere
<1>3. apart[p] => cache' = cache /\ tmp' = [tmp EXCEPT ![Path(p)] = k]
  BY <1>1 DEF Writing, Put
<1>4. TmpApart(p) /\ FileTypes'
  BY <1>1, <1>2 DEF Put, TmpApart, FileTypes, remotes
<1>5. ASSUME NEW s \in Registries PROVE Cached(s)'
  <2>1. CachePath[s] \notin mixed => cache'[CachePath[s]] = cache[CachePath[s]]
    <3>1. CASE cache' = cache
      BY <3>1
    <3>2. CASE cache' = [cache EXCEPT ![Path(p)] = k] /\ ~apart[p]
      <4>1. CachePath[s] \in CacheFiles /\ Path(p) \in mixed
        BY <1>1, <3>2, FileFacts DEF Writing
      <4> QED
        BY <1>1, <3>2, <4>1 DEF FileTypes
    <3> QED
      BY <1>3, <3>1, <3>2 DEF Put
  <2>2. Cached(s) /\ remote' = remote /\ since' = since /\ fresh' = fresh
    BY DEF Inv, remotes
  <2> QED
    BY <1>1, <2>1, <2>2 DEF Cached, Serving, Holding
<1> QED
  BY <1>2, <1>3, <1>4, <1>5

LEMMA WriteKeeps == ASSUME Inv, NEW p \in Procs, Write(p) PROVE Inv'
<1>1. /\ pc[p] = "write" /\ ~Idle(p) /\ AtFile(p) /\ Goto(p, "rename") /\ Put(p, body[p])
      /\ UNCHANGED <<remotes, fresh, control, body, file, runs, faults, floor, calm, alone, sharing>>
  BY DEF Write, Idle, AtFile
<1>2. FileTypes /\ ProcessTypes /\ Good(p) /\ body[p] \in Int
  BY DEF Inv, ProcessTypes
<1>3. /\ Path(p) \in CacheFiles /\ TmpApart(p) /\ FileTypes' /\ (\A s \in Registries : Cached(s)')
      /\ apart[p] => tmp' = [tmp EXCEPT ![Path(p)] = body[p]]
      /\ apart[p] => cache' = cache
  BY <1>1, <1>2, PutFacts
<1>4. /\ pc' \in [Procs -> Labels] /\ pc'[p] = "rename" /\ \A q \in Procs : q # p => pc'[q] = pc[q]
      /\ left' = left /\ body' = body /\ floor' = floor /\ remote' = remote /\ since' = since
      /\ file' = file /\ apart' = apart /\ mixed' = mixed /\ calm' = calm /\ alone' = alone
      /\ op' = op /\ forced' = forced /\ got' = got /\ answer' = answer
  BY <1>1, <1>2 DEF ProcessTypes, Goto, Labels, control, remotes, sharing
<1>5. Fetched(p)'
  BY <1>1, <1>2, <1>4 DEF Good, Fetched, Here
<1>6. \A q \in Procs : Path(q)' = Path(q) /\ (AtFile(q)' <=> AtFile(q))
  BY <1>1, <1>4 DEF Path, Here, AtFile
<1>7. Writing(p)'
  <2>1. Writing(p)
    BY <1>2 DEF Good
  <2>2. apart[p] => tmp'[Path(p)] = body[p]
    BY <1>2, <1>3 DEF FileTypes
  <2> QED
    BY <1>1, <1>4, <1>6, <2>1, <2>2 DEF Writing
<1>8. Suffix(p)' /\ Floors(p)' /\ Solitary(p)'
  BY <1>1, <1>2, <1>4, <1>6 DEF Good, Suffix, Floors, Solitary, Idle
<1>9. Search(p)'
  BY <1>1, <1>2, <1>4 DEF Good, Search, Missing, Recent, Passed, At, Idle
<1>10. Update(p)'
  <2>1. alone[p] => apart[p] /\ cache' = cache
    BY <1>1, <1>2, <1>3 DEF Good, Solitary
  <2>2. \A s : cache' = cache /\ Refilled(p, s) => Refilled(p, s)'
    BY <1>4 DEF Refilled, Current, Filled
  <2>3. Passed(p)' = Passed(p) /\ ~Idle(p)' /\ pc'[p] # "done"
    BY <1>4 DEF Passed, At, Idle
  <2>4. Update(p)
    BY <1>2 DEF Good
  <2> QED
    BY <1>1, <1>4, <2>1, <2>2, <2>3, <2>4 DEF Update
<1>11. ProcessTypes'
  BY <1>2, <1>4 DEF ProcessTypes
<1>12. ASSUME NEW q \in Procs, q # p PROVE Kept(q) /\ Writing(q)'
  <2>1. Kept(q)
    BY <1>4, <1>12 DEF Kept
  <2> QED
    BY <1>1, <1>3, <1>4, <1>12, <2>1, OthersWrite DEF MixedApart
<1> QED
  BY <1>1, <1>3, <1>5, <1>7, <1>8, <1>9, <1>10, <1>11, <1>12, StepInv DEF Good

\* A rename by a writer that has the file to itself makes the cache what it has fetched ...
LEMMA RenameApart ==
  ASSUME Inv, NEW p \in Procs, Rename(p), apart[p]
  PROVE  /\ cache' = [cache EXCEPT ![Path(p)] = body[p]] /\ fresh' = [fresh EXCEPT ![Path(p)] = TRUE]
         /\ tmp' = [tmp EXCEPT ![Path(p)] = None] /\ mixed' = (mixed \ {Path(p)}) \cup Shared
         /\ First[Here(p)] <= body[p] /\ since[Here(p)] <= body[p] /\ body[p] <= remote[Here(p)]
         /\ floor[p].remote[Here(p)] <= body[p] /\ body[p] # None
<1>1. pc[p] = "rename" /\ ~Idle(p)
  BY DEF Rename, Idle
<1>2. Here(p) \in Registries /\ FileTypes /\ ProcessTypes /\ Good(p) /\ Cached(Here(p))
  BY <1>1, AtWorkHere DEF Inv
<1>3. /\ tmp[Path(p)] = body[p] /\ since[Here(p)] <= body[p] /\ body[p] <= remote[Here(p)]
      /\ floor[p].remote[Here(p)] <= body[p] /\ body[p] \in Int
  BY <1>1, <1>2 DEF Good, Writing, Fetched, ProcessTypes
<1>4. First[Here(p)] <= body[p] /\ 1 <= body[p]
  <2>1. First[Here(p)] \in Int /\ 1 <= First[Here(p)]
    BY <1>2, PublishedAssumption
  <2>2. since[Here(p)] \in Int /\ First[Here(p)] <= since[Here(p)]
    BY <1>2 DEF Cached, Serving, FileTypes
  <2> QED
    BY <1>3, <2>1, <2>2
<1>5. body[p] # None
  BY <1>3, <1>4 DEF None
<1> QED
  BY <1>3, <1>4, <1>5 DEF Rename

\* ... by another, something in a file that is mixed; either way the file is still told
\* apart, and the sources of the others have what they had.
LEMMA RenameFacts ==
  ASSUME Inv, NEW p \in Procs, Rename(p)
  PROVE  /\ FileTypes' /\ TmpApart(p) /\ MixedApart(p) /\ \A s \in Registries : Cached(s)'
         /\ apart[p] => OthersFilled(p)
<1>1. pc[p] = "rename" /\ ~Idle(p) /\ AtFile(p) /\ UNCHANGED remotes
  BY DEF Rename, Idle, AtFile
<1>2. /\ Here(p) \in Registries /\ Path(p) \in CacheFiles /\ Path(p) = CachePath[Here(p)]
      /\ FileTypes /\ ProcessTypes /\ body[p] \in Int /\ Writing(p)
      /\ remote' = remote /\ since' = since
  BY <1>1, AtWorkHere DEF Inv, Good, ProcessTypes, Path, remotes
<1>3. /\ cache' = cache \/ cache' = [cache EXCEPT ![Path(p)] = tmp[Path(p)]]
      /\ fresh' = fresh \/ fresh' = [fresh EXCEPT ![Path(p)] = TRUE]
      /\ tmp' = tmp \/ tmp' = [tmp EXCEPT ![Path(p)] = None]
      /\ mixed' = mixed \/ (mixed' = (mixed \ {Path(p)}) \cup Shared /\ apart[p])
  BY DEF Rename
<1>4. FileTypes'
  <2>1. tmp' \in [CacheFiles -> Int] /\ cache' \in [CacheFiles -> Int]
    BY <1>2, <1>3 DEF FileTypes, None
  <2>2. fresh' \in [CacheFiles -> BOOLEAN]
    BY <1>2, <1>3 DEF FileTypes
  <2>3. mixed' \subseteq CacheFiles /\ Shared \subseteq mixed'
    BY <1>2, <1>3, FileFacts DEF FileTypes
  <2> QED
    BY <1>2, <2>1, <2>2, <2>3 DEF FileTypes
<1>5. TmpApart(p) /\ MixedApart(p)
  BY <1>1, <1>2, <1>3 DEF TmpApart, MixedApart, FileTypes
<1>6. \A s \in Registries : CachePath[s] # Path(p) =>
         /\ cache'[CachePath[s]] = cache[CachePath[s]] /\ fresh'[CachePath[s]] = fresh[CachePath[s]]
         /\ CachePath[s] \notin mixed' => CachePath[s] \notin mixed
  <2>1. ASSUME NEW f \in CacheFiles, f # Path(p)
        PROVE  cache'[f] = cache[f] /\ fresh'[f] = fresh[f] /\ (f \notin mixed' => f \notin mixed)
    BY <1>2, <1>3, <2>1 DEF FileTypes
  <2> QED
    BY <2>1, FileFacts
<1>7. \A s \in Registries : s # Here(p) /\ CachePath[s] = Path(p) => CachePath[s] \in mixed'
  BY <1>2, <1>4, FileFacts DEF FileTypes
<1>8. ~apart[p] => Path(p) \in mixed'
  BY <1>1, <1>2, <1>3 DEF Writing
<1>9. ASSUME NEW s \in Registries PROVE Cached(s)'
  <2>1. Cached(s)
    BY DEF Inv
  <2>2. CASE CachePath[s] # Path(p)
    BY <1>2, <1>6, <2>1, <2>2 DEF Cached, Serving, Holding
  <2>3. CASE CachePath[s] = Path(p) /\ (s # Here(p) \/ ~apart[p])
    BY <1>2, <1>7, <1>8, <2>1, <2>3 DEF Cached, Serving, Holding
  <2>4. CASE s = Here(p) /\ apart[p]
    <3>1. /\ cache'[Path(p)] = body[p] /\ body[p] # None /\ since[s] <= body[p]
          /\ First[s] <= body[p] /\ body[p] <= remote[s]
      BY <1>2, <2>4, RenameApart DEF FileTypes
    <3> QED
      BY <1>2, <2>1, <2>4, <3>1 DEF Cached, Serving, Holding
  <2> QED
    BY <1>2, <2>2, <2>3, <2>4
<1>10. OthersFilled(p)
  BY <1>6, <1>7 DEF OthersFilled
<1> QED
  BY <1>4, <1>5, <1>9, <1>10

LEMMA RenameKeeps == ASSUME Distinct, Inv, NEW p \in Procs, Rename(p) PROVE Inv'
<1>1. /\ pc[p] = "rename" /\ ~Idle(p) /\ AtFile(p) /\ Close(p) /\ Return(p, body[p])
      /\ UNCHANGED <<remotes, runs, faults, floor, calm, alone, apart>>
  BY DEF Rename, Idle, AtFile
<1>2. Path(p) \in CacheFiles /\ FileTypes /\ ProcessTypes /\ Good(p) /\ body[p] \in Int
  BY <1>1, AtWorkHere DEF Inv, ProcessTypes
<1>3. body' \in [Procs -> Int] /\ \A q \in Procs : q # p => body'[q] = body[q]
  BY <1>1, <1>2 DEF Close, ProcessTypes, None
<1>4. /\ file' \in [Procs -> {"tmp", "cache", "gone"}]
      /\ \A q \in Procs : q # p => file'[q] = file[q] \/ (AtFile(p) /\ AtFile(q) /\ Path(q) = Path(p))
  <2> DEFINE moved(q) == CASE q = p -> "gone"
                           [] q # p /\ q \in Writers(Path(p)) /\ tmp'[Path(p)] # tmp[Path(p)] ->
                                (IF file[q] = "tmp" THEN "cache" ELSE "gone")
                           [] OTHER -> file[q]
  <2>1. file' = [q \in Procs |-> moved(q)]
    BY <1>1 DEF Close
  <2>2. ASSUME NEW q \in Procs
        PROVE  /\ moved(q) \in {"tmp", "cache", "gone"}
               /\ q # p => moved(q) = file[q] \/ (AtFile(q) /\ Path(q) = Path(p))
    BY <1>2 DEF ProcessTypes, Writers, AtFile
  <2> HIDE DEF moved
  <2> QED
    BY <1>1, <2>1, <2>2
<1>5. /\ FileTypes' /\ TmpApart(p) /\ MixedApart(p) /\ (\A s \in Registries : Cached(s)')
      /\ apart[p] => OthersFilled(p)
  BY RenameFacts
<1>6. since[Here(p)] <= body[p] /\ body[p] <= remote[Here(p)] /\ floor[p].remote[Here(p)] <= body[p]
  BY <1>1, <1>2 DEF Good, Fetched
<1>7. alone[p] => apart[p] /\ floor[p].remote[Here(p)] <= cache'[Path(p)] /\ OthersFilled(p)
  <2>1. alone[p] => apart[p]
    BY <1>1, <1>2 DEF Good, Solitary
  <2>2. apart[p] => cache'[Path(p)] = body[p]
    BY <1>2, RenameApart DEF FileTypes
  <2> QED
    BY <1>5, <1>6, <2>1, <2>2
<1>8. calm' \in [Procs -> BOOLEAN]
  BY <1>1, <1>2 DEF ProcessTypes
<1> QED
  BY <1>1, <1>2, <1>3, <1>4, <1>5, <1>6, <1>7, <1>8, ReturnInv

\* A write that stops half-way.
LEMMA TornFacts ==
  ASSUME Inv, NEW p \in Procs, ~Idle(p), UNCHANGED <<remotes, fresh>>, UNCHANGED sharing,
         IF pc[p] = "write" THEN \E k \in {Empty, Torn} : Put(p, k) ELSE UNCHANGED <<tmp, cache>>,
         file' = [file EXCEPT ![p] = "gone"], body' = [body EXCEPT ![p] = None]
  PROVE  /\ FileTypes' /\ (\A s \in Registries : Cached(s)') /\ TmpApart(p) /\ MixedApart(p)
         /\ body' \in [Procs -> Int] /\ file' \in [Procs -> {"tmp", "cache", "gone"}]
         /\ \A q \in Procs : q # p => body'[q] = body[q] /\ file'[q] = file[q]
<1>1. FileTypes /\ ProcessTypes /\ mixed' = mixed
  BY DEF Inv, sharing
<1>2. FileTypes' /\ TmpApart(p) /\ \A s \in Registries : Cached(s)'
  <2>1. CASE pc[p] = "write"
    <3>1. PICK k \in {Empty, Torn} : Put(p, k)
      BY <2>1
    <3>2. k \in Int
      BY DEF Empty, Torn
    <3> QED
      BY <2>1, <3>1, <3>2, PutFacts
  <2>2. CASE pc[p] # "write"
    BY <1>1, <2>2, CachedStay DEF FileTypes, TmpApart, remotes
  <2> QED
    BY <2>1, <2>2
<1>3. MixedApart(p)
  BY <1>1 DEF MixedApart
<1> QED
  BY <1>1, <1>2, <1>3 DEF ProcessTypes, None

LEMMA SaveFailsKeeps == ASSUME Distinct, Inv, NEW p \in Procs, SaveFails(p) PROVE Inv'
<1>1. /\ ~Idle(p) /\ Faulty(p) /\ Return(p, body[p]) /\ UNCHANGED <<remotes, fresh, runs, floor>>
      /\ IF pc[p] = "write" THEN \E k \in {Empty, Torn} : Put(p, k) ELSE UNCHANGED <<tmp, cache>>
      /\ file' = [file EXCEPT ![p] = "gone"] /\ body' = [body EXCEPT ![p] = None]
  BY DEF SaveFails, Idle
<1>2. body[p] \in Int
  BY DEF Inv, ProcessTypes
<1>3. UNCHANGED sharing
  BY <1>1 DEF Faulty
<1>4. /\ FileTypes' /\ (\A s \in Registries : Cached(s)') /\ TmpApart(p) /\ MixedApart(p)
      /\ body' \in [Procs -> Int] /\ file' \in [Procs -> {"tmp", "cache", "gone"}]
      /\ \A q \in Procs : q # p => body'[q] = body[q] /\ file'[q] = file[q]
  BY <1>1, <1>3, TornFacts
<1> QED
  BY <1>1, <1>2, <1>4, FaultFacts, ReturnInv, ZenonT(60)

LEMMA KillKeeps == ASSUME Inv, NEW p \in Procs, Kill(p) PROVE Inv'
<1>1. /\ ~Idle(p) /\ Faulty(p) /\ UNCHANGED <<remotes, fresh, op, forced, got, answer, runs, floor>>
      /\ IF pc[p] = "write" THEN \E k \in {Empty, Torn} : Put(p, k) ELSE UNCHANGED <<tmp, cache>>
      /\ file' = [file EXCEPT ![p] = "gone"] /\ body' = [body EXCEPT ![p] = None]
      /\ left' = [left EXCEPT ![p] = <<>>] /\ pc' = [pc EXCEPT ![p] = "idle"]
  BY DEF Kill, Goto
<1>2. FileTypes /\ ProcessTypes /\ Good(p) /\ UNCHANGED sharing
  BY <1>1 DEF Inv, Faulty
<1>3. /\ FileTypes' /\ (\A s \in Registries : Cached(s)') /\ TmpApart(p) /\ MixedApart(p)
      /\ body' \in [Procs -> Int] /\ file' \in [Procs -> {"tmp", "cache", "gone"}]
      /\ \A q \in Procs : q # p => body'[q] = body[q] /\ file'[q] = file[q]
  BY <1>1, <1>2, TornFacts
<1>4. /\ calm' \in [Procs -> BOOLEAN] /\ ~calm'[p] /\ alone' = alone /\ apart' = apart
      /\ \A q \in Procs : q # p => calm'[q] = calm[q]
  BY <1>1, FaultFacts
<1>5. /\ pc' \in [Procs -> Labels] /\ pc'[p] = "idle" /\ left'[p] = <<>>
      /\ \A q \in Procs : q # p => pc'[q] = pc[q] /\ left'[q] = left[q]
      /\ left' \in [Procs -> Seq(Registries)]
  BY <1>1, <1>2, EmptySeq DEF ProcessTypes, Labels
<1>6. ProcessTypes'
  BY <1>1, <1>2, <1>3, <1>4, <1>5 DEF ProcessTypes
<1>7. Good(p)'
  <2>1. Suffix(p)'
    BY <1>5, SourceFacts, EmptySeq DEF Suffix, Idle
  <2>2. Floors(p)'
    BY <1>1, <1>2 DEF Good, Floors, remotes
  <2> QED
    BY <1>4, <1>5, <2>1, <2>2 DEF Good, Fetched, Writing, AtFile, Solitary, Search, Update, Idle
<1>8. ASSUME NEW q \in Procs, q # p PROVE Kept(q) /\ Writing(q)'
  <2>1. Kept(q)
    BY <1>1, <1>3, <1>4, <1>5, <1>8 DEF Kept
  <2>2. ~AtFile(p)'
    BY <1>5 DEF AtFile
  <2> QED
    BY <1>1, <1>3, <1>4, <1>5, <1>8, <2>1, <2>2, OthersWrite
<1> QED
  BY <1>1, <1>3, <1>6, <1>7, <1>8, StepInv

LEMMA BeginKeeps == ASSUME Inv, NEW p \in Procs, Begin(p) PROVE Inv'
<1>1. /\ Idle(p)
      /\ \E o \in {"find", "update"} :
            op' = [op EXCEPT ![p] = o] /\ forced' = [forced EXCEPT ![p] = (o = "update")]
      /\ left' = [left EXCEPT ![p] = Sources] /\ got' = [got EXCEPT ![p] = Unasked]
      /\ answer' = [answer EXCEPT ![p] = NotFound] /\ pc' = [pc EXCEPT ![p] = "load"]
      /\ floor' = [floor EXCEPT ![p] = [since |-> since, remote |-> remote]]
      /\ calm' = [calm EXCEPT ![p] = TRUE]
      /\ alone' = [q \in Procs |-> IF q = p THEN \A r \in Procs : Idle(r) ELSE alone[q] /\ Idle(q)]
      /\ UNCHANGED <<remotes, files, body, file, faults, sharing>>
  BY DEF Begin, Goto
<1>2. FileTypes /\ ProcessTypes /\ Unasked \in [Registries -> Int]
  BY DEF Inv, Unasked, None
<1>3. /\ FileTypes' /\ (\A s \in Registries : Cached(s)')
      /\ remote' = remote /\ since' = since /\ tmp' = tmp /\ body' = body /\ file' = file
      /\ cache' = cache /\ apart' = apart /\ mixed' = mixed
  BY <1>1, <1>2, CachedStay DEF FileTypes, remotes, files, sharing
<1>4. PICK o \in {"find", "update"} :
         op' = [op EXCEPT ![p] = o] /\ forced' = [forced EXCEPT ![p] = (o = "update")]
  BY <1>1
<1>5. /\ op' \in [Procs -> {"find", "update"}] /\ op'[p] = o
      /\ forced' \in [Procs -> BOOLEAN] /\ forced'[p] = (o = "update")
      /\ \A q \in Procs : q # p => op'[q] = op[q] /\ forced'[q] = forced[q]
  BY <1>2, <1>4 DEF ProcessTypes
<1>6. alone' \in [Procs -> BOOLEAN]
  <2>1. \A q \in Procs : (IF q = p THEN \A r \in Procs : Idle(r) ELSE alone[q] /\ Idle(q)) \in BOOLEAN
    BY DEF Idle
  <2> QED
    BY <1>1, <2>1, Zenon
<1>7. /\ alone'[p] => \A r \in Procs : Idle(r)
      /\ \A q \in Procs : q # p /\ alone'[q] => alone[q] /\ Idle(q)
  BY <1>1, Zenon
<1>8. /\ pc' \in [Procs -> Labels] /\ pc'[p] = "load" /\ left' \in [Procs -> Seq(Registries)]
      /\ left'[p] = Sources /\ got' \in [Procs -> [Registries -> Int]]
      /\ answer' \in [Procs -> Answers] /\ answer'[p] = NotFound
      /\ calm' \in [Procs -> BOOLEAN]
      /\ \A q \in Procs : q # p =>
            /\ pc'[q] = pc[q] /\ left'[q] = left[q] /\ got'[q] = got[q]
            /\ answer'[q] = answer[q] /\ calm'[q] = calm[q] /\ floor'[q] = floor[q]
  BY <1>1, <1>2, SourceFacts, ZenonT(60) DEF ProcessTypes, Labels
<1>9. /\ floor' \in [Procs -> [since : [Registries -> Int], remote : [Registries -> Int]]]
      /\ floor'[p] = [since |-> since, remote |-> remote]
  BY <1>1, <1>2 DEF ProcessTypes, FileTypes
<1>10. ProcessTypes'
  BY <1>2, <1>3, <1>5, <1>6, <1>8, <1>9 DEF ProcessTypes
<1>11. Good(p)'
  <2>1. Suffix(p)'
    BY <1>8, SourceFacts, SourcesAssumption DEF Suffix
  <2>2. Floors(p)'
    BY <1>2, <1>3, <1>9 DEF Floors, FileTypes
  <2>3. Solitary(p)'
    BY <1>7, <1>8 DEF Solitary, Idle, AtFile
  <2>4. Passed(p)' = {}
    <3>1. At(p)' = 1
      BY <1>8, SourceFacts DEF At, Place
    <3> QED
      BY <3>1 DEF Passed
  <2>5. Search(p)' /\ Update(p)'
    BY <1>5, <1>8, <2>4 DEF Search, Update, Idle
  <2> QED
    BY <1>8, <2>1, <2>2, <2>3, <2>5 DEF Good, Fetched, Writing, AtFile
<1>12. ASSUME NEW q \in Procs, q # p PROVE Good(q)'
  <2>1. Good(q)
    BY DEF Inv
  <2>2. Suffix(q)' /\ Floors(q)' /\ Fetched(q)'
    BY <1>3, <1>8, <1>12, <2>1 DEF Good, Suffix, Floors, Fetched, Idle, Here
  <2>3. Writing(q)'
    <3>1. Writing(q)
      BY <2>1 DEF Good
    <3>2. ~AtFile(p)' /\ \A r \in Procs : r # p => (AtFile(r)' <=> AtFile(r)) /\ Path(r)' = Path(r)
      BY <1>8 DEF AtFile, Path, Here
    <3> QED
      <4>1. /\ Path(q)' = Path(q) /\ pc'[q] = pc[q] /\ (AtFile(q)' <=> AtFile(q))
            /\ \A r \in Procs : r # q /\ AtFile(r)' => AtFile(r) /\ Path(r)' = Path(r)
        BY <1>8, <1>12, <3>2
      <4> QED
        BY <1>3, <3>1, <4>1 DEF Writing
  <2>4. Solitary(q)'
    BY <1>7, <1>8, <1>12 DEF Solitary, Idle
  <2>5. Search(q)'
    <3>1. \A s : Recent(q, s)' = Recent(q, s) /\ (Missing(q, s)' <=> Missing(q, s))
      BY <1>3, <1>8, <1>12 DEF Recent, Missing
    <3>2. Passed(q)' = Passed(q) /\ (Idle(q)' <=> Idle(q))
      BY <1>8, <1>12 DEF Passed, At, Idle
    <3>3. /\ op'[q] = op[q] /\ calm'[q] = calm[q] /\ forced'[q] = forced[q]
          /\ answer'[q] = answer[q] /\ pc'[q] = pc[q]
      BY <1>5, <1>8, <1>12
    <3>4. Search(q)
      BY <2>1 DEF Good
    <3>5. ASSUME op[q] = "find", calm[q] PROVE Search(q)'
      <4>1. ~forced'[q]
        BY <3>3, <3>4, <3>5 DEF Search
      <4>2. ~Idle(q)' => answer'[q] = NotFound /\ \A i \in Passed(q)' : Missing(q, Sources[i])'
        BY <3>1, <3>2, <3>3, <3>4, <3>5 DEF Search
      <4>3. ASSUME pc'[q] = "done"
            PROVE  /\ answer'[q] = NotFound => \A s \in Registries : Missing(q, s)'
                   /\ \A i \in 1..Len(Sources) : answer'[q].source = Sources[i] =>
                         /\ \E k \in Recent(q, Sources[i])' : Lists(k) = answer'[q].version
                         /\ \A j \in 1..(i - 1) : Missing(q, Sources[j])'
        BY <3>1, <3>3, <3>4, <3>5, <4>3 DEF Search
      <4> QED
        BY <4>1, <4>2, <4>3 DEF Search
    <3> QED
      BY <3>3, <3>5 DEF Search
  <2>6. Update(q)'
    BY <1>3, <1>5, <1>7, <1>8, <1>12, <2>1 DEF Good, Update, Current, Idle
  <2> QED
    BY <2>2, <2>3, <2>4, <2>5, <2>6 DEF Good
<1> QED
  BY <1>3, <1>10, <1>11, <1>12 DEF Inv

\* What a source serves moves on, or its cache expires: no process need notice.
LEMMA WorldKeeps ==
  ASSUME Inv, (\E s \in Registries : Publish(s)) \/ (\E f \in CacheFiles : Expire(f))
  PROVE  Inv'
<1>1. /\ FileTypes /\ ProcessTypes /\ \A r \in Registries : Cached(r)
  BY DEF Inv
<1>2. /\ remote' \in [Registries -> Int] /\ since' \in [Registries -> Int]
      /\ fresh' \in [CacheFiles -> BOOLEAN]
      /\ \A r \in Registries :
            /\ remote[r] <= remote'[r] /\ remote'[r] <= Last[r]
            /\ since[r] <= since'[r] /\ since'[r] <= remote'[r]
            /\ fresh'[CachePath[r]] => fresh[CachePath[r]] /\ since'[r] = since[r]
            /\ since'[r] # since[r] =>
                  \A p \in Procs : pc[p] \in {"open", "write", "rename"} => Here(p) # r
  <2>1. ASSUME NEW s \in Registries, Publish(s) PROVE <1>2
    <3>1. /\ remote' = [remote EXCEPT ![s] = remote[s] + 1] /\ since' = since /\ fresh' = fresh
          /\ remote[s] < Last[s]
      BY <2>1 DEF Publish, files
    <3>2. \A r \in Registries : /\ remote[r] \in Int /\ since[r] \in Int /\ Last[r] \in Int
                                /\ since[r] <= remote[r] /\ remote[r] <= Last[r]
      BY <1>1, PublishedAssumption DEF FileTypes, Cached, Serving
    <3>3. \A r \in Registries : remote'[r] = IF r = s THEN remote[r] + 1 ELSE remote[r]
      BY <1>1, <3>1 DEF FileTypes
    <3>4. /\ remote' \in [Registries -> Int] /\ since' \in [Registries -> Int]
          /\ fresh' \in [CacheFiles -> BOOLEAN]
      BY <1>1, <3>1, <3>2 DEF FileTypes
    <3> QED
      BY <3>1, <3>2, <3>3, <3>4
  <2>2. ASSUME NEW f \in CacheFiles, Expire(f) PROVE <1>2
    BY <1>1, <2>2, FileFacts DEF Expire, FileTypes, Cached, Serving, Path
  <2> QED
    BY <2>1, <2>2
<1>3. /\ cache' = cache /\ tmp' = tmp
      /\ UNCHANGED <<pc, control, body, file, runs, faults, floor, calm, alone, apart, mixed>>
  BY DEF Publish, Expire, files, sharing
<1>4. FileTypes' /\ ProcessTypes'
  BY <1>1, <1>2, <1>3 DEF FileTypes, ProcessTypes, control
<1>5. ASSUME NEW r \in Registries PROVE Cached(r)'
  <2>1. /\ remote[r] \in Int /\ since[r] \in Int /\ cache[CachePath[r]] \in Int
        /\ First[r] \in Int /\ Last[r] \in Int /\ remote'[r] \in Int /\ since'[r] \in Int
    BY <1>1, <1>2, PublishedAssumption, FileFacts DEF FileTypes
  <2>2. Serving(r)'
    BY <1>1, <1>2, <1>3, <2>1 DEF Cached, Serving
  <2>3. Holding(r)'
    BY <1>1, <1>2, <1>3, <2>1 DEF Cached, Holding
  <2> QED
    BY <2>2, <2>3 DEF Cached
<1>6. ASSUME NEW p \in Procs PROVE Good(p)'
  <2>1. Good(p)
    BY DEF Inv
  <2>2. Suffix(p)' /\ Writing(p)' /\ Solitary(p)'
    BY <1>3, <2>1 DEF Good, Suffix, Writing, AtFile, Solitary, Idle, Path, Here, control
  <2>3. Floors(p)'
    <3>1. ASSUME NEW r \in Registries
          PROVE  floor[p].since[r] <= since'[r] /\ floor[p].remote[r] <= remote'[r]
      <4>1. /\ floor[p].since[r] \in Int /\ floor[p].remote[r] \in Int
            /\ floor[p].since[r] <= since[r] /\ floor[p].remote[r] <= remote[r]
        BY <1>1, <2>1 DEF ProcessTypes, Good, Floors
      <4> QED
        <5>1. /\ since[r] \in Int /\ since'[r] \in Int /\ since[r] <= since'[r]
              /\ remote[r] \in Int /\ remote'[r] \in Int /\ remote[r] <= remote'[r]
          BY <1>1, <1>2, Zenon DEF FileTypes
        <5> DEFINE fs == floor[p].since[r]
                   fr == floor[p].remote[r]
        <5>2. fs \in Int /\ fr \in Int /\ fs <= since[r] /\ fr <= remote[r]
          BY <4>1
        <5> HIDE DEF fs, fr
        <5>3. fs <= since'[r] /\ fr <= remote'[r]
          BY <5>1, <5>2
        <5> QED
          BY <5>3 DEF fs, fr
    <3> QED
      BY <1>3, <3>1 DEF Floors
  <2>4. Fetched(p)'
    <3>1. ASSUME pc[p] \in {"open", "write", "rename"}
          PROVE  /\ since'[Here(p)] <= body[p] /\ body[p] <= remote'[Here(p)]
                 /\ floor[p].remote[Here(p)] <= body[p]
      <4>1. Here(p) \in Registries
        BY <3>1, AtWork DEF Idle
      <4>2. /\ since[Here(p)] <= body[p] /\ body[p] <= remote[Here(p)]
            /\ floor[p].remote[Here(p)] <= body[p]
        BY <2>1, <3>1 DEF Good, Fetched
      <4>3. since'[Here(p)] = since[Here(p)]
        BY <1>2, <3>1, <4>1
      <4>4. body[p] \in Int
        BY <1>1 DEF ProcessTypes
      <4> QED
        BY <1>1, <1>2, <4>1, <4>2, <4>3, <4>4 DEF FileTypes
    <3> QED
      BY <1>3, <3>1 DEF Fetched, Here, control
  <2>5. ASSUME NEW r \in Registries PROVE Recent(p, r) \subseteq Recent(p, r)'
    <3>1. floor[p].since[r] \in Int
      BY <1>1 DEF ProcessTypes
    <3> QED
      BY <1>1, <1>2, <1>3, <3>1 DEF Recent, FileTypes
  <2>6. Search(p)'
    <3>1. \A r \in Registries : Missing(p, r) => Missing(p, r)'
      BY <2>5 DEF Missing
    <3>2. \A i \in 1..Len(Sources) : Sources[i] \in Registries
      BY SourceFacts
    <3>3. ASSUME ~Idle(p), NEW i \in Passed(p) PROVE i \in 1..Len(Sources)
      <4>1. At(p) \in 1..Len(Sources) /\ Len(Sources) \in Nat
        BY <3>3, AtWork, SourceFacts
      <4> QED
        BY <3>3, <4>1 DEF Passed
    <3>4. /\ Passed(p)' = Passed(p) /\ (Idle(p)' <=> Idle(p)) /\ pc' = pc /\ op' = op /\ calm' = calm
          /\ forced' = forced /\ answer' = answer
      BY <1>3 DEF Passed, At, Idle, control
    <3>5. ASSUME op[p] = "find", calm[p], pc[p] = "done", NEW i \in 1..Len(Sources),
                 answer[p].source = Sources[i]
          PROVE  /\ \E k \in Recent(p, Sources[i])' : Lists(k) = answer[p].version
                 /\ \A j \in 1..(i - 1) : Missing(p, Sources[j])'
      <4>1. /\ \E k \in Recent(p, Sources[i]) : Lists(k) = answer[p].version
            /\ \A j \in 1..(i - 1) : Missing(p, Sources[j])
        BY <2>1, <3>5 DEF Good, Search
      <4>2. \A j \in 1..(i - 1) : j \in 1..Len(Sources)
        BY SourceFacts
      <4> QED
        BY <2>5, <3>1, <3>2, <4>1, <4>2
    <3>6. op[p] = "find" /\ calm[p] /\ ~Idle(p) => \A i \in Passed(p) : Missing(p, Sources[i])'
      BY <2>1, <3>1, <3>2, <3>3 DEF Good, Search
    <3>7. op[p] = "find" /\ calm[p] /\ pc[p] = "done" /\ answer[p] = NotFound =>
             \A r \in Registries : Missing(p, r)'
      BY <2>1, <3>1 DEF Good, Search
    <3> QED
      BY <2>1, <3>4, <3>5, <3>6, <3>7 DEF Good, Search
  <2>7. Update(p)'
    <3>1. ASSUME NEW r \in Registries
          PROVE  (Current(p, r) => Current(p, r)') /\ (Refilled(p, r) => Refilled(p, r)')
      <4>1. got[p][r] \in Int
        BY <1>1 DEF ProcessTypes
      <4> QED
        BY <1>1, <1>2, <1>3, <4>1 DEF Current, Refilled, Filled, FileTypes, control
    <3>2. ASSUME ~Idle(p), NEW i \in Passed(p) PROVE Sources[i] \in Registries
      <4>1. At(p) \in 1..Len(Sources) /\ Len(Sources) \in Nat
        BY <3>2, AtWork, SourceFacts
      <4> QED
        BY <3>2, <4>1, SourceFacts DEF Passed
    <3>3. Passed(p)' = Passed(p) /\ (Idle(p)' <=> Idle(p))
      BY <1>3 DEF Passed, At, Idle, control
    <3> QED
      BY <1>3, <2>1, <3>1, <3>2, <3>3 DEF Good, Update, control
  <2> QED
    BY <2>2, <2>3, <2>4, <2>6, <2>7 DEF Good
<1> QED
  BY <1>4, <1>5, <1>6 DEF Inv

LEMMA InitInv == Init => Inv
<1> SUFFICES ASSUME Init PROVE Inv
  OBVIOUS
<1>1. FileTypes
  BY PublishedAssumption, FileFacts DEF Init, FileTypes, None
<1>2. ProcessTypes
  BY SourceFacts, EmptySeq DEF Init, ProcessTypes, Labels, NoFloor, Unasked, None
<1>3. \A s \in Registries : Cached(s)
  BY PublishedAssumption, FileFacts DEF Init, Cached, Serving, Holding, None
<1>4. ASSUME NEW p \in Procs PROVE Good(p)
  <2>1. Suffix(p)
    BY SourceFacts, EmptySeq DEF Init, Suffix, Idle
  <2>2. Floors(p)
    BY PublishedAssumption DEF Init, Floors, NoFloor, Unasked, None
  <2> QED
    BY <2>1, <2>2 DEF Init, Good, Fetched, Writing, AtFile, Solitary, Search, Update, Idle
<1> QED
  BY <1>1, <1>2, <1>3, <1>4 DEF Inv

LEMMA Inductive == ASSUME Distinct, Inv, [Next]_vars PROVE Inv'
<1>1. CASE UNCHANGED vars
  <2>1. /\ UNCHANGED <<remotes, cache, tmp, fresh, pc, op, forced, left, got, answer, body, file,
                       floor, calm, alone, apart, mixed>>
        /\ UNCHANGED <<remote, since>>
    BY <1>1 DEF vars, files, control, remotes, sharing
  <2>2. FileTypes' /\ ProcessTypes'
    BY <2>1 DEF Inv, FileTypes, ProcessTypes
  <2>3. \A s \in Registries : Cached(s)'
    BY <2>1, CachedStay
  <2>4. ASSUME NEW p \in Procs PROVE Good(p)'
    <3>1. Good(p)
      BY DEF Inv
    <3>2. Suffix(p)' /\ Floors(p)' /\ Fetched(p)' /\ Writing(p)' /\ Solitary(p)'
      BY <2>1, <3>1 DEF Good, Suffix, Floors, Fetched, Writing, AtFile, Solitary, Idle, Path, Here
    <3>3. \A s : Recent(p, s)' = Recent(p, s) /\ (Missing(p, s)' <=> Missing(p, s))
      BY <2>1 DEF Recent, Missing
    <3>4. Passed(p)' = Passed(p) /\ (Idle(p)' <=> Idle(p))
      BY <2>1 DEF Passed, At, Idle
    <3>5. Search(p)'
      BY <2>1, <3>1, <3>3, <3>4 DEF Good, Search
    <3>6. Update(p)'
      BY <2>1, <3>1, <3>4 DEF Good, Update, Refilled, Filled, Current
    <3> QED
      BY <3>2, <3>5, <3>6 DEF Good
  <2> QED
    BY <2>2, <2>3, <2>4 DEF Inv
<1>2. ASSUME NEW p \in Procs, Step(p) PROVE Inv'
  BY <1>2, BeginKeeps, LoadKeeps, FetchKeeps, FetchErrorKeeps, OpenKeeps, WriteKeeps, RenameKeeps,
     SaveFailsKeeps, KillKeeps DEF Step
<1>3. CASE (\E s \in Registries : Publish(s)) \/ (\E f \in CacheFiles : Expire(f))
  BY <1>3, WorldKeeps
<1> QED
  BY <1>1, <1>2, <1>3 DEF Next

LEMMA Invariance == ASSUME Distinct PROVE Spec => []Inv
<1>1. Inv /\ [Next]_vars => Inv'
  BY Inductive
<1> QED
  BY <1>1, InitInv, PTL DEF Spec

-----------------------------------------------------------------------------
\* For any registries, cache files and number of processes, whatever fails, is killed,
\* published and expires, and whoever writes one file at a time: but for the files that are
\* mixed, a cached index is one the registry has served, and while it counts as fresh one
\* served after the copy before it had expired.
THEOREM CacheIsServed ==
  ASSUME Distinct PROVE Spec => []CacheServed
<1>1. Inv => CacheServed
  <2> SUFFICES ASSUME Inv, NEW s \in Registries, CachePath[s] \notin mixed
               PROVE  /\ cache[CachePath[s]] # None => cache[CachePath[s]] \in First[s]..remote[s]
                      /\ fresh[CachePath[s]] => cache[CachePath[s]] >= since[s]
    BY DEF CacheServed
  <2>1. /\ cache[CachePath[s]] \in Int /\ remote[s] \in Int /\ since[s] \in Int /\ First[s] \in Int
    BY FileFacts, PublishedAssumption DEF Inv, FileTypes
  <2> QED
    BY <2>1 DEF Inv, Cached, Holding
<1> QED
  BY <1>1, Invariance, PTL

\* ... a search that met no fault and read no mixed file answers by indexes that were current
\* since the caches of their sources last expired, and names the first source that has the
\* plugin, whatever other commands fetch and write meanwhile.
THEOREM FindIsRecent ==
  ASSUME Distinct PROVE Spec => []FindsRecent
<1>1. Inv => FindsRecent
  BY DEF Inv, Good, Search, Missing, FindsRecent
<1> QED
  BY <1>1, Invariance, PTL

\* ... and an update that met no fault and ran alone lists what the registries serve now.
THEOREM UpdatedIsCurrent ==
  ASSUME Distinct PROVE Spec => []UpdateIsCurrent
<1>1. Inv => UpdateIsCurrent
  <2> SUFFICES ASSUME Inv, NEW p \in Procs, pc[p] = "done", op[p] = "update", calm[p], alone[p],
                      NEW s \in Registries
               PROVE  got[p][s] \in floor[p].remote[s]..remote[s]
    BY DEF UpdateIsCurrent
  <2>1. Current(p, s)
    BY DEF Inv, Good, Update
  <2>2. got[p][s] \in Int /\ floor[p].remote[s] \in Int /\ remote[s] \in Int
    BY DEF Inv, ProcessTypes, FileTypes
  <2> QED
    BY <2>1, <2>2 DEF Current
<1> QED
  BY <1>1, Invariance, PTL
=============================================================================
