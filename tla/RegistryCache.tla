---------------------------- MODULE RegistryCache ----------------------------
(***************************************************************************)
(* The client of the plugin registries (internal/plugin/registry/           *)
(* registry.go): LoadIndex with its cache on disk, FindFirst over the        *)
(* configured sources (samuel install, info), Refresh and the listing that   *)
(* follows it (samuel update).  Commands are processes of their own; the     *)
(* cache's files are shared by all of them and nothing locks them.           *)
(*                                                                         *)
(* A registry publishes one index after the other; an index is named by its *)
(* number.  The cache of a source is one file, replaced through a temporary *)
(* file of a fixed name; which file that is depends on the host and the path *)
(* of the source's URL only, so that two sources may have the same.          *)
(***************************************************************************)
EXTENDS Integers, Sequences

CONSTANTS
    Procs,
    Sources,    \* the registries of samuel.toml, in their order
    Name,       \* the plugin that is looked for
    Published,  \* the indexes of all sources, a sequence of functions from
                \* plugins to versions (0: not listed)
    First, Last,\* First[s]..Last[s]: those that source s publishes, in turn
    CachePath,  \* CachePath[s]: the file of source s in the cache
    MaxRuns,    \* bound: commands begun
    MaxFaults   \* bound: failed fetches and writes, garbled answers, kills

Registries == {Sources[i] : i \in 1..Len(Sources)}

ASSUME SourcesAssumption   == Sources \in Seq(STRING) /\ Sources # <<>> /\ "none" \notin Registries
ASSUME PublishedAssumption ==
    /\ Published \in Seq([{Name} -> Nat])
    /\ First \in [Registries -> Nat \ {0}] /\ Last \in [Registries -> Nat]
    /\ \A s \in Registries : First[s] <= Last[s] /\ Last[s] <= Len(Published)

CacheFiles == {CachePath[s] : s \in Registries}

None  == -2     \* no file, no answer
Torn  == -1     \* a file that is not TOML
Empty == 0      \* a truncated file: TOML, and an index of no plugin
Error == -3     \* LoadIndex returned an error

Lists(k)   == IF k \in 1..Len(Published) THEN Published[k][Name] ELSE 0
Parses(k)  == k >= Empty

(* The files that more than one source has. *)
Shared == {f \in CacheFiles : \E r, s \in Registries : r # s /\ CachePath[r] = f /\ CachePath[s] = f}

VARIABLES
    remote,     \* source -> the index it serves now
    cache, tmp, \* file of the cache -> index.toml and index.toml.tmp
    fresh,      \* file of the cache -> it is younger than the TTL
    pc,         \* per process: the step it is at
    op,         \* per process: find, update
    forced,     \* per process: this pass ignores the cache
    left,       \* per process: the sources it has not asked
    body,       \* per process: the index it has fetched
    file,       \* per process: where the file it writes is now: tmp, cache, gone
    got,        \* per process: source -> what LoadIndex returned last
    answer,     \* per process: FindFirst's source and version
    runs, faults,
    since,      \* history: source -> the index served when a cache last expired
    floor,      \* history: per process, the values of since and remote when it began
    calm,       \* history: per process, this command has met no fault and has
                \*              read no mixed cache
    alone,      \* history: per process, no other command ran along with it
    apart,      \* history: per process, nobody else has written to the file it
                \*              writes since it opened it
    mixed       \* history: the caches that may be of two writers or two sources

remotes == <<remote, since>>
files   == <<cache, tmp, fresh>>
control == <<op, forced, left, got, answer>>
sharing == <<apart, mixed>>
vars == <<remotes, files, pc, control, body, file, runs, faults, floor, calm, alone, sharing>>

Unasked  == [s \in Registries |-> None]
NotFound == [source |-> "none", version |-> 0]
NoFloor  == [since |-> Unasked, remote |-> Unasked]

Init ==
    /\ remote = First
    /\ cache = [f \in CacheFiles |-> None]
    /\ tmp = [f \in CacheFiles |-> None]
    /\ fresh = [f \in CacheFiles |-> FALSE]
    /\ pc = [p \in Procs |-> "idle"]
    /\ op = [p \in Procs |-> "find"]
    /\ forced = [p \in Procs |-> FALSE]
    /\ left = [p \in Procs |-> <<>>]
    /\ body = [p \in Procs |-> None]
    /\ file = [p \in Procs |-> "gone"]
    /\ got = [p \in Procs |-> Unasked]
    /\ answer = [p \in Procs |-> NotFound]
    /\ runs = 0 /\ faults = 0
    /\ since = remote
    /\ floor = [p \in Procs |-> NoFloor]
    /\ calm = [p \in Procs |-> TRUE]
    /\ alone = [p \in Procs |-> TRUE]
    /\ apart = [p \in Procs |-> TRUE]
    /\ mixed = Shared

Here(p) == Head(left[p])
Path(p) == CachePath[Here(p)]
Idle(p) == pc[p] \in {"idle", "done"}
Goto(p, step) == pc' = [pc EXCEPT ![p] = step]

Faulty(p) ==
    /\ faults < MaxFaults
    /\ faults' = faults + 1
    /\ calm' = [calm EXCEPT ![p] = FALSE]
    /\ UNCHANGED <<alone, sharing>>

Begin(p) ==
    /\ Idle(p)
    /\ runs < MaxRuns
    /\ runs' = runs + 1
    /\ \E o \in {"find", "update"} :
          /\ op' = [op EXCEPT ![p] = o]
          /\ forced' = [forced EXCEPT ![p] = o = "update"]
    /\ left' = [left EXCEPT ![p] = Sources]
    /\ got' = [got EXCEPT ![p] = Unasked]
    /\ answer' = [answer EXCEPT ![p] = NotFound]
    /\ Goto(p, "load")
    /\ floor' = [floor EXCEPT ![p] = [since |-> since, remote |-> remote]]
    /\ calm' = [calm EXCEPT ![p] = TRUE]
    /\ alone' = [q \in Procs |-> IF q = p THEN \A r \in Procs : Idle(r)
                                 ELSE alone[q] /\ Idle(q)]
    /\ UNCHANGED <<remotes, files, body, file, faults, sharing>>

(* FindFirst takes the first source that lists the plugin. *)
Found(p, k) == op[p] = "find" /\ k # Error /\ Lists(k) > 0

(* Refresh fails if every source did. *)
Refreshed(results) == \E s \in Registries : results[s] # Error

(* runUpdate: after a refresh ListAvailable asks every source again, without
   forcing; it skips those that fail. *)
ListAvailable(p, results) == forced[p] /\ Refreshed(results)

(* LoadIndex returns index k, or an error, for the source at hand: FindFirst
   skips the sources that fail; Refresh asks them all. *)
Return(p, k) ==
    LET s       == Here(p)
        results == [got[p] EXCEPT ![s] = k]
        hit     == Found(p, k)
        more    == ~hit /\ Tail(left[p]) # <<>>
        relist  == ~hit /\ ~more /\ ListAvailable(p, results)
    IN  /\ got' = [got EXCEPT ![p] = results]
        /\ answer' = IF hit THEN [answer EXCEPT ![p] = [source |-> s, version |-> Lists(k)]]
                            ELSE answer
        /\ left' = [left EXCEPT ![p] = CASE more   -> Tail(@)
                                         [] relist -> Sources
                                         [] OTHER  -> <<>>]
        /\ forced' = [forced EXCEPT ![p] = @ /\ ~relist]
        /\ Goto(p, IF more \/ relist THEN "load" ELSE "done")
        /\ UNCHANGED op

(* A cache as the answer; one that is mixed may be anything. *)
Serve(p) ==
    /\ Return(p, cache[Path(p)])
    /\ calm' = [calm EXCEPT ![p] = @ /\ Path(p) \notin mixed]

\* Mutant: a refresh is served from a fresh cache.
LoadIgnoresForce(p) ==
    /\ pc[p] = "load"
    /\ IF fresh[Path(p)] /\ Parses(cache[Path(p)])
       THEN Serve(p)
       ELSE Goto(p, "fetch") /\ UNCHANGED <<control, calm>>
    /\ UNCHANGED <<remotes, files, body, file, runs, faults, floor, alone, sharing>>

\* Mutant: a cache is used however old it is.
LoadIgnoresAge(p) ==
    /\ pc[p] = "load"
    /\ IF ~forced[p] /\ Parses(cache[Path(p)])
       THEN Serve(p)
       ELSE Goto(p, "fetch") /\ UNCHANGED <<control, calm>>
    /\ UNCHANGED <<remotes, files, body, file, runs, faults, floor, alone, sharing>>

(* LoadIndex: a fresh cache that parses is the answer. *)
Load(p) ==
    /\ pc[p] = "load"
    /\ IF ~forced[p] /\ fresh[Path(p)] /\ Parses(cache[Path(p)])
       THEN Serve(p)
       ELSE Goto(p, "fetch") /\ UNCHANGED <<control, calm>>
    /\ UNCHANGED <<remotes, files, body, file, runs, faults, floor, alone, sharing>>

Fetch(p) ==
    /\ pc[p] = "fetch"
    /\ body' = [body EXCEPT ![p] = remote[Here(p)]]
    /\ Goto(p, "open")
    /\ UNCHANGED <<remotes, files, control, file, runs, faults, floor, calm, alone, sharing>>

(* The network fails: any cache that parses is the answer, however old ... *)
FetchFails(p) ==
    /\ pc[p] = "fetch"
    /\ Faulty(p)
    /\ Return(p, IF Parses(cache[Path(p)]) THEN cache[Path(p)] ELSE Error)
    /\ UNCHANGED <<remotes, files, body, file, runs, floor>>

(* ... but an answer that is not an index is an error. *)
Garbled(p) ==
    /\ pc[p] = "fetch"
    /\ Faulty(p)
    /\ Return(p, Error)
    /\ UNCHANGED <<remotes, files, body, file, runs, floor>>

-----------------------------------------------------------------------------
(* writeCache: the temporary file is created or truncated, whoever else is
   writing to it ... *)
Writers(f) == {q \in Procs : pc[q] \in {"write", "rename"} /\ Path(q) = f}

Join(p, f) ==
    /\ apart' = [q \in Procs |-> IF q = p THEN Writers(f) = {} ELSE apart[q] /\ q \notin Writers(f)]
    /\ mixed' = IF Writers(f) = {} THEN mixed ELSE mixed \cup {f}

\* Mutant: the cache itself is written, without a temporary file.
OpenInPlace(p) ==
    LET f == Path(p) IN
    /\ pc[p] = "open"
    /\ cache' = [cache EXCEPT ![f] = Empty]
    /\ file' = [file EXCEPT ![p] = "cache"]
    /\ Join(p, f)
    /\ Goto(p, "write")
    /\ UNCHANGED <<remotes, tmp, fresh, control, body, runs, faults, floor, calm, alone>>

Open(p) ==
    LET f == Path(p) IN
    /\ pc[p] = "open"
    /\ tmp' = [tmp EXCEPT ![f] = Empty]
    /\ file' = [file EXCEPT ![p] = "tmp"]
    /\ Join(p, f)
    /\ Goto(p, "write")
    /\ UNCHANGED <<remotes, cache, fresh, control, body, runs, faults, floor, calm, alone>>

Put(p, content) ==
    LET f == Path(p) IN
    /\ tmp' = IF file[p] = "tmp" THEN [tmp EXCEPT ![f] = content] ELSE tmp
    /\ cache' = IF file[p] = "cache" THEN [cache EXCEPT ![f] = content] ELSE cache

(* ... written, under whatever name it has by now ... *)
Write(p) ==
    /\ pc[p] = "write"
    /\ Put(p, body[p])
    /\ Goto(p, "rename")
    /\ UNCHANGED <<remotes, fresh, control, body, file, runs, faults, floor, calm, alone, sharing>>

Close(p) ==
    /\ body' = [body EXCEPT ![p] = None]
    /\ file' = [q \in Procs |->
          CASE q = p -> "gone"
            [] q # p /\ q \in Writers(Path(p)) /\ tmp'[Path(p)] # tmp[Path(p)] ->
                 (IF file[q] = "tmp" THEN "cache" ELSE "gone")
            [] OTHER -> file[q]]

(* ... and renamed, if nobody else has done it; LoadIndex drops the error. *)
Rename(p) ==
    LET f == Path(p) IN
    /\ pc[p] = "rename"
    /\ IF tmp[f] # None
       THEN /\ cache' = [cache EXCEPT ![f] = tmp[f]]
            /\ fresh' = [fresh EXCEPT ![f] = TRUE]
            /\ tmp' = [tmp EXCEPT ![f] = None]
            /\ mixed' = IF apart[p] THEN (mixed \ {f}) \cup Shared ELSE mixed
       ELSE UNCHANGED <<cache, fresh, tmp, mixed>>
    /\ Close(p)
    /\ Return(p, body[p])
    /\ UNCHANGED <<remotes, runs, faults, floor, calm, alone, apart>>

SaveFails(p) ==
    /\ pc[p] \in {"open", "write", "rename"}
    /\ Faulty(p)
    /\ IF pc[p] = "write" THEN \E k \in {Empty, Torn} : Put(p, k)
                          ELSE UNCHANGED <<tmp, cache>>
    /\ file' = [file EXCEPT ![p] = "gone"]
    /\ body' = [body EXCEPT ![p] = None]
    /\ Return(p, body[p])
    /\ UNCHANGED <<remotes, fresh, runs, floor>>

(* A kill leaves the files as far as they were written. *)
Kill(p) ==
    /\ ~Idle(p)
    /\ Faulty(p)
    /\ IF pc[p] = "write" THEN \E k \in {Empty, Torn} : Put(p, k)
                          ELSE UNCHANGED <<tmp, cache>>
    /\ file' = [file EXCEPT ![p] = "gone"]
    /\ body' = [body EXCEPT ![p] = None]
    /\ left' = [left EXCEPT ![p] = <<>>]
    /\ Goto(p, "idle")
    /\ UNCHANGED <<remotes, fresh, op, forced, got, answer, runs, floor>>

-----------------------------------------------------------------------------
Publish(s) ==
    /\ remote[s] < Last[s]
    /\ remote' = [remote EXCEPT ![s] = @ + 1]
    /\ UNCHANGED <<since, files, pc, control, body, file, runs, faults, floor, calm, alone, sharing>>

(* A day passes.  No fetch lasts that long: the client gives it 30 seconds. *)
Expire(f) ==
    /\ fresh[f]
    /\ \A p \in Procs : pc[p] \in {"open", "write", "rename"} => Path(p) # f
    /\ fresh' = [fresh EXCEPT ![f] = FALSE]
    /\ since' = [s \in Registries |-> IF CachePath[s] = f THEN remote[s] ELSE since[s]]
    /\ UNCHANGED <<remote, cache, tmp, pc, control, body, file, runs, faults,
                   floor, calm, alone, sharing>>

Step(p) == Begin(p) \/ Load(p) \/ Fetch(p) \/ FetchFails(p) \/ Garbled(p)
           \/ Open(p) \/ Write(p) \/ Rename(p) \/ SaveFails(p) \/ Kill(p)

Next ==
    \/ \E p \in Procs : Step(p)
    \/ \E s \in Registries : Publish(s)
    \/ \E f \in CacheFiles : Expire(f)

Spec == Init /\ [][Next]_vars

-----------------------------------------------------------------------------
(* The cache is repopulated atomically, unless two processes do it at a time: but
   for a file that is mixed (two writers have overlapped, and nobody has written
   it alone since; or two sources have it), what the cache holds of a source is
   an index that source has served, and while it counts as fresh one that was
   served after the copy before it had expired. *)
CacheServed ==
    \A s \in Registries : CachePath[s] \notin mixed =>
        /\ cache[CachePath[s]] # None => cache[CachePath[s]] \in First[s]..remote[s]
        /\ fresh[CachePath[s]] => cache[CachePath[s]] >= since[s]

Recent(p, s) == floor[p].since[s]..remote[s]

(* A search that met no fault tells the truth up to one TTL, whatever other
   commands do, also while it writes one file with them, as long as it reads no
   mixed one: with two writers a truncated file can be renamed, which parses as
   an index of no plugin (registry.go:376) and stays until somebody writes the
   file alone.  A plugin that is not found, or is found in a later source, was
   missing in an index of every source passed over that was current since that
   source's cache last expired, and a version found was in such an index. *)
FindsRecent ==
    \A p \in Procs : pc[p] = "done" /\ op[p] = "find" /\ calm[p] =>
        /\ answer[p] = NotFound =>
              \A s \in Registries : \E k \in Recent(p, s) : Lists(k) = 0
        /\ \A i \in 1..Len(Sources) : answer[p].source = Sources[i] =>
              /\ \E k \in Recent(p, Sources[i]) : Lists(k) = answer[p].version
              /\ \A j \in 1..(i - 1) : \E k \in Recent(p, Sources[j]) : Lists(k) = 0

(* An update that met no fault and ran alone lists what the registries serve
   now, not what they served when the caches were filled, and not what two
   earlier writers have mixed. *)
UpdateIsCurrent ==
    \A p \in Procs : pc[p] = "done" /\ op[p] = "update" /\ calm[p] /\ alone[p] =>
        \A s \in Registries : got[p][s] \in floor[p].remote[s]..remote[s]
=============================================================================
