------------------------------ MODULE Admission ------------------------------
(***************************************************************************)
(* How Service.Install (internal/plugin/service/service.go) comes to install *)
(* a plugin or to refuse it: the version is resolved, its tree fetched       *)
(* (source/source.go, source/github_release.go), its manifest validated      *)
(* (manifest/manifest.go), its artifact verified (verify/verify.go with its  *)
(* cache, verify/sigstore.go with its trust root), and its capabilities      *)
(* granted (capability/capability.go).  What follows is PluginService.       *)
(*                                                                         *)
(* Services run in turn, one per command; `update --all` installs one plugin *)
(* after the other with one service, and the load of the trust root is the    *)
(* service's.  The cache of verdicts and the trust root on disk outlive it.   *)
(* What an install reads from its flags, from the registry or from a fetched  *)
(* file is chosen at the step that reads it, and what no later step reads is  *)
(* forgotten.                                                                *)
(***************************************************************************)
EXTENDS SemVer, FiniteSets, Functions

CONSTANTS
    Entries,      \* a registry's entries: [versions, latest]
    Constraints,  \* sets of parts
    Ladder,       \* versions in ascending order, by the rules of SemVer 2.0
    Manifests,    \* records of the fields that Validate looks at
    Required,     \* the assets of a release that must be there, in their order
    Optional,     \* and those that may be missing
    Digests,      \* of artifacts, as the cache is asked for them
    Suffixed,     \* those that only a manifest can name: +unsigned is part of their text
    NoDigest,     \* an artifact that cannot be read, an image without a digest
    Short(_),     \* the first 16 characters of a digest, up to a +
    Attempts,     \* of fetching the trust root
    MaxRuns       \* bound: installs

ASSUME DigestAssumption   == NoDigest \notin Digests /\ Suffixed \subseteq Digests
ASSUME AssetsAssumption   == /\ Required \in Seq({Required[i] : i \in DOMAIN Required})
                             /\ Optional \in Seq({Optional[i] : i \in DOMAIN Optional})
                             /\ {Required[i] : i \in DOMAIN Required}
                                  \cap {Optional[i] : i \in DOMAIN Optional} = {}
ASSUME AttemptsAssumption == Attempts \in Nat \ {0}

Tags    == {"ref", "v-ref"}     \* the version as it is, or after a v
NoTag   == "none"
Assets  == {Required[i] : i \in DOMAIN Required} \cup {Optional[i] : i \in DOMAIN Optional}
Empty   == [a \in Assets |-> NoTag]
TreeOf(tag) == [a \in Assets |-> tag]
Kinds   == {"skill", "wasm", "oci", "meta"}
Artifacts == Digests \cup {NoDigest}
Keys      == {Short(d) : d \in Artifacts} \X (0..2)

VARIABLES
    pc,
    asked,      \* entry, constraint and flag of the resolution
    version,    \* what it is resolved to
    tier,       \* the registry's hint of a kind
    bare,       \* the version starts with a digit
    tags,       \* the tags that are left to try
    dest,       \* asset -> the tag whose file lies in the temporary directory
    left,       \* the assets that are left to download
    kind,       \* of the manifest
    key,        \* artifact and --allow-unsigned
    verdict,    \* what the install made of the artifact
    granted,    \* what it granted, and why
    may,        \* what the command and its flag may still be: read once, and for all its plugins
    once,       \* the service's load of the trust root: unset, ok, failed
    tries,      \* that failed so far in that load
    judged,     \* history: what came of the artifacts of the service that needed the trust root
    cache,      \* the keys under which an acceptance is kept
    root,       \* the trust root on disk: none, fresh, expired
    runs,
    accepted    \* history: artifacts and what they were accepted by

resolution == <<asked, version>>
fetched    == <<tier, bare, tags, dest, left>>
load       == <<once, tries, judged>>
trust      == <<cache, root, accepted>>
vars == <<pc, resolution, fetched, kind, key, verdict, granted, may, load, trust, runs>>

NotAsked == [entry |-> [versions |-> <<>>, latest |-> Blank], parts |-> {}, pre |-> FALSE]
NoKey    == <<NoDigest, FALSE>>
NoGrants == [kinds |-> {}, reason |-> "none"]

Init ==
    /\ pc = "end"
    /\ asked = NotAsked /\ version = Blank
    /\ tier = "skill" /\ bare = TRUE /\ tags = <<>> /\ dest = Empty /\ left = <<>>
    /\ kind = "skill" /\ key = NoKey /\ verdict = "none" /\ granted = NoGrants
    /\ may = [verb |-> {}, unsigned |-> {}]
    /\ once = "unset" /\ tries = 0 /\ judged = {}
    /\ cache = {} /\ root = "none" /\ accepted = {}
    /\ runs = 0

Goto(step) == pc' = step
Refuse     == Goto("end")

Install ==
    /\ pc = "end"
    /\ runs < MaxRuns
    /\ runs' = runs + 1
    /\ Goto("resolve")
    /\ asked' = NotAsked /\ version' = Blank
    /\ tier' = "skill" /\ bare' = TRUE /\ tags' = <<>> /\ dest' = Empty /\ left' = <<>>
    /\ kind' = "skill" /\ key' = NoKey /\ verdict' = "none" /\ granted' = NoGrants
    /\ UNCHANGED trust

(* install, update, and doctor --fix, which builds a service for each plugin
   and installs it as an update without flags does. *)
Begin ==
    /\ Install
    /\ may' = [verb |-> {"install", "update"}, unsigned |-> BOOLEAN]
    /\ once' = "unset" /\ tries' = 0 /\ judged' = {}

(* runUpdate: the next plugin, whatever came of the one before. *)
NextPlugin ==
    /\ "update" \in may.verb
    /\ Install
    /\ may' = [may EXCEPT !.verb = {"update"}]
    /\ UNCHANGED load

ResolveStep ==
    /\ pc = "resolve"
    /\ \E entry \in Entries, parts \in Constraints, pre \in BOOLEAN :
          /\ asked' = [entry |-> entry, parts |-> parts, pre |-> pre]
          /\ version' = ResolveVersion(entry, parts, pre)
    /\ Goto("route")
    /\ UNCHANGED <<fetched, kind, key, verdict, granted, may, load, trust, runs>>

-----------------------------------------------------------------------------
(* A version that starts with a digit and has a dot may be tagged with a v as
   well; a latest version that is spelled otherwise is taken as it is. *)
Candidates == IF bare THEN <<"ref", "v-ref">> ELSE <<"ref">>

(* Fetch: a directory is used where it is; wasm and oci plugins of github.com
   are looked for in its releases first; the rest is cloned. *)
Route ==
    /\ pc = "route"
    /\ asked' = NotAsked /\ version' = Blank
    /\ IF version = NoMatch
       THEN Refuse /\ UNCHANGED fetched
       ELSE /\ tier' \in {"skill", "wasm", "oci"}
            /\ bare' \in (IF Parses(version) THEN {TRUE} ELSE BOOLEAN)
            /\ \/ /\ dest' = TreeOf("ref")
                  /\ tags' = <<>> /\ left' = <<>>
                  /\ Goto("manifest")
               \/ /\ dest' = Empty
                  /\ tags' = Candidates'
                  /\ left' = IF tier' = "skill" THEN <<>> ELSE Required \o Optional
                  /\ Goto(IF tier' = "skill" THEN "clone" ELSE "download")
               \/ /\ UNCHANGED <<tags, dest, left>>  \* no such source, no git
                  /\ Refuse
    /\ UNCHANGED <<kind, key, verdict, granted, may, load, trust, runs>>

Needed == Head(left) \in {Required[i] : i \in DOMAIN Required}

\* Mutant: a release that lacks an asset is taken for another tag half way.
DownloadKeepsPlace(result) ==
    \/ /\ result = "ok"
       /\ dest' = [dest EXCEPT ![Head(left)] = Head(tags)]
       /\ left' = Tail(left)
       /\ UNCHANGED tags
    \/ /\ result = "missing" /\ ~Needed
       /\ left' = Tail(left)
       /\ UNCHANGED <<dest, tags>>
    \/ /\ result = "missing" /\ Needed
       /\ tags' = Tail(tags)
       /\ UNCHANGED <<dest, left>>

(* downloadReleaseAssets: one asset after the other; one that is required and
   missing ends this tag, and the next one starts over in the same directory. *)
Download(result) ==
    \/ /\ result = "ok"
       /\ dest' = [dest EXCEPT ![Head(left)] = Head(tags)]
       /\ left' = Tail(left)
       /\ UNCHANGED tags
    \/ /\ result = "missing" /\ ~Needed
       /\ left' = Tail(left)
       /\ UNCHANGED <<dest, tags>>
    \/ /\ result = "missing" /\ Needed
       /\ tags' = Tail(tags)
       /\ left' = Required \o Optional
       /\ UNCHANGED dest

DownloadStep ==
    /\ pc = "download" /\ left # <<>> /\ tags # <<>>
    /\ \E result \in {"ok", "missing"} : Download(result)
    /\ UNCHANGED <<pc, resolution, tier, bare, kind, key, verdict, granted, may, load, trust, runs>>

Downloaded ==
    /\ pc = "download" /\ left = <<>>
    /\ Goto("manifest")
    /\ UNCHANGED <<resolution, fetched, kind, key, verdict, granted, may, load, trust, runs>>

(* No tag is left, or another failure: a clone of the repository, elsewhere,
   starts from the version again. *)
ReleaseFails ==
    /\ pc = "download"
    /\ tags = <<>> \/ left # <<>>
    /\ dest' = Empty
    /\ tags' = Candidates
    /\ left' = <<>>
    /\ Goto("clone")
    /\ UNCHANGED <<resolution, tier, bare, kind, key, verdict, granted, may, load, trust, runs>>

(* fetchGit: only a ref that does not exist makes it try the other tag. *)
Clone ==
    /\ pc = "clone"
    /\ \/ dest' = TreeOf(Head(tags)) /\ tags' = <<>> /\ Goto("manifest")
       \/ Len(tags) > 1 /\ tags' = Tail(tags) /\ UNCHANGED <<dest, pc>>
       \/ tags' = <<>> /\ UNCHANGED dest /\ Refuse
    /\ UNCHANGED <<resolution, tier, bare, left, kind, key, verdict, granted, may, load, trust, runs>>
-----------------------------------------------------------------------------
ValidName(m)         == m.name = "fine"
ReservedExports(m)   == m.exports = "reserved"
ValidVersionRange(r) == r # "odd"

(* Manifest.Validate: a manifest of any of the four kinds that passes. *)
Valid(m) ==
    /\ ValidName(m) /\ m.version
    /\ m.kind \in Kinds
    /\ m.kind = "meta" => m.requires
    /\ m.kind = "wasm" => m.module /\ m.exports # "none" /\ ~ReservedExports(m)
    /\ m.kind = "oci"  => m.image = "pinned"
    /\ ValidVersionRange(m.framework) /\ ValidVersionRange(m.protocol)

(* A manifest that is missing or unreadable refuses too.  The kind and version
   of the registry never stand in for the manifest's: Validate comes first. *)
Manifest ==
    /\ pc = "manifest"
    /\ tier' = "skill" /\ bare' = TRUE /\ dest' = Empty
    /\ UNCHANGED <<tags, left>>
    /\ \/ \E m \in Manifests :
             /\ kind' = m.kind
             /\ IF Valid(m) THEN Goto("verify") ELSE Refuse
       \/ UNCHANGED kind /\ Refuse
    /\ UNCHANGED <<resolution, key, verdict, granted, may, load, trust, runs>>

-----------------------------------------------------------------------------
Suffixes(artifact, unsigned) ==
    (IF artifact \in Suffixed THEN 1 ELSE 0) + (IF unsigned THEN 1 ELSE 0)

\* Mutant: one entry serves both settings of the flag.
CacheKeyPlain(artifact, unsigned) == <<Short(artifact), Suffixes(artifact, FALSE)>>

(* cacheKey, and the file that Cache.path makes of it: the digest cut short,
   and the suffixes; what is kept there does not say of which artifact it is. *)
CacheKey(artifact, unsigned) == <<Short(artifact), Suffixes(artifact, unsigned)>>

(* A blob that cannot be read is not cached; an image without a digest is. *)
Cacheable(artifact) == kind = "oci" \/ artifact # NoDigest

Hit(artifact, unsigned) == Cacheable(artifact) /\ CacheKey(artifact, unsigned) \in cache

(* The verifier accepts; what the cache keeps does not say why, nor for which
   registry, and a cache that cannot be written is no error. *)
Accept(artifact, unsigned, how) ==
    /\ verdict' = how
    /\ accepted' = accepted \cup {<<artifact, how>>}
    /\ \/ UNCHANGED cache
       \/ Cacheable(artifact) /\ cache' = cache \cup {CacheKey(artifact, unsigned)}
    /\ Goto("decide")

(* shortCircuit: what the policy or the flag waives needs no network
   (signed_default is off for an upstream plugin). *)
Waived(unsigned, signedDefault, exempt) ==
    CASE ~signedDefault                        -> "policy"
      [] signedDefault /\ unsigned             -> "flag"
      [] signedDefault /\ ~unsigned /\ exempt  -> "policy"
      [] signedDefault /\ ~unsigned /\ ~exempt -> "no"

(* verifyArtifact: the cache, shortCircuit, and then the signature.  The digest
   of a file is computed; that of an image is what the manifest says. *)
Verify ==
    /\ pc = "verify"
    /\ kind # "meta"
    /\ \E artifact \in Artifacts, unsigned \in may.unsigned, signedDefault, exempt \in BOOLEAN :
          LET how == Waived(unsigned, signedDefault, exempt)
          IN  /\ artifact \in Suffixed => kind = "oci"
              /\ key' = <<artifact, unsigned>>
              /\ may' = [may EXCEPT !.unsigned = {unsigned}]
              /\ \/ /\ Hit(artifact, unsigned)
                    /\ verdict' = "cached"
                    /\ Goto("decide")
                    /\ UNCHANGED <<cache, accepted>>
                 \/ ~Hit(artifact, unsigned) /\ how # "no" /\ Accept(artifact, unsigned, how)
                 \/ /\ ~Hit(artifact, unsigned) /\ how = "no"
                    /\ Goto("trust")
                    /\ UNCHANGED <<verdict, cache, accepted>>
    /\ UNCHANGED <<resolution, fetched, kind, granted, load, root, runs>>

(* A meta plugin passes Validate, and no tier takes it. *)
NoTier ==
    /\ pc = "verify"
    /\ kind = "meta"
    /\ Refuse
    /\ UNCHANGED <<resolution, fetched, kind, key, verdict, granted, may, load, trust, runs>>

\* Mutant: every artifact has the trust root loaded for it.
LoadedEach == "unset"

(* sync.Once: what the first load of the service came to holds for the rest. *)
Loaded == once

(* loadTrustRoot: the file if it is young and can be read, else a fetch, tried
   up to Attempts times; its own write may fail. *)
Load ==
    \/ /\ root = "fresh" /\ tries = 0
       /\ once' = "ok" /\ Goto("bundle")
       /\ judged' = judged \cup {"judged"}
       /\ UNCHANGED <<root, tries>>
    \/ /\ root' \in {root, "fresh"}
       /\ once' = "ok" /\ Goto("bundle")
       /\ judged' = judged \cup {"judged"}
       /\ tries' = 0
    \/ /\ tries + 1 < Attempts
       /\ tries' = tries + 1
       /\ UNCHANGED <<pc, once, judged, root>>
    \/ /\ once' = "failed" /\ Refuse   \* also: not a trust root, cancelled
       /\ judged' = judged \cup {"refused"}
       /\ tries' = 0
       /\ UNCHANGED root

Trust ==
    /\ pc = "trust"
    /\ \/ Loaded = "unset" /\ Load
       \/ /\ Loaded = "ok" /\ Goto("bundle")
          /\ judged' = judged \cup {"judged"}
          /\ UNCHANGED <<once, tries, root>>
       \/ /\ Loaded = "failed" /\ Refuse
          /\ judged' = judged \cup {"refused"}
          /\ UNCHANGED <<once, tries, root>>
    /\ UNCHANGED <<resolution, fetched, kind, key, verdict, granted, may, cache, accepted, runs>>

Bundle ==
    /\ pc = "bundle"
    /\ \/ key[1] \notin Suffixed \cup {NoDigest} /\ Accept(key[1], key[2], "signature")
       \/ Refuse /\ UNCHANGED <<verdict, cache, accepted>>
    /\ UNCHANGED <<resolution, fetched, kind, key, granted, may, load, root, runs>>

-----------------------------------------------------------------------------
(* Fields of a manifest: files to read inside /workspace and elsewhere; files to
   write, programs, hosts to reach, the API, the assistant; the host and
   environment fields that no capability is made of. *)
Fields == {"read", "read elsewhere", "other", "unasked"}

FromManifest(fields) == fields \ {"unasked"}

(* Only reading inside /workspace is safe. *)
Risky(c) == c # "read"

AnyRisky(requested) == \E c \in requested : Risky(c)

Grant(requested, reason) == granted' = [kinds |-> requested, reason |-> reason]

(* Decide: everything is safe, --yes, --non-interactive, the prompt.  An update
   is always taken for a --yes. *)
Decide ==
    /\ pc = "decide"
    /\ Goto("end")
    /\ \E fields \in SUBSET Fields, verb \in may.verb, flag, nonInteractive, agrees \in BOOLEAN :
          LET requested == FromManifest(fields)
              yes       == verb = "update" \/ flag
          IN  /\ may' = [may EXCEPT !.verb = {verb}]
              /\ \/ ~AnyRisky(requested) /\ Grant(requested, "safe-default")
                 \/ AnyRisky(requested) /\ yes /\ Grant(requested, "yes-flag")
                 \/ /\ AnyRisky(requested) /\ ~yes /\ ~nonInteractive /\ agrees
                    /\ Grant(requested, "user-prompt")
                 \/ /\ AnyRisky(requested) /\ ~yes /\ (nonInteractive \/ ~agrees)
                    /\ UNCHANGED granted
    /\ UNCHANGED <<resolution, fetched, kind, key, verdict, load, trust, runs>>

Expire ==
    /\ pc = "end" /\ root = "fresh"
    /\ root' = "expired"
    /\ UNCHANGED <<pc, resolution, fetched, kind, key, verdict, granted, may, load, cache, accepted, runs>>

Next == \/ Begin \/ NextPlugin \/ ResolveStep \/ Route
        \/ DownloadStep \/ Downloaded \/ ReleaseFails \/ Clone
        \/ Manifest \/ Verify \/ NoTier \/ Trust \/ Bundle
        \/ Decide \/ Expire

Spec == Init /\ [][Next]_vars

-----------------------------------------------------------------------------
Requests == Artifacts \X BOOLEAN
Commands == [verb : SUBSET {"install", "update"}, unsigned : SUBSET BOOLEAN]
Grants   == [kinds : SUBSET Fields, reason : {"none", "safe-default", "yes-flag", "user-prompt"}]

Pcs == {"resolve", "route", "download", "clone", "manifest", "verify", "trust",
        "bundle", "decide", "end"}

(* Every variable has its type, and the trust root is fetched no more often
   than it may be. *)
TypeOK ==
    /\ pc \in Pcs
    /\ tags \in Seq(Tags) /\ left \in Seq(Assets)
    /\ dest \in [Assets -> Tags \cup {NoTag}]
    /\ kind \in Kinds \cup {m.kind : m \in Manifests}
    /\ key \in Requests
    /\ verdict \in {"none", "cached", "policy", "flag", "signature"}
    /\ granted \in Grants
    /\ may \in Commands
    /\ once \in {"unset", "ok", "failed"}
    /\ tries \in Nat /\ tries < Attempts
    /\ judged \subseteq {"judged", "refused"}
    /\ cache \subseteq Keys
    /\ root \in {"none", "fresh", "expired"}
    /\ accepted \subseteq Artifacts \X {"policy", "flag", "signature"}
    /\ runs \in Nat

Rank(v)  == CHOOSE i \in DOMAIN Ladder : Ladder[i] = v
OnLadder == Range(Ladder)

(* What must not change under ^: all up to the leftmost number that is not
   zero; under ~: the first two numbers. *)
Fixed(part) ==
    CASE part.op = "~" -> 1..2
      [] part.op = "^" -> {i \in 1..3 : \A j \in 1..(i - 1) : part.v.num[j] = 0}

Keeps(part, w) == \A i \in Fixed(part) : w.num[i] = part.v.num[i]

(* A prerelease is still inside while no release below it is outside. *)
Fits(part, w) ==
    LET at == Rank(part.v)  here == Rank(w) IN
    CASE part.op \in {"^", "~"} ->
            /\ here >= at
            /\ \A i \in at..here : ~IsPrerelease(Ladder[i]) => Keeps(part, Ladder[i])
      [] part.op \in {"", "="} -> here = at
      [] part.op = ">="        -> here >= at
      [] part.op = "<="        -> here <= at
      [] part.op = ">"         -> here > at
      [] part.op = "<"         -> here < at

(* What the Ladder must be to measure by it: it is in order, it has every
   version that is listed or asked for, and from the end of a range on no
   prerelease comes before the first release. *)
LadderMeasures ==
    /\ Ladder \in Seq(Versions)
    /\ \A i, j \in DOMAIN Ladder : i < j => Compare(Ladder[j], Ladder[i]) = 1
    /\ \A entry \in Entries :
          /\ entry.versions \in Seq(Range(entry.versions))
          /\ \A v \in Range(entry.versions) \cup {entry.latest} : Parses(v) => v \in OnLadder
    /\ \A part \in UNION Constraints : Parses(part.v) =>
          /\ part.v \in OnLadder
          /\ part.op \in {"^", "~", "", "=", ">=", "<=", ">", "<"}
          /\ \A end \in Expand(part), w \in OnLadder :
                part.op \in {"^", "~"} /\ end.op = "<" /\ Compare(w, end.v) >= 0 =>
                    \E u \in OnLadder :
                       ~IsPrerelease(u) /\ Compare(u, end.v) >= 0 /\ Compare(w, u) >= 0

(* The highest listed version that fits all parts of the constraint,
   prereleases only if the flag allows them; none only if none does. *)
IsHighest(v, request) ==
    LET entry  == request.entry
        listed == IF entry.versions = <<>> THEN {entry.latest} ELSE Range(entry.versions)
        fits   == {w \in listed \cap OnLadder :
                      /\ IsPrerelease(w) => request.pre
                      /\ \A part \in request.parts : Fits(part, w)}
    IN  IF fits = {} THEN v = NoMatch
        ELSE v \in fits /\ \A w \in fits : Rank(w) <= Rank(v)

(* A constraint is resolved to the highest listed version that fits all of its
   parts, prereleases only if the flag allows them, and to none only if none
   does; versions that cannot be parsed, and the order of the list, change
   nothing. *)
ResolvesHighest == pc = "route" /\ IsRange(asked.parts) => IsHighest(version, asked)

(* The files of a fetched release are those of one tag, and none that must be
   there is missing, whatever the tag tried before it had left in the
   directory. *)
OneRelease ==
    pc = "manifest" =>
        \E tag \in Tags :
            /\ \A a \in Assets : dest[a] \in {tag, NoTag}
            /\ \A i \in DOMAIN Required : dest[Required[i]] = tag

(* --allow-unsigned is not sticky: without the flag a verdict is served from the
   cache only if some install, now or before, accepted by its signature or by the
   policy an artifact that the cache files under the same name, be it this one or
   another.  (The comment of Cache.VerifyBlob; not of an artifact whose own name
   ends in the flag's suffix.) *)
UnsignedNotSticky ==
    verdict = "cached" /\ ~key[2] /\ key[1] \notin Suffixed =>
        \E d \in Artifacts, how \in {"signature", "policy"} :
            Short(d) = Short(key[1]) /\ <<d, how>> \in accepted

(* One service has one answer about the trust root, however often the network
   and the file come and go between its plugins: either every artifact that
   comes to its signature is judged by the root that the first one loaded, or
   every one is turned away as the first one was. *)
OneTrustRoot == judged # {"judged", "refused"}
=============================================================================
