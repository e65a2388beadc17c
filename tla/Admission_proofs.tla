-------------------------- MODULE Admission_proofs --------------------------
(***************************************************************************)
(* What holds of Admission for every registry, manifest and set of         *)
(* artifacts, and for any number of commands: its types, where a verdict   *)
(* served from the cache comes from, that a service has one answer about   *)
(* the trust root, that the files of a release are of one tag, and that    *)
(* the highest version that fits is taken.                                 *)
(*                                                                         *)
(* The second rests on what the whole cache keeps (CacheInv), since any    *)
(* entry of it may be served; the fourth on the order in which assets are  *)
(* fetched (DownloadInv).  The last is in four steps: a lexical order      *)
(* keeps what the order of its places has (LexCompares), so versions are   *)
(* ordered (CompareIsAnOrder); Resolve keeps the best so far, by induction *)
(* on the list (ResolveTakesHighest); a part matches the versions that it  *)
(* means (PartFits); and so by any ladder (ResolvedIsHighest).             *)
(***************************************************************************)
EXTENDS Admission, WellFoundedInduction, TLAPS

\* An artifact that some command accepted by its signature or by the policy.
Accepted(d) == \E how \in {"signature", "policy"} : <<d, how>> \in accepted

\* An artifact that is filed under this name, and was accepted so.
Filed(name) == \E d \in Artifacts : Short(d) = name /\ Accepted(d)

CacheInv == \A k \in cache : k[2] = 0 => Filed(k[1])

\* What an install has not come to yet, and that a clone has a tag to try.
FreshInv ==
  /\ pc = "clone" => tags # <<>>
  /\ pc \notin {"decide", "end"} => verdict = "none"

\* What came of the artifacts of a service follows from its one load.
RootInv ==
  /\ once = "unset"  => judged = {}
  /\ once = "ok"     => judged \subseteq {"judged"}
  /\ once = "failed" => judged \subseteq {"refused"}

Inv == TypeOK /\ FreshInv /\ RootInv /\ CacheInv /\ UnsignedNotSticky

\* The variables of verification.
verifying == <<key, verdict, cache, accepted>>

\* The rest that has a type.
others == <<granted, may, once, tries, judged>>

LEMMA InitialValues ==
  /\ Empty \in [Assets -> Tags \cup {NoTag}]
  /\ <<>> \in Seq(Tags) /\ <<>> \in Seq(Assets)
  /\ NoKey \in Requests /\ "skill" \in Kinds
  /\ NoGrants \in Grants
  /\ [verb |-> {}, unsigned |-> {}] \in Commands
  /\ 0 \in Nat /\ 0 < Attempts
<1>1. Empty \in [Assets -> Tags \cup {NoTag}]
  BY DEF Empty
<1>2. NoGrants \in Grants
  BY DEF NoGrants, Grants
<1>3. <<>> \in Seq(Tags) /\ <<>> \in Seq(Assets)
  OBVIOUS
<1>4. [verb |-> {}, unsigned |-> {}] \in Commands
  BY Zenon DEF Commands
<1>5. NoKey \in Requests /\ "skill" \in Kinds
  BY DEF NoKey, Artifacts, Requests, Kinds
<1>6. 0 \in Nat /\ 0 < Attempts
  BY AttemptsAssumption
<1> QED
  BY <1>1, <1>2, <1>3, <1>4, <1>5, <1>6

THEOREM Initially == Init => Inv
<1> SUFFICES ASSUME Init PROVE Inv
  OBVIOUS
<1>1. TypeOK
  BY InitialValues DEF Init, TypeOK, Pcs
<1>2. FreshInv /\ RootInv /\ CacheInv /\ UnsignedNotSticky
  BY DEF Init, FreshInv, RootInv, CacheInv, UnsignedNotSticky
<1> QED
  BY <1>1, <1>2 DEF Inv

\* A step that does not verify keeps what is said of the cache.
LEMMA RestKeeps ==
  ASSUME Inv, TypeOK', FreshInv', RootInv', UNCHANGED verifying
  PROVE  Inv'
BY DEF Inv, verifying, CacheInv, Filed, Accepted, UnsignedNotSticky

LEMMA AllAssets == Required \o Optional \in Seq(Assets)
BY AssetsAssumption DEF Assets

LEMMA ShortSeqs ==
  ASSUME NEW S, NEW a \in S, NEW b \in S
  PROVE  <<a>> \in Seq(S) /\ <<a, b>> \in Seq(S)
OBVIOUS

LEMMA SomeCandidates ==
  /\ Candidates \in Seq(Tags) /\ Candidates # <<>>
  /\ Candidates' \in Seq(Tags) /\ Candidates' # <<>>
<1>1. <<"ref">> \in Seq(Tags) /\ <<"ref", "v-ref">> \in Seq(Tags)
  BY ShortSeqs DEF Tags
<1>2. <<"ref">> # <<>> /\ <<"ref", "v-ref">> # <<>>
  OBVIOUS
<1> QED
  BY <1>1, <1>2 DEF Candidates

\* A tree of one tag, or of none.
LEMMA OneTag ==
  ASSUME NEW tag \in Tags \cup {NoTag}
  PROVE  TreeOf(tag) \in [Assets -> Tags \cup {NoTag}] /\ Empty \in [Assets -> Tags \cup {NoTag}]
BY DEF TreeOf, Empty

\* What is read of the command and its flag is one of the things it might be.
LEMMA MayKeeps ==
  ASSUME may \in Commands
  PROVE  /\ may.unsigned \subseteq BOOLEAN /\ may.verb \subseteq {"install", "update"}
         /\ \A verbs \in SUBSET {"install", "update"} : [may EXCEPT !.verb = verbs] \in Commands
         /\ \A flags \in SUBSET BOOLEAN : [may EXCEPT !.unsigned = flags] \in Commands
BY Zenon DEF Commands

LEMMA InstallKeeps ==
  ASSUME Inv, Begin \/ NextPlugin
  PROVE  Inv'
<1>1. /\ pc' = "resolve" /\ runs' = runs + 1 /\ UNCHANGED trust
      /\ tags' = <<>> /\ dest' = Empty /\ left' = <<>>
      /\ kind' = "skill" /\ key' = NoKey /\ verdict' = "none" /\ granted' = NoGrants
  BY DEF Begin, NextPlugin, Install, Goto
<1>2. may' \in Commands
  <2>1. CASE Begin
    <3>1. {"install", "update"} \in SUBSET {"install", "update"} /\ BOOLEAN \in SUBSET BOOLEAN
      BY Zenon
    <3> QED
      BY <2>1, <3>1, Zenon DEF Begin, Commands
  <2>2. CASE NextPlugin
    <3>1. may' = [may EXCEPT !.verb = {"update"}] /\ may \in Commands
      BY <2>2 DEF NextPlugin, Inv, TypeOK
    <3>2. {"update"} \in SUBSET {"install", "update"}
      OBVIOUS
    <3> QED
      BY <3>1, <3>2, MayKeeps
  <2> QED
    BY <2>1, <2>2
<1>3. \/ once' = "unset" /\ tries' = 0 /\ judged' = {}
      \/ UNCHANGED <<once, tries, judged>>
  BY DEF Begin, NextPlugin, load
<1>4. RootInv'
  BY <1>3 DEF Inv, RootInv
<1>5. TypeOK'
  <2>1. /\ once' \in {"unset", "ok", "failed"} /\ judged' \subseteq {"judged", "refused"}
        /\ tries' \in Nat /\ tries' < Attempts
    BY <1>3, InitialValues DEF Inv, TypeOK
  <2>2. /\ cache' \subseteq Keys /\ root' \in {"none", "fresh", "expired"} /\ runs' \in Nat
        /\ accepted' \subseteq Artifacts \X {"policy", "flag", "signature"}
    BY <1>1 DEF Inv, TypeOK, trust
  <2> QED
    BY <1>1, <1>2, <2>1, <2>2, InitialValues DEF TypeOK, Pcs
<1>6. FreshInv' /\ UnsignedNotSticky'
  BY <1>1 DEF FreshInv, UnsignedNotSticky
<1>7. CacheInv'
  BY <1>1 DEF Inv, trust, CacheInv, Filed, Accepted
<1> QED
  BY <1>4, <1>5, <1>6, <1>7 DEF Inv

-----------------------------------------------------------------------------
(* Resolution, the fetch and the manifest change nothing but their own.    *)

LEMMA FetchKeeps ==
  ASSUME Inv, ResolveStep \/ Route \/ DownloadStep \/ Downloaded \/ ReleaseFails \/ Clone
  PROVE  Inv'
<1> USE DEF Goto, Refuse, Pcs
<1>1. UNCHANGED <<verifying, others, kind, root>> /\ runs' = runs
  BY DEF ResolveStep, Route, DownloadStep, Downloaded, ReleaseFails, Clone, verifying, others, load,
         trust
<1>2. /\ pc' \in Pcs
      /\ pc \notin {"trust", "bundle", "decide", "end"}
      /\ pc' \in {"route", "download", "clone", "manifest", "end"}
  BY DEF ResolveStep, Route, DownloadStep, Downloaded, ReleaseFails, Clone, Inv, TypeOK
<1>3. dest' \in [Assets -> Tags \cup {NoTag}] /\ tags' \in Seq(Tags) /\ left' \in Seq(Assets)
  <2>1. CASE ResolveStep \/ Downloaded
    BY <2>1 DEF ResolveStep, Downloaded, Inv, TypeOK, fetched
  <2>2. CASE Route
    <3>1. "ref" \in Tags /\ <<>> \in Seq(Tags) /\ <<>> \in Seq(Assets)
      BY DEF Tags
    <3>2. \/ UNCHANGED <<dest, tags, left>>
          \/ dest' = TreeOf("ref") /\ tags' = <<>> /\ left' = <<>>
          \/ dest' = Empty /\ tags' = Candidates' /\ left' \in {<<>>, Required \o Optional}
      BY <2>2 DEF Route, fetched
    <3>3. /\ dest \in [Assets -> Tags \cup {NoTag}] /\ tags \in Seq(Tags) /\ left \in Seq(Assets)
          /\ TreeOf("ref") \in [Assets -> Tags \cup {NoTag}] /\ Empty \in [Assets -> Tags \cup {NoTag}]
      BY <3>1, OneTag DEF Inv, TypeOK
    <3>4. Required \o Optional \in Seq(Assets) /\ Candidates' \in Seq(Tags)
      BY AllAssets, SomeCandidates
    <3> QED
      BY <3>1, <3>2, <3>3, <3>4, Zenon
  <2>3. CASE DownloadStep
    <3>1. left # <<>> /\ tags # <<>>
      BY <2>3 DEF DownloadStep
    <3>2. Head(left) \in Assets /\ Tail(left) \in Seq(Assets) /\ Head(tags) \in Tags /\ Tail(tags) \in Seq(Tags)
      BY <3>1 DEF Inv, TypeOK
    <3>3. PICK result : Download(result)
      BY <2>3 DEF DownloadStep
    <3> QED
      BY <3>2, <3>3, AllAssets DEF Download, Inv, TypeOK
  <2>4. CASE ReleaseFails
    <3>1. dest' = Empty /\ tags' = Candidates /\ left' = <<>>
      BY <2>4 DEF ReleaseFails
    <3>2. <<>> \in Seq(Assets)
      OBVIOUS
    <3> QED
      BY <3>1, <3>2, SomeCandidates, OneTag
  <2>5. CASE Clone
    <3>1. tags \in Seq(Tags) /\ tags # <<>> /\ <<>> \in Seq(Tags)
      BY <2>5 DEF Clone, Inv, TypeOK, FreshInv
    <3>2. Head(tags) \in Tags /\ Tail(tags) \in Seq(Tags)
      BY <3>1
    <3>3. \/ dest' = TreeOf(Head(tags)) /\ tags' = <<>>
          \/ dest' = dest /\ tags' \in {Tail(tags), <<>>}
      BY <2>5 DEF Clone
    <3>4. left' = left
      BY <2>5 DEF Clone
    <3>5. /\ dest \in [Assets -> Tags \cup {NoTag}] /\ left \in Seq(Assets)
          /\ TreeOf(Head(tags)) \in [Assets -> Tags \cup {NoTag}]
      BY <3>2, OneTag DEF Inv, TypeOK
    <3> QED
      BY <3>1, <3>2, <3>3, <3>4, <3>5, Zenon
  <2> QED
    BY <2>1, <2>2, <2>3, <2>4, <2>5
<1>4. TypeOK'
  BY <1>1, <1>2, <1>3 DEF Inv, TypeOK, verifying, others
<1>5. pc' = "clone" => tags' # <<>>
  <2>1. CASE Clone
    BY <2>1 DEF Clone, Inv, TypeOK
  <2> QED
    BY <2>1, SomeCandidates DEF ResolveStep, Route, DownloadStep, Downloaded, ReleaseFails
<1>6. FreshInv' /\ RootInv'
  BY <1>1, <1>2, <1>5 DEF Inv, FreshInv, RootInv, verifying, others
<1> QED
  BY <1>1, <1>4, <1>6, RestKeeps

LEMMA ManifestKeeps ==
  ASSUME Inv, Manifest \/ NoTier
  PROVE  Inv'
<1>1. TypeOK'
  BY DEF Manifest, NoTier, Goto, Refuse, Pcs, Inv, TypeOK, Empty, load, trust, fetched
<1>2. UNCHANGED verifying
  BY DEF Manifest, NoTier, verifying, trust
<1>3. FreshInv' /\ RootInv'
  BY DEF Manifest, NoTier, Goto, Refuse, Inv, FreshInv, RootInv, load
<1> QED
  BY <1>1, <1>2, <1>3, RestKeeps

-----------------------------------------------------------------------------
(* Verification.                                                           *)

LEMMA KeyFacts ==
  ASSUME NEW artifact \in Artifacts, NEW unsigned \in BOOLEAN
  PROVE  /\ CacheKey(artifact, unsigned) \in Keys
         /\ CacheKey(artifact, unsigned)[1] = Short(artifact)
         /\ CacheKey(artifact, unsigned)[2] = 0 <=> ~unsigned /\ artifact \notin Suffixed
<1>1. Suffixes(artifact, unsigned) \in 0..2
  BY DEF Suffixes
<1>2. Suffixes(artifact, unsigned) = 0 <=> ~unsigned /\ artifact \notin Suffixed
  BY DEF Suffixes
<1>3. Short(artifact) \in {Short(d) : d \in Artifacts}
  OBVIOUS
<1> HIDE DEF Suffixes
<1> QED
  BY <1>1, <1>2, <1>3 DEF CacheKey, Keys

\* An acceptance is recorded before it is cached.
LEMMA AcceptKeeps ==
  ASSUME Inv, NEW artifact \in Artifacts, NEW unsigned \in BOOLEAN,
         NEW how \in {"policy", "flag", "signature"}, Accept(artifact, unsigned, how),
         unsigned \/ how # "flag"
  PROVE  /\ cache' \subseteq Keys /\ pc' = "decide" /\ verdict' = how
         /\ accepted' \subseteq Artifacts \X {"policy", "flag", "signature"}
         /\ CacheInv' /\ UnsignedNotSticky'
<1> DEFINE k == CacheKey(artifact, unsigned)
<1>1. /\ verdict' = how /\ pc' = "decide" /\ accepted' = accepted \cup {<<artifact, how>>}
      /\ cache' \subseteq cache \cup {k}
  BY DEF Accept, Goto
<1>2. k \in Keys /\ k[1] = Short(artifact) /\ (k[2] = 0 => ~unsigned)
  BY KeyFacts
<1>3. k[2] = 0 => Filed(k[1])'
  BY <1>1, <1>2 DEF Filed, Accepted
<1>4. \A name : Filed(name) => Filed(name)'
  BY <1>1 DEF Filed, Accepted
<1> HIDE DEF k
<1>5. CacheInv'
  BY <1>1, <1>3, <1>4 DEF Inv, CacheInv
<1>6. UnsignedNotSticky'
  BY <1>1 DEF UnsignedNotSticky
<1> QED
  BY <1>1, <1>2, <1>5, <1>6 DEF Inv, TypeOK

LEMMA VerifyKeeps ==
  ASSUME Inv, Verify
  PROVE  Inv'
<1> DEFINE Settled(artifact, unsigned, how) ==
      /\ key' = <<artifact, unsigned>>
      /\ may' = [may EXCEPT !.unsigned = {unsigned}]
      /\ \/ /\ Hit(artifact, unsigned)
            /\ verdict' = "cached"
            /\ Goto("decide")
            /\ UNCHANGED <<cache, accepted>>
         \/ ~Hit(artifact, unsigned) /\ how # "no" /\ Accept(artifact, unsigned, how)
         \/ /\ ~Hit(artifact, unsigned) /\ how = "no"
            /\ Goto("trust")
            /\ UNCHANGED <<verdict, cache, accepted>>
<1>1. /\ pc = "verify" /\ kind # "meta"
      /\ UNCHANGED <<resolution, fetched, kind, granted, load, root, runs>>
  BY DEF Verify
<1>2. PICK artifact \in Artifacts, unsigned \in may.unsigned, signedDefault \in BOOLEAN,
           exempt \in BOOLEAN : Settled(artifact, unsigned, Waived(unsigned, signedDefault, exempt))
  BY DEF Verify
<1> DEFINE how == Waived(unsigned, signedDefault, exempt)
<1>3. unsigned \in BOOLEAN /\ key' = <<artifact, unsigned>> /\ key' \in Requests
  <2>1. unsigned \in BOOLEAN
    BY MayKeeps, Zenon DEF Inv, TypeOK
  <2> QED
    BY <1>2, <2>1 DEF Requests
<1>4. how \in {"policy", "flag", "no"} /\ (how = "flag" => unsigned)
  BY <1>3 DEF Waived
<1>5. /\ cache' \subseteq Keys /\ pc' \in {"decide", "trust"}
      /\ verdict' \in {"none", "cached", "policy", "flag", "signature"}
      /\ accepted' \subseteq Artifacts \X {"policy", "flag", "signature"}
      /\ CacheInv' /\ UnsignedNotSticky'
  <2>1. CASE /\ Hit(artifact, unsigned) /\ verdict' = "cached" /\ Goto("decide")
             /\ UNCHANGED <<cache, accepted>>
    <3>1. CacheKey(artifact, unsigned) \in cache
      BY <2>1 DEF Hit
    <3>2. ~unsigned /\ artifact \notin Suffixed => Filed(Short(artifact))
      BY <1>3, <3>1, KeyFacts DEF Inv, CacheInv
    <3>3. CacheInv'
      BY <2>1 DEF Inv, CacheInv, Filed, Accepted
    <3>4. UnsignedNotSticky'
      BY <2>1, <3>2, <1>3 DEF UnsignedNotSticky, Filed, Accepted
    <3> QED
      BY <2>1, <3>3, <3>4 DEF Inv, TypeOK, Goto
  <2>2. CASE how # "no" /\ Accept(artifact, unsigned, how)
    BY <2>2, <1>3, <1>4, AcceptKeeps
  <2>3. CASE Goto("trust") /\ UNCHANGED <<verdict, cache, accepted>>
    <3>1. verdict = "none"
      BY <1>1 DEF Inv, FreshInv
    <3> QED
      BY <2>3, <3>1 DEF Inv, TypeOK, Goto, CacheInv, Filed, Accepted, UnsignedNotSticky
  <2> QED
    BY <1>2, <1>3, <2>1, <2>2, <2>3
<1>6. verdict = "none"
  BY <1>1 DEF Inv, FreshInv
<1>7. pc' = "trust" => verdict' = "none"
  BY <1>2, <1>3, <1>6 DEF Goto, Accept
<1>8. may' \in Commands
  <2>1. may' = [may EXCEPT !.unsigned = {unsigned}] /\ may \in Commands
    BY <1>2 DEF Inv, TypeOK
  <2>2. {unsigned} \in SUBSET BOOLEAN
    BY <1>3
  <2> QED
    BY <2>1, <2>2, MayKeeps, Zenon
<1>9. TypeOK'
  BY <1>1, <1>3, <1>5, <1>8 DEF Inv, TypeOK, Pcs, fetched, load
<1>10. FreshInv' /\ RootInv'
  BY <1>1, <1>5, <1>6, <1>7 DEF Inv, FreshInv, RootInv, load
<1> QED
  BY <1>5, <1>9, <1>10 DEF Inv

LEMMA TrustKeeps ==
  ASSUME Inv, Trust
  PROVE  Inv'
<1>1. /\ pc = "trust"
      /\ UNCHANGED <<resolution, fetched, kind, key, verdict, granted, may, cache, accepted, runs>>
  BY DEF Trust
<1>2. /\ pc' \in {"trust", "bundle", "end"}
      /\ root' \in {root, "fresh"}
      /\ \/ once' = "ok" /\ judged' = judged \cup {"judged"} /\ tries' \in {tries, 0}
            /\ once \in {"unset", "ok"}
         \/ once' = "failed" /\ judged' = judged \cup {"refused"} /\ tries' \in {tries, 0}
            /\ once \in {"unset", "failed"}
         \/ UNCHANGED <<once, judged>> /\ tries' = tries + 1 /\ tries + 1 < Attempts
  BY <1>1 DEF Trust, Load, Loaded, Goto, Refuse
<1>3. tries \in Nat /\ tries < Attempts /\ Attempts \in Nat \ {0}
  BY AttemptsAssumption DEF Inv, TypeOK
<1>4. tries' \in Nat /\ tries' < Attempts
  BY <1>2, <1>3
<1>5. once' \in {"unset", "ok", "failed"} /\ judged' \subseteq {"judged", "refused"}
  BY <1>2 DEF Inv, TypeOK
<1>6. TypeOK'
  BY <1>1, <1>2, <1>4, <1>5 DEF Inv, TypeOK, Pcs, fetched
<1>7. RootInv'
  BY <1>2 DEF Inv, RootInv
<1>8. FreshInv'
  BY <1>1, <1>2 DEF Inv, FreshInv
<1> QED
  BY <1>1, <1>6, <1>7, <1>8, RestKeeps DEF verifying

LEMMA BundleKeeps ==
  ASSUME Inv, Bundle
  PROVE  Inv'
<1>1. /\ pc = "bundle"
      /\ UNCHANGED <<resolution, fetched, kind, key, granted, may, load, root, runs>>
  BY DEF Bundle
<1>2. RootInv'
  BY <1>1 DEF Inv, RootInv, load
<1>3. CASE UNCHANGED <<verdict, cache, accepted>> /\ Refuse
  <2>1. TypeOK' /\ FreshInv'
    BY <1>1, <1>3 DEF Inv, TypeOK, FreshInv, Pcs, Refuse, Goto, fetched, load
  <2> QED
    BY <1>1, <1>2, <1>3, <2>1, RestKeeps DEF verifying
<1>4. CASE Accept(key[1], key[2], "signature")
  <2>1. key[1] \in Artifacts /\ key[2] \in BOOLEAN
    BY DEF Inv, TypeOK, Requests
  <2>2. /\ cache' \subseteq Keys /\ pc' = "decide" /\ verdict' = "signature"
        /\ accepted' \subseteq Artifacts \X {"policy", "flag", "signature"}
        /\ CacheInv' /\ UnsignedNotSticky'
    BY <1>1, <1>4, <2>1, AcceptKeeps
  <2>3. TypeOK' /\ FreshInv'
    BY <1>1, <2>2 DEF Inv, TypeOK, FreshInv, Pcs, fetched, load
  <2> QED
    BY <1>2, <2>2, <2>3 DEF Inv
<1> QED
  BY <1>3, <1>4 DEF Bundle

-----------------------------------------------------------------------------
(* Consent.                                                                *)

LEMMA DecideKeeps ==
  ASSUME Inv, Decide
  PROVE  Inv'
<1>1. /\ pc = "decide" /\ pc' = "end"
      /\ UNCHANGED <<resolution, fetched, kind, key, verdict, load, trust, runs>>
  BY DEF Decide, Goto
<1>2. PICK requested \in SUBSET Fields, verb \in may.verb :
         /\ may' = [may EXCEPT !.verb = {verb}]
         /\ \/ Grant(requested, "safe-default")
            \/ Grant(requested, "yes-flag")
            \/ Grant(requested, "user-prompt")
            \/ UNCHANGED granted
  BY DEF Decide, FromManifest
<1>3. granted' \in Grants
  BY <1>2 DEF Inv, TypeOK, Grant, Grants
<1>4. may' \in Commands
  <2>1. may \in Commands
    BY DEF Inv, TypeOK
  <2>2. {verb} \in SUBSET {"install", "update"}
    BY <2>1, MayKeeps
  <2> QED
    BY <1>2, <2>1, <2>2, MayKeeps, Zenon
<1>5. TypeOK' /\ FreshInv' /\ RootInv'
  BY <1>1, <1>3, <1>4 DEF Inv, TypeOK, FreshInv, RootInv, Pcs, fetched, load, trust
<1> QED
  BY <1>1, <1>5, RestKeeps DEF verifying, trust

LEMMA ExpireKeeps ==
  ASSUME Inv, Expire
  PROVE  Inv'
<1>1. TypeOK' /\ FreshInv' /\ RootInv'
  BY DEF Expire, Inv, TypeOK, FreshInv, RootInv, fetched, load
<1> QED
  BY <1>1, RestKeeps DEF Expire, verifying

THEOREM Inductive == Inv /\ [Next]_vars => Inv'
<1> SUFFICES ASSUME Inv, [Next]_vars PROVE Inv'
  OBVIOUS
<1>1. CASE UNCHANGED vars
  <2>1. TypeOK' /\ FreshInv' /\ RootInv'
    BY <1>1 DEF vars, Inv, TypeOK, FreshInv, RootInv, fetched, load, trust
  <2> QED
    BY <1>1, <2>1, RestKeeps DEF vars, verifying, trust
<1> QED
  BY <1>1, InstallKeeps, FetchKeeps, ManifestKeeps, VerifyKeeps, TrustKeeps, BundleKeeps, DecideKeeps,
     ExpireKeeps DEF Next

THEOREM Invariance == Spec => []Inv
BY Initially, Inductive, PTL DEF Spec

\* Every variable has its type, and a load of the trust root goes on only while attempts are left
\* (sigstore.go: loadTrustRoot).
THEOREM TypeCorrect == Spec => []TypeOK
<1>1. Inv => TypeOK
  BY DEF Inv
<1> QED
  BY <1>1, Invariance, PTL

\* However many commands share the cache and however it shortens digests, a verdict served without
\* --allow-unsigned goes back to a signature or to the policy, be it of another artifact of the
\* same short name (verify.go: Cache.VerifyBlob, cacheKey, Cache.path).
THEOREM UnsignedIsNotSticky == Spec => []UnsignedNotSticky
<1>1. Inv => UnsignedNotSticky
  BY DEF Inv
<1> QED
  BY <1>1, Invariance, PTL

\* However many plugins one service installs, and whatever becomes of the network and of the trust
\* root on disk between them, their signatures meet one answer (sigstore.go: ensureTrustRoot).
THEOREM OneRootPerService == Spec => []OneTrustRoot
<1>1. Inv => OneTrustRoot
  BY DEF Inv, TypeOK, RootInv, OneTrustRoot
<1> QED
  BY <1>1, Invariance, PTL

-----------------------------------------------------------------------------
(* One release.  A tag is given up only for want of an asset that must be  *)
(* there, and those come first: no optional file of the tag before is in   *)
(* the directory, and every required one is fetched again.                 *)

All       == Required \o Optional
MustHave  == {Required[i] : i \in DOMAIN Required}

\* The first n assets are done, the others left.
Done(n) ==
  /\ n + Len(left) = Len(All)
  /\ \A i \in 1..Len(left) : left[i] = All[n + i]
  /\ \A i \in 1..n : i <= Len(Required) => dest[Required[i]] = Head(tags)
  /\ \A a \in Assets \ MustHave :
       dest[a] = NoTag \/ (dest[a] = Head(tags) /\ n >= Len(Required))

DownloadInv ==
  pc = "download" => (\E n \in Nat : Done(n)) /\ (tags = <<>> => left # <<>>)

ReleaseInv == DownloadInv /\ OneRelease

LEMMA AllFacts ==
  /\ All \in Seq(Assets) /\ Len(All) = Len(Required) + Len(Optional)
  /\ Required \in Seq(Assets) /\ Optional \in Seq(Assets)
  /\ Len(Required) \in Nat /\ Len(Optional) \in Nat
  /\ \A i \in 1..Len(Required) : All[i] = Required[i] /\ Required[i] \in MustHave
  /\ \A i \in 1..Len(Optional) : All[Len(Required) + i] = Optional[i] /\ Optional[i] \notin MustHave
<1>1. Required \in Seq(Assets) /\ Optional \in Seq(Assets)
  BY AssetsAssumption DEF Assets
<1>2. \A i \in 1..Len(Optional) : Optional[i] \in {Optional[j] : j \in DOMAIN Optional}
  BY <1>1
<1>3. \A i \in 1..Len(Optional) : Optional[i] \notin MustHave
  BY <1>2, AssetsAssumption DEF MustHave
<1>4. \A i \in 1..Len(Required) : Required[i] \in MustHave
  BY <1>1 DEF MustHave
<1> QED
  BY <1>1, <1>3, <1>4, AllAssets DEF All

\* A tree of one tag is of one release.
LEMMA TreeIsOne ==
  ASSUME NEW tag \in Tags, dest' = TreeOf(tag)
  PROVE  OneRelease'
<1>1. \A a \in Assets : dest'[a] = tag
  BY DEF TreeOf
<1>2. \A i \in DOMAIN Required : Required[i] \in Assets
  BY DEF Assets
<1> QED
  BY <1>1, <1>2 DEF OneRelease

LEMMA StartsAtNothing ==
  ASSUME dest' = Empty, left' = Required \o Optional, tags' # <<>>
  PROVE  Done(0)' /\ (tags' = <<>> => left' # <<>>)
<1>1. \A a \in Assets : dest'[a] = NoTag
  BY DEF Empty
<1>2. left' = All /\ Len(All) \in Nat
  BY AllFacts DEF All
<1> QED
  BY <1>1, <1>2 DEF Done

LEMMA RouteReleases == ASSUME Inv, ReleaseInv, Route PROVE ReleaseInv'
<1>1. CASE dest' = TreeOf("ref") /\ pc' = "manifest"
  BY <1>1, TreeIsOne DEF ReleaseInv, DownloadInv, Tags
<1>2. CASE pc' = "clone" \/ pc' = "end"
  BY <1>2 DEF ReleaseInv, DownloadInv, OneRelease
<1>3. CASE pc' = "download" /\ dest' = Empty /\ tags' = Candidates' /\ left' = Required \o Optional
  <2>1. Done(0)' /\ (tags' = <<>> => left' # <<>>)
    BY <1>3, StartsAtNothing, SomeCandidates
  <2> QED
    BY <1>3, <2>1 DEF ReleaseInv, DownloadInv, OneRelease
<1> QED
  BY <1>1, <1>2, <1>3 DEF Route, Goto, Refuse

LEMMA DownloadReleases == ASSUME Inv, ReleaseInv, DownloadStep PROVE ReleaseInv'
<1>1. /\ pc = "download" /\ pc' = pc /\ left # <<>> /\ tags # <<>>
      /\ tags \in Seq(Tags) /\ left \in Seq(Assets)
      /\ dest \in [Assets -> Tags \cup {NoTag}]
  BY DEF DownloadStep, Inv, TypeOK
<1>2. PICK n \in Nat : Done(n)
  BY <1>1 DEF ReleaseInv, DownloadInv
<1>3. PICK result \in {"ok", "missing"} : Download(result)
  BY DEF DownloadStep
<1>4. /\ Head(left) = All[n + 1] /\ Head(left) \in Assets /\ n + 1 <= Len(All)
      /\ Len(Tail(left)) = Len(left) - 1 /\ Tail(left) \in Seq(Assets)
      /\ \A i \in 1..Len(Tail(left)) : Tail(left)[i] = left[i + 1]
      /\ Len(left) \in Nat \ {0} /\ Len(All) \in Nat
  <2>1. Len(left) \in Nat \ {0}
    BY <1>1
  <2>2. Len(All) \in Nat /\ n + Len(left) = Len(All) /\ left[1] = All[n + 1]
    BY <1>2, <2>1, AllFacts DEF Done
  <2>3. Head(left) = left[1] /\ Head(left) \in Assets
    BY <1>1
  <2>4. /\ Len(Tail(left)) = Len(left) - 1 /\ Tail(left) \in Seq(Assets)
        /\ \A i \in 1..Len(Tail(left)) : Tail(left)[i] = left[i + 1]
    BY <1>1
  <2> QED
    BY <2>1, <2>2, <2>3, <2>4
<1>5. Needed <=> n < Len(Required)
  <2>3. Needed <=> Head(left) \in MustHave
    BY DEF Needed, MustHave
  <2>1. CASE n < Len(Required)
    <3>1. n + 1 \in 1..Len(Required)
      BY <2>1, AllFacts
    <3>2. All[n + 1] \in MustHave
      BY <3>1, AllFacts
    <3> QED
      BY <1>4, <2>1, <2>3, <3>2, Zenon
  <2>2. CASE n >= Len(Required)
    <3> DEFINE k == n + 1 - Len(Required)
    <3>1. k \in 1..Len(Optional) /\ n + 1 = Len(Required) + k
      BY <1>4, <2>2, AllFacts
    <3>2. All[Len(Required) + k] \notin MustHave
      <4> HIDE DEF k
      <4> QED
        BY <3>1, AllFacts
    <3>3. ~(n < Len(Required))
      BY <2>2, AllFacts
    <3> QED
      BY <1>4, <2>3, <3>1, <3>2, <3>3, Zenon
  <2> QED
    BY <2>1, <2>2, AllFacts
<1>6. /\ (n + 1) + Len(Tail(left)) = Len(All)
      /\ \A i \in 1..Len(Tail(left)) : Tail(left)[i] = All[(n + 1) + i]
  <2>1. n + Len(left) = Len(All) /\ \A i \in 1..Len(left) : left[i] = All[n + i]
    BY <1>2 DEF Done
  <2>2. (n + 1) + Len(Tail(left)) = Len(All)
    BY <1>4, <2>1
  <2>3. ASSUME NEW i \in 1..Len(Tail(left)) PROVE Tail(left)[i] = All[(n + 1) + i]
    <3>1. i + 1 \in 1..Len(left) /\ n + (i + 1) = (n + 1) + i
      BY <1>4
    <3>2. left[i + 1] = All[n + (i + 1)]
      BY <2>1, <3>1, Zenon
    <3> QED
      BY <1>4, <3>1, <3>2, Zenon
  <2> QED
    BY <2>2, <2>3
<1>7. CASE dest' = [dest EXCEPT ![Head(left)] = Head(tags)] /\ left' = Tail(left) /\ tags' = tags
  <2>1. \A a \in Assets : dest'[a] = IF a = Head(left) THEN Head(tags) ELSE dest[a]
    BY <1>1, <1>7
  <2>2. \A i \in 1..(n + 1) : i <= Len(Required) => dest'[Required[i]] = Head(tags')
    <3> SUFFICES ASSUME NEW i \in 1..(n + 1), i <= Len(Required)
                 PROVE  dest'[Required[i]] = Head(tags')
      OBVIOUS
    <3>1. Required[i] \in Assets /\ All[i] = Required[i]
      BY AllFacts DEF Assets
    <3>2. i = n + 1 => Required[i] = Head(left)
      BY <1>4, <3>1
    <3>3. i # n + 1 => dest[Required[i]] = Head(tags)
      BY <1>2 DEF Done
    <3> QED
      BY <1>7, <2>1, <3>1, <3>2, <3>3
  <2>3. \A a \in Assets \ MustHave :
          dest'[a] = NoTag \/ (dest'[a] = Head(tags') /\ n + 1 >= Len(Required))
    <3> SUFFICES ASSUME NEW a \in Assets \ MustHave
                 PROVE  dest'[a] = NoTag \/ (dest'[a] = Head(tags') /\ n + 1 >= Len(Required))
      OBVIOUS
    <3>1. CASE a = Head(left)
      <4>1. ~ Needed
        BY <3>1 DEF Needed, MustHave
      <4> QED
        BY <1>5, <1>7, <2>1, <3>1, <4>1, AllFacts
    <3>2. CASE a # Head(left)
      BY <1>2, <1>7, <2>1, <3>2, AllFacts DEF Done
    <3> QED
      BY <3>1, <3>2
  <2>4. Done(n + 1)'
    BY <1>6, <1>7, <2>2, <2>3 DEF Done
  <2> QED
    BY <1>1, <1>7, <2>4 DEF ReleaseInv, DownloadInv, OneRelease
<1>8. CASE ~ Needed /\ left' = Tail(left) /\ UNCHANGED <<dest, tags>>
  <2>1. \A i \in 1..(n + 1) : i <= Len(Required) => i \in 1..n
    BY <1>5, <1>8, AllFacts
  <2>2. n >= Len(Required) /\ n + 1 >= Len(Required)
    BY <1>5, <1>8, AllFacts
  <2>3. \A i \in 1..(n + 1) : i <= Len(Required) => dest'[Required[i]] = Head(tags')
    BY <1>2, <1>8, <2>1 DEF Done
  <2>4. \A a \in Assets \ MustHave :
          dest'[a] = NoTag \/ (dest'[a] = Head(tags') /\ n + 1 >= Len(Required))
    BY <1>2, <1>8, <2>2 DEF Done
  <2>5. Done(n + 1)'
    BY <1>6, <1>8, <2>3, <2>4 DEF Done
  <2> QED
    BY <1>1, <1>8, <2>5 DEF ReleaseInv, DownloadInv, OneRelease
<1>9. CASE Needed /\ tags' = Tail(tags) /\ left' = Required \o Optional /\ dest' = dest
  <2>1. \A a \in Assets \ MustHave : dest'[a] = NoTag
    BY <1>2, <1>5, <1>9, AllFacts DEF Done
  <2>2. left' = All /\ Len(All) \in Nat \ {0}
    BY <1>4, <1>9, AllFacts DEF All
  <2>3. Done(0)' /\ left' # <<>>
    BY <2>1, <2>2 DEF Done
  <2> QED
    BY <1>1, <2>3 DEF ReleaseInv, DownloadInv, OneRelease
<1> QED
  BY <1>3, <1>7, <1>8, <1>9 DEF Download

LEMMA DownloadedReleases == ASSUME Inv, ReleaseInv, Downloaded PROVE ReleaseInv'
<1>1. /\ pc = "download" /\ pc' = "manifest" /\ left = <<>> /\ tags # <<>> /\ dest' = dest
      /\ tags \in Seq(Tags) /\ dest \in [Assets -> Tags \cup {NoTag}]
  BY DEF Downloaded, Goto, fetched, ReleaseInv, DownloadInv, Inv, TypeOK
<1>2. PICK n \in Nat : Done(n)
  BY <1>1 DEF ReleaseInv, DownloadInv
<1>3. n = Len(All) /\ Head(tags) \in Tags
  <2>1. Len(left) = 0 /\ Len(All) \in Nat
    BY <1>1, AllFacts
  <2>2. n + Len(left) = Len(All)
    BY <1>2 DEF Done
  <2> QED
    BY <1>1, <2>1, <2>2
<1>4. \A i \in DOMAIN Required : dest[Required[i]] = Head(tags)
  <2>1. \A i \in DOMAIN Required : i \in 1..n /\ i <= Len(Required)
    BY <1>3, AllFacts
  <2> QED
    BY <1>2, <2>1 DEF Done
<1>5. \A a \in Assets : dest[a] \in {Head(tags), NoTag}
  BY <1>2, <1>4 DEF Done, MustHave
<1>6. OneRelease'
  BY <1>1, <1>3, <1>4, <1>5 DEF OneRelease
<1> QED
  BY <1>1, <1>6 DEF ReleaseInv, DownloadInv

LEMMA CloneReleases == ASSUME Inv, ReleaseInv, Clone PROVE ReleaseInv'
<1>1. pc = "clone" /\ tags # <<>> /\ Head(tags) \in Tags /\ pc' \in {"clone", "manifest", "end"}
  BY DEF Clone, Goto, Refuse, Inv, TypeOK, FreshInv
<1>2. CASE pc' = "manifest" /\ dest' = TreeOf(Head(tags))
  BY <1>1, <1>2, TreeIsOne DEF ReleaseInv, DownloadInv
<1>3. CASE pc' # "manifest"
  BY <1>1, <1>3 DEF ReleaseInv, DownloadInv, OneRelease
<1> QED
  BY <1>1, <1>2, <1>3 DEF Clone, Goto, Refuse

LEMMA ReleaseStays == Inv /\ ReleaseInv /\ [Next]_vars => ReleaseInv'
<1> SUFFICES ASSUME Inv, ReleaseInv, [Next]_vars PROVE ReleaseInv'
  OBVIOUS
<1>1. CASE UNCHANGED vars
  BY <1>1 DEF ReleaseInv, DownloadInv, OneRelease, Done, vars, fetched
<1>2. CASE Begin \/ NextPlugin \/ ResolveStep \/ ReleaseFails
  BY <1>2 DEF Begin, NextPlugin, Install, ResolveStep, ReleaseFails, Goto, ReleaseInv, DownloadInv, OneRelease
<1>3. CASE Manifest \/ Verify \/ NoTier \/ Trust \/ Bundle \/ Decide
  BY <1>3 DEF Manifest, Verify, NoTier, Trust, Load, Bundle, Decide, Accept, Goto, Refuse,
     ReleaseInv, DownloadInv, OneRelease
<1>4. CASE Expire
  BY <1>4 DEF Expire, ReleaseInv, DownloadInv, OneRelease
<1> QED
  BY <1>1, <1>2, <1>3, <1>4, RouteReleases, DownloadReleases, DownloadedReleases, CloneReleases
  DEF Next

\* Whichever tags are tried and whatever they lack, the files a manifest is read from are of one
\* tag, and none that must be there is missing (github_release.go: downloadReleaseAssets).
THEOREM FilesOfOneRelease == Spec => []OneRelease
<1>1. Init => ReleaseInv
  BY DEF Init, ReleaseInv, DownloadInv, OneRelease
<1> QED
  BY <1>1, Invariance, ReleaseStays, PTL DEF Spec, ReleaseInv

-----------------------------------------------------------------------------
(* The order of versions.                                                  *)

\* C compares the members of S as a total order does.
Compares(C, S) ==
  /\ C \in [S -> [S -> {-1, 0, 1}]]
  /\ \A x, y \in S : (C[x][y] = 0 <=> x = y) /\ (C[x][y] = 1 <=> C[y][x] = -1)
  /\ \A x, y, z \in S : C[x][y] = 1 /\ C[y][z] = 1 => C[x][z] = 1

Lex(C, p, q) == Lexical([i \in DOMAIN p \cap DOMAIN q |-> C[p[i]][q[i]]], CmpInt(Len(p), Len(q)))

\* From place i on, p comes after q.
After(C, p, q, i) ==
  /\ i \in DOMAIN p
  /\ \A j \in 1 .. (i - 1) : j \in DOMAIN q /\ p[j] = q[j]
  /\ i \in DOMAIN q => C[p[i]][q[i]] = 1

Beyond(C, p, q) == \E i \in Nat : After(C, p, q, i)

LEMMA LeastOf ==
  ASSUME NEW T, T \subseteq Nat, T # {}
  PROVE  \E n \in T : \A m \in T : n <= m
<1>1. \E n \in T : \A m \in T : ~ (<<m, n>> \in OpToRel(<, Nat))
  BY WFMin, NatLessThanWellFounded, Zenon
<1>2. \A m, n \in T : <<m, n>> \in OpToRel(<, Nat) <=> m < n
  BY DEF OpToRel
<1>3. PICK n \in T : \A m \in T : ~ (<<m, n>> \in OpToRel(<, Nat))
  BY <1>1
<1>4. \A m \in T : ~ (m < n) /\ m \in Nat /\ n \in Nat
  BY <1>2, <1>3
<1>5. \A m \in T : n <= m
  BY <1>4
<1> QED
  BY <1>5

\* The loops of Compare find the first difference, or a difference of length, or none.
LEMMA LexDecides ==
  ASSUME NEW S, NEW C, Compares(C, S), NEW p \in Seq(S), NEW q \in Seq(S)
  PROVE  /\ Lex(C, p, q) = 1 => Beyond(C, p, q)
         /\ Lex(C, p, q) = -1 => Beyond(C, q, p)
         /\ Lex(C, p, q) = 0 => p = q
         /\ Lex(C, p, q) \in {-1, 0, 1}
<1> DEFINE places == [i \in DOMAIN p \cap DOMAIN q |-> C[p[i]][q[i]]]
           differ == {i \in DOMAIN places : places[i] # 0}
<1>1. /\ DOMAIN p = 1 .. Len(p) /\ DOMAIN q = 1 .. Len(q) /\ Len(p) \in Nat /\ Len(q) \in Nat
      /\ DOMAIN places = DOMAIN p \cap DOMAIN q
      /\ \A i \in DOMAIN p : p[i] \in S
      /\ \A i \in DOMAIN q : q[i] \in S
  OBVIOUS
<1>2. \A x, y \in S : /\ C[x][y] \in {-1, 0, 1}
                      /\ C[x][y] = 0 <=> x = y
                      /\ C[x][y] = 1 <=> C[y][x] = -1
  BY DEF Compares
<1>3. \A i \in DOMAIN p \cap DOMAIN q : places[i] = C[p[i]][q[i]]
  OBVIOUS
<1>4. CASE differ = {}
  <2>1. Lex(C, p, q) = CmpInt(Len(p), Len(q))
    BY <1>4 DEF Lex, Lexical
  <2>2. \A i \in DOMAIN p \cap DOMAIN q : p[i] = q[i]
    <3> SUFFICES ASSUME NEW i \in DOMAIN p \cap DOMAIN q PROVE p[i] = q[i]
      OBVIOUS
    <3>1. i \in DOMAIN places
      BY <1>1, Zenon
    <3>2. C[p[i]][q[i]] = 0
      BY <1>3, <1>4, <3>1, Zenon
    <3>3. p[i] \in S /\ q[i] \in S
      BY <1>1, Zenon
    <3> QED
      BY <1>2, <3>2, <3>3, Zenon
  <2>3. CASE Len(p) < Len(q)
    <3>1. After(C, q, p, Len(p) + 1)
      BY <1>1, <2>2, <2>3 DEF After
    <3> QED
      BY <1>1, <2>1, <2>3, <3>1 DEF CmpInt, Beyond
  <2>4. CASE Len(p) > Len(q)
    <3>1. After(C, p, q, Len(q) + 1)
      BY <1>1, <2>2, <2>4 DEF After
    <3> QED
      BY <1>1, <2>1, <2>4, <3>1 DEF CmpInt, Beyond
  <2>5. CASE Len(p) = Len(q)
    BY <1>1, <2>1, <2>2, <2>5 DEF CmpInt
  <2>6. Len(p) < Len(q) \/ Len(p) > Len(q) \/ Len(p) = Len(q)
    <3>1. Len(p) \in Nat /\ Len(q) \in Nat
      BY <1>1
    <3> QED
      BY <3>1
  <2> HIDE DEF places, differ
  <2> QED
    BY <2>3, <2>4, <2>5, <2>6
<1>5. CASE differ # {}
  <2> DEFINE n == CHOOSE i \in differ : \A j \in differ : i <= j
  <2>1. \A i : i \in differ <=> i \in DOMAIN p \cap DOMAIN q /\ places[i] # 0
    BY <1>1
  <2>2. differ \subseteq Nat
    BY <1>1, <2>1, SMTT(30)
  <2>3. Lex(C, p, q) = places[n]
    BY <1>5 DEF Lex, Lexical
  <2> HIDE DEF places, differ
  <2>4. n \in differ /\ \A j \in differ : n <= j
    BY <1>5, <2>2, LeastOf
  <2> HIDE DEF n
  <2>5. n \in DOMAIN p /\ n \in DOMAIN q /\ places[n] = C[p[n]][q[n]] /\ n \in Nat /\ places[n] # 0
    BY <1>3, <2>1, <2>2, <2>4
  <2>6. ASSUME NEW j \in 1 .. (n - 1) PROVE j \in DOMAIN p /\ j \in DOMAIN q /\ p[j] = q[j]
    <3>1. j \in DOMAIN p /\ j \in DOMAIN q /\ ~(n <= j)
      BY <1>1, <2>5
    <3>2. places[j] = 0 /\ places[j] = C[p[j]][q[j]]
      BY <1>3, <2>1, <2>4, <3>1
    <3>3. p[j] \in S /\ q[j] \in S
      BY <1>1, <3>1
    <3> QED
      BY <1>2, <3>1, <3>2, <3>3
  <2>7. C[p[n]][q[n]] = 1 => After(C, p, q, n)
    BY <2>5, <2>6 DEF After
  <2>8. C[q[n]][p[n]] = 1 => After(C, q, p, n)
    BY <2>5, <2>6 DEF After
  <2>9. p[n] \in S /\ q[n] \in S
    BY <1>1, <2>5
  <2>10. C[p[n]][q[n]] \in {-1, 1} /\ (C[p[n]][q[n]] = -1 => C[q[n]][p[n]] = 1)
    BY <1>2, <2>5, <2>9
  <2> QED
    BY <2>3, <2>5, <2>7, <2>8, <2>10 DEF Beyond
<1> QED
  BY <1>4, <1>5

\* Only one of two can come after the other ...
LEMMA BeyondOneWay ==
  ASSUME NEW S, NEW C, Compares(C, S), NEW p \in Seq(S), NEW q \in Seq(S),
         Beyond(C, p, q), Beyond(C, q, p)
  PROVE  FALSE
<1>1. /\ DOMAIN p = 1 .. Len(p) /\ DOMAIN q = 1 .. Len(q) /\ Len(p) \in Nat /\ Len(q) \in Nat
      /\ \A i \in DOMAIN p : p[i] \in S
      /\ \A i \in DOMAIN q : q[i] \in S
  OBVIOUS
<1>2. \A x, y \in S : (C[x][y] = 0 <=> x = y) /\ (C[x][y] = 1 <=> C[y][x] = -1)
  BY DEF Compares
<1>3. PICK i \in Nat, j \in Nat : After(C, p, q, i) /\ After(C, q, p, j)
  BY DEF Beyond
<1>4. i < j \/ i = j \/ j < i
  OBVIOUS
<1> QED
  BY <1>1, <1>2, <1>3, <1>4 DEF After

\* ... and what comes after what comes after a third comes after that.
LEMMA BeyondTransitive ==
  ASSUME NEW S, NEW C, Compares(C, S), NEW p \in Seq(S), NEW q \in Seq(S), NEW r \in Seq(S),
         Beyond(C, p, q), Beyond(C, q, r)
  PROVE  Beyond(C, p, r)
<1>1. /\ DOMAIN p = 1 .. Len(p) /\ DOMAIN q = 1 .. Len(q) /\ DOMAIN r = 1 .. Len(r)
      /\ Len(p) \in Nat /\ Len(q) \in Nat /\ Len(r) \in Nat
      /\ \A i \in DOMAIN p : p[i] \in S
      /\ \A i \in DOMAIN q : q[i] \in S
      /\ \A i \in DOMAIN r : r[i] \in S
  OBVIOUS
<1>2. \A x, y, z \in S : C[x][y] = 1 /\ C[y][z] = 1 => C[x][z] = 1
  BY DEF Compares
<1>3. PICK i \in Nat, j \in Nat : After(C, p, q, i) /\ After(C, q, r, j)
  BY DEF Beyond
<1>4. CASE i < j
  <2>1. After(C, p, r, i)
    BY <1>1, <1>3, <1>4 DEF After
  <2> QED
    BY <2>1 DEF Beyond
<1>5. CASE i = j
  <2>1. After(C, p, r, i)
    BY <1>1, <1>2, <1>3, <1>5 DEF After
  <2> QED
    BY <2>1 DEF Beyond
<1>6. CASE j < i
  <2>1. j \in DOMAIN p /\ j \in DOMAIN q /\ p[j] = q[j]
    BY <1>1, <1>3, <1>6 DEF After
  <2>2. \A m \in 1 .. (j - 1) : m \in 1 .. (i - 1)
    BY <1>6
  <2>3. \A m \in 1 .. (j - 1) : m \in DOMAIN r /\ p[m] = r[m]
    BY <1>3, <2>2 DEF After
  <2>4. j \in DOMAIN r => C[p[j]][r[j]] = 1
    BY <1>3, <2>1 DEF After
  <2>5. After(C, p, r, j)
    BY <2>1, <2>3, <2>4 DEF After
  <2> QED
    BY <2>5 DEF Beyond
<1> QED
  BY <1>4, <1>5, <1>6

\* A lexical order of a total order is one.
LEMMA LexCompares ==
  ASSUME NEW S, NEW C, Compares(C, S),
         NEW p \in Seq(S), NEW q \in Seq(S), NEW r \in Seq(S)
  PROVE  /\ Lex(C, p, q) \in {-1, 0, 1}
         /\ Lex(C, p, q) = 0 <=> p = q
         /\ Lex(C, p, q) = 1 <=> Lex(C, q, p) = -1
         /\ Lex(C, p, q) = 1 /\ Lex(C, q, r) = 1 => Lex(C, p, r) = 1
<1>1. \A s, t \in Seq(S) : /\ Lex(C, s, t) = 1 => Beyond(C, s, t)
                           /\ Lex(C, s, t) = -1 => Beyond(C, t, s)
                           /\ Lex(C, s, t) = 0 => s = t
                           /\ Lex(C, s, t) \in {-1, 0, 1}
  BY LexDecides
<1>2. \A s, t \in Seq(S) : ~(Beyond(C, s, t) /\ Beyond(C, t, s))
  BY BeyondOneWay
<1>3. Beyond(C, p, q) /\ Beyond(C, q, r) => Beyond(C, p, r)
  BY BeyondTransitive
<1>4. \A s, t \in Seq(S) : s = t => ~Beyond(C, s, t) /\ ~Beyond(C, t, s)
  BY <1>2
<1> HIDE DEF Lex, Beyond
<1> QED
  BY <1>1, <1>2, <1>3, <1>4

Numbers == [x \in Nat |-> [y \in Nat |-> CmpInt(x, y)]]
Idents  == [x \in Identifiers |-> [y \in Identifiers |-> CmpIdent(x, y)]]

LEMMA NumbersCompare == Compares(Numbers, Nat)
<1>1. \A x, y \in Nat : Numbers[x][y] = CmpInt(x, y)
  BY DEF Numbers
<1>2. Numbers \in [Nat -> [Nat -> {-1, 0, 1}]]
  BY DEF Numbers, CmpInt
<1> QED
  BY <1>1, <1>2 DEF Compares, CmpInt

LEMMA IdentsCompare == Compares(Idents, Identifiers)
<1>1. \A x, y \in Identifiers : Idents[x][y] = CmpIdent(x, y)
  BY DEF Idents
<1>2. \A x \in Identifiers : x.numeric \in BOOLEAN /\ x.rank \in Int
  BY DEF Identifiers
<1> DEFINE Class(x) == IF x.numeric THEN 0 ELSE 1
<1>3. \A x \in Identifiers : Class(x) \in {0, 1}
  OBVIOUS
<1>4. \A x, y \in Identifiers :
        CmpIdent(x, y) = IF Class(x) = Class(y) THEN CmpInt(x.rank, y.rank)
                         ELSE IF Class(x) < Class(y) THEN -1 ELSE 1
  <2> SUFFICES ASSUME NEW x \in Identifiers, NEW y \in Identifiers
               PROVE  CmpIdent(x, y) = IF Class(x) = Class(y) THEN CmpInt(x.rank, y.rank)
                                       ELSE IF Class(x) < Class(y) THEN -1 ELSE 1
    OBVIOUS
  <2>1. CASE x.numeric = TRUE /\ y.numeric = TRUE
    BY <2>1 DEF CmpIdent
  <2>2. CASE x.numeric = TRUE /\ y.numeric = FALSE
    BY <2>2 DEF CmpIdent
  <2>3. CASE x.numeric = FALSE /\ y.numeric = TRUE
    BY <2>3 DEF CmpIdent
  <2>4. CASE x.numeric = FALSE /\ y.numeric = FALSE
    BY <2>4 DEF CmpIdent
  <2>5. x.numeric \in {TRUE, FALSE} /\ y.numeric \in {TRUE, FALSE}
    BY <1>2
  <2> QED
    BY <2>1, <2>2, <2>3, <2>4, <2>5
<1>5. \A x, y \in Identifiers : Class(x) = Class(y) /\ x.rank = y.rank => x = y
  <2> SUFFICES ASSUME NEW x \in Identifiers, NEW y \in Identifiers,
                      Class(x) = Class(y), x.rank = y.rank
               PROVE  x = y
    OBVIOUS
  <2>1. x.numeric = y.numeric
    BY <1>2
  <2> QED
    BY <2>1 DEF Identifiers
<1> HIDE DEF Class
<1>6. \A x, y \in Identifiers : CmpIdent(x, y) \in {-1, 0, 1}
  BY <1>4 DEF CmpInt
<1>7. Idents \in [Identifiers -> [Identifiers -> {-1, 0, 1}]]
  BY <1>6 DEF Idents
<1>8. \A x, y \in Identifiers : CmpIdent(x, y) = 0 <=> x = y
  BY <1>2, <1>3, <1>4, <1>5 DEF CmpInt
<1>9. \A x, y \in Identifiers : CmpIdent(x, y) = 1 <=> CmpIdent(y, x) = -1
  BY <1>2, <1>3, <1>4 DEF CmpInt
<1>10. \A x, y, z \in Identifiers : CmpIdent(x, y) = 1 /\ CmpIdent(y, z) = 1 => CmpIdent(x, z) = 1
  BY <1>2, <1>3, <1>4 DEF CmpInt
<1> QED
  BY <1>1, <1>7, <1>8, <1>9, <1>10 DEF Compares

\* Compare by the two lexical orders.
LEMMA CompareByLex ==
  ASSUME NEW a \in Versions, NEW b \in Versions
  PROVE  Compare(a, b) = IF a.num # b.num THEN Lex(Numbers, a.num, b.num)
                         ELSE IF IsPrerelease(a) /\ IsPrerelease(b) THEN Lex(Idents, a.pre, b.pre)
                         ELSE IF IsPrerelease(a) THEN -1
                         ELSE IF IsPrerelease(b) THEN 1 ELSE 0
<1>1. /\ a.num \in Seq(Nat) /\ b.num \in Seq(Nat) /\ Len(a.num) = 3 /\ Len(b.num) = 3
      /\ a.pre \in Seq(Identifiers) /\ b.pre \in Seq(Identifiers)
  BY DEF Versions
<1>2. Lex(Numbers, a.num, b.num) = Lexical([i \in 1 .. 3 |-> CmpInt(a.num[i], b.num[i])], 0)
  <2>1. DOMAIN a.num \cap DOMAIN b.num = 1 .. 3
    BY <1>1
  <2>2. \A i \in 1 .. 3 : a.num[i] \in Nat /\ b.num[i] \in Nat
    BY <1>1
  <2>3. \A i \in 1 .. 3 : Numbers[a.num[i]][b.num[i]] = CmpInt(a.num[i], b.num[i])
    BY <2>2 DEF Numbers
  <2>4. [i \in DOMAIN a.num \cap DOMAIN b.num |-> Numbers[a.num[i]][b.num[i]]]
          = [i \in 1 .. 3 |-> CmpInt(a.num[i], b.num[i])]
    BY <2>1, <2>3
  <2>5. CmpInt(Len(a.num), Len(b.num)) = 0
    BY <1>1 DEF CmpInt
  <2> QED
    BY <2>4, <2>5 DEF Lex
<1>3. Lex(Idents, a.pre, b.pre) =
        Lexical([i \in DOMAIN a.pre \cap DOMAIN b.pre |-> CmpIdent(a.pre[i], b.pre[i])],
                CmpInt(Len(a.pre), Len(b.pre)))
  <2>1. \A i \in DOMAIN a.pre \cap DOMAIN b.pre :
          Idents[a.pre[i]][b.pre[i]] = CmpIdent(a.pre[i], b.pre[i])
    BY <1>1 DEF Idents
  <2>2. [i \in DOMAIN a.pre \cap DOMAIN b.pre |-> Idents[a.pre[i]][b.pre[i]]]
          = [i \in DOMAIN a.pre \cap DOMAIN b.pre |-> CmpIdent(a.pre[i], b.pre[i])]
    BY <2>1
  <2> QED
    BY <2>2 DEF Lex
<1>4. CASE a.num # b.num
  BY <1>2, <1>4 DEF Compare
<1>5. CASE a.num = b.num /\ IsPrerelease(a) /\ IsPrerelease(b)
  BY <1>3, <1>5 DEF Compare
<1>6. CASE a.num = b.num /\ ~(IsPrerelease(a) /\ IsPrerelease(b))
  <2>1. IsPrerelease(a) \in BOOLEAN /\ IsPrerelease(b) \in BOOLEAN
    BY DEF IsPrerelease
  <2> HIDE DEF IsPrerelease
  <2> QED
    BY <1>6, <2>1 DEF Compare
<1> QED
  BY <1>4, <1>5, <1>6

\* Version.Compare orders the versions totally: of two different ones, one comes after the
\* other and not the other way round, and what comes after a version comes after all before it.
\* So the version that Resolve keeps does not depend on the order in which they are listed.
THEOREM CompareIsAnOrder ==
  ASSUME NEW a \in Versions, NEW b \in Versions, NEW c \in Versions
  PROVE  /\ Compare(a, b) \in {-1, 0, 1}
         /\ Compare(a, b) = 0 <=> a = b
         /\ Compare(a, b) = 1 <=> Compare(b, a) = -1
         /\ Compare(a, b) = 1 /\ Compare(b, c) = 1 => Compare(a, c) = 1
<1>1. \A v \in Versions : v.num \in Seq(Nat) /\ v.pre \in Seq(Identifiers)
  BY DEF Versions
<1>2. \A v, w \in Versions : v.num = w.num /\ v.pre = w.pre => v = w
  <2>1. \A v, w \in [num : Seq(Nat), pre : Seq(Identifiers)] :
          v.num = w.num /\ v.pre = w.pre => v = w
    OBVIOUS
  <2> QED
    BY <2>1 DEF Versions
<1>3. \A u, v, w \in Versions :
        /\ Lex(Numbers, u.num, v.num) \in {-1, 0, 1}
        /\ Lex(Numbers, u.num, v.num) = 0 <=> u.num = v.num
        /\ Lex(Numbers, u.num, v.num) = 1 <=> Lex(Numbers, v.num, u.num) = -1
        /\ Lex(Numbers, u.num, v.num) = 1 /\ Lex(Numbers, v.num, w.num) = 1
             => Lex(Numbers, u.num, w.num) = 1
  BY <1>1, LexCompares, NumbersCompare
<1>4. \A u, v, w \in Versions :
        /\ Lex(Idents, u.pre, v.pre) \in {-1, 0, 1}
        /\ Lex(Idents, u.pre, v.pre) = 0 <=> u.pre = v.pre
        /\ Lex(Idents, u.pre, v.pre) = 1 <=> Lex(Idents, v.pre, u.pre) = -1
        /\ Lex(Idents, u.pre, v.pre) = 1 /\ Lex(Idents, v.pre, w.pre) = 1
             => Lex(Idents, u.pre, w.pre) = 1
  BY <1>1, LexCompares, IdentsCompare
<1>5. \A v \in Versions : IsPrerelease(v) <=> v.pre # <<>>
  BY DEF IsPrerelease
<1> HIDE DEF Lex
<1>6. Compare(a, b) \in {-1, 0, 1} /\ (Compare(a, b) = 0 <=> a = b)
  BY <1>2, <1>3, <1>4, <1>5, CompareByLex
<1>7. Compare(a, b) = 1 <=> Compare(b, a) = -1
  BY <1>2, <1>3, <1>4, <1>5, CompareByLex
<1>8. Compare(a, b) = 1 /\ Compare(b, c) = 1 => Compare(a, c) = 1
  BY <1>2, <1>3, <1>4, <1>5, CompareByLex
<1> QED
  BY <1>6, <1>7, <1>8

-----------------------------------------------------------------------------
(* The highest match.  Resolve goes through the list once and keeps the best so far.  That it  *)
(* has a value at all, and which, is by induction on the place in the list, for which a set    *)
(* of places takes the part of the predicate.                                                  *)

LEMMA AllPlaces ==
  ASSUME NEW A, 0 \in A, \A m \in Nat : m \in A => m + 1 \in A
  PROVE  Nat \subseteq A
<1> SUFFICES ASSUME Nat \ A # {} PROVE FALSE
  OBVIOUS
<1>1. PICK n \in Nat \ A : \A m \in Nat \ A : n <= m
  BY LeastOf
<1>2. n - 1 \in Nat /\ n - 1 \in A
  BY <1>1
<1> QED
  BY <1>1, <1>2

\* What the loop of Resolve makes of its best version at v.
Better(bounds, pre, v, best) ==
  IF Suits(bounds, v, pre) /\ (best = NoMatch \/ Compare(v, best) > 0) THEN v ELSE best

Bests(bounds, list, pre, n, f) ==
  f = [i \in 0..n |-> IF i = 0 THEN NoMatch ELSE Better(bounds, pre, list[i], f[i - 1])]

LEMMA BestExists ==
  ASSUME NEW bounds, NEW list, NEW pre, NEW n \in Nat
  PROVE  \E f : Bests(bounds, list, pre, n, f)
<1> USE DEF Bests
<1> DEFINE Runs(m, f) == Bests(bounds, list, pre, m, f)
           A == {m \in Nat : \E f : Runs(m, f)}
<1>1. 0 \in A
  <2>1. Runs(0, [i \in 0..0 |-> NoMatch])
    OBVIOUS
  <2> QED
    BY <2>1
<1>2. ASSUME NEW m \in Nat, m \in A PROVE m + 1 \in A
  <2>1. PICK f : Runs(m, f)
    BY <1>2
  <2> DEFINE g == [i \in 0..(m + 1) |-> IF i = m + 1 THEN Better(bounds, pre, list[m + 1], f[m])
                                       ELSE f[i]]
  <2>2. \A i \in 0..m : g[i] = f[i]
    OBVIOUS
  <2>3. \A i \in 0..m : f[i] = IF i = 0 THEN NoMatch ELSE Better(bounds, pre, list[i], f[i - 1])
    BY <2>1
  <2>4. ASSUME NEW i \in 0..(m + 1)
        PROVE  g[i] = IF i = 0 THEN NoMatch ELSE Better(bounds, pre, list[i], g[i - 1])
    <3>1. CASE i = m + 1
      <4>1. g[i - 1] = f[m] /\ i # 0
        BY <2>2, <3>1
      <4> QED
        BY <3>1, <4>1
    <3>2. CASE i # m + 1
      <4>1. i \in 0..m /\ (i # 0 => i - 1 \in 0..m)
        BY <3>2
      <4>2. g[i] = f[i] /\ (i # 0 => g[i - 1] = f[i - 1])
        BY <2>2, <4>1
      <4> HIDE DEF g
      <4> QED
        BY <2>3, <4>1, <4>2
    <3> QED
      BY <3>1, <3>2
  <2>5. g = [i \in 0..(m + 1) |-> g[i]]
    OBVIOUS
  <2> HIDE DEF g
  <2>6. Runs(m + 1, g)
    BY <2>4, <2>5
  <2> QED
    BY <2>6
<1> HIDE DEF Runs
<1>3. Nat \subseteq A
  BY <1>1, <1>2, AllPlaces
<1> QED
  BY <1>3 DEF Runs

LEMMA ResolveSteps ==
  ASSUME NEW bounds, NEW list, NEW pre, Len(list) \in Nat
  PROVE  \E f : /\ f[0] = NoMatch
                /\ \A i \in 1..Len(list) : f[i] = Better(bounds, pre, list[i], f[i - 1])
                /\ Resolve(bounds, list, pre) = f[Len(list)]
<1> DEFINE best == CHOOSE f : Bests(bounds, list, pre, Len(list), f)
<1>1. Resolve(bounds, list, pre) = best[Len(list)]
  BY DEF Resolve, Better, Bests
<1>2. \E f : Bests(bounds, list, pre, Len(list), f)
  BY BestExists
<1>3. Bests(bounds, list, pre, Len(list), best)
  BY <1>2
<1> HIDE DEF best
<1>4. \A i \in 0..Len(list) : best[i] = IF i = 0 THEN NoMatch
                                         ELSE Better(bounds, pre, list[i], best[i - 1])
  BY <1>3 DEF Bests
<1>5. best[0] = NoMatch
  BY <1>4
<1>6. \A i \in 1..Len(list) : best[i] = Better(bounds, pre, list[i], best[i - 1])
  BY <1>4
<1> QED
  BY <1>1, <1>5, <1>6

\* Whatever the range and the list, and in whatever order: Resolve answers with none only if no
\* version on the list matches, and else with one that matches and that no other that matches
\* comes after (range.go: Range.Resolve).
THEOREM ResolveTakesHighest ==
  ASSUME NEW bounds, NEW pre, NEW list, list \in Seq({list[i] : i \in DOMAIN list}),
         \A i \in DOMAIN list : Parses(list[i]) => list[i] \in Versions
  PROVE  LET suited == {i \in DOMAIN list : Suits(bounds, list[i], pre)}
             best   == Resolve(bounds, list, pre)
         IN  /\ suited = {} => best = NoMatch
             /\ suited # {} => \E i \in suited : best = list[i]
             /\ \A i \in suited : Compare(list[i], best) \in {-1, 0}
<1> DEFINE Good(i) == i \in DOMAIN list /\ Suits(bounds, list[i], pre)
<1>1. Len(list) \in Nat /\ DOMAIN list = 1..Len(list)
  OBVIOUS
<1>2. \A i : Good(i) => list[i] \in Versions
  BY DEF Suits
<1>3. PICK f : /\ f[0] = NoMatch
               /\ \A i \in 1..Len(list) : f[i] = Better(bounds, pre, list[i], f[i - 1])
               /\ Resolve(bounds, list, pre) = f[Len(list)]
  BY <1>1, ResolveSteps
<1> DEFINE Kept(m) == /\ (\A i \in 1..m : ~Good(i)) => f[m] = NoMatch
                      /\ (\E i \in 1..m : Good(i)) => \E i \in 1..m : Good(i) /\ f[m] = list[i]
                      /\ \A i \in 1..m : Good(i) => Compare(list[i], f[m]) \in {-1, 0}
           A == {m \in Nat : m <= Len(list) => Kept(m)}
<1>4. 0 \in A
  BY <1>3
<1>5. ASSUME NEW m \in Nat, m \in A PROVE m + 1 \in A
  <2> SUFFICES ASSUME m + 1 <= Len(list) PROVE Kept(m + 1)
    OBVIOUS
  <2>1. Kept(m)
    BY <1>1, <1>5
  <2>2. m + 1 \in 1..Len(list) /\ m + 1 \in DOMAIN list
    BY <1>1
  <2>3. f[m + 1] = Better(bounds, pre, list[m + 1], f[m])
    BY <1>3, <2>2
  <2>4. \A i : i \in 1..(m + 1) <=> i \in 1..m \/ i = m + 1
    OBVIOUS
  <2>5. Good(m + 1) <=> Suits(bounds, list[m + 1], pre)
    BY <2>2
  <2>6. NoMatch \notin Versions
    BY DEF NoMatch, Versions
  <2> HIDE DEF Good
  <2>7. CASE ~Good(m + 1)
    BY <2>1, <2>3, <2>4, <2>5, <2>7 DEF Better
  <2>8. CASE Good(m + 1) /\ f[m] = NoMatch
    <3>1. f[m + 1] = list[m + 1] /\ \A i \in 1..m : ~Good(i)
      BY <1>2, <2>1, <2>3, <2>5, <2>6, <2>8 DEF Better
    <3>2. Compare(list[m + 1], list[m + 1]) = 0
      BY <1>2, <2>8, CompareIsAnOrder
    <3> QED
      BY <2>4, <2>8, <3>1, <3>2
  <2>9. CASE Good(m + 1) /\ f[m] # NoMatch
    <3>1. PICK j \in 1..m : Good(j) /\ f[m] = list[j]
      BY <2>1, <2>9
    <3>2. list[j] \in Versions /\ list[m + 1] \in Versions
      BY <1>2, <2>9, <3>1
    <3>3. Compare(list[m + 1], list[j]) \in {-1, 0, 1} /\ Compare(list[m + 1], list[m + 1]) = 0
      BY <3>2, CompareIsAnOrder
    <3>4. CASE Compare(list[m + 1], list[j]) = 1
      <4>1. f[m + 1] = list[m + 1]
        BY <2>3, <2>5, <2>9, <3>1, <3>4 DEF Better
      <4>2. ASSUME NEW i \in 1..m, Good(i) PROVE Compare(list[i], list[m + 1]) \in {-1, 0}
        <5>1. list[i] \in Versions /\ Compare(list[i], list[j]) \in {-1, 0}
          BY <1>2, <2>1, <3>1, <4>2
        <5>2. Compare(list[i], list[m + 1]) \in {-1, 0, 1}
          BY <3>2, <5>1, CompareIsAnOrder
        <5>3. Compare(list[i], list[m + 1]) = 1 => Compare(list[i], list[j]) = 1
          BY <3>2, <3>4, <5>1, CompareIsAnOrder
        <5> QED
          BY <5>1, <5>2, <5>3
      <4> QED
        BY <2>4, <2>9, <3>3, <4>1, <4>2
    <3>5. CASE Compare(list[m + 1], list[j]) \in {-1, 0}
      <4>1. f[m + 1] = list[j]
        BY <2>3, <2>9, <3>1, <3>5 DEF Better
      <4> QED
        BY <2>1, <2>4, <3>1, <3>5, <4>1
    <3> QED
      BY <3>3, <3>4, <3>5
  <2> QED
    BY <2>7, <2>8, <2>9
<1> HIDE DEF Kept
<1>6. Nat \subseteq A
  BY <1>4, <1>5, AllPlaces
<1>7. Kept(Len(list))
  BY <1>1, <1>6
<1> QED
  BY <1>1, <1>3, <1>7 DEF Kept

-----------------------------------------------------------------------------
(* The Ladder.  Its order is that of Compare, and what Expand makes of a part keeps the same   *)
(* versions of it as the part means to.                                                        *)

NumLess(p, q) ==
  p[1] < q[1] \/ (p[1] = q[1] /\ (p[2] < q[2] \/ (p[2] = q[2] /\ p[3] < q[3])))

LEMMA FieldByField ==
  ASSUME NEW p \in [1..3 -> Nat], NEW q \in [1..3 -> Nat], p # q
  PROVE  LET c == Lexical([i \in 1..3 |-> CmpInt(p[i], q[i])], 0)
         IN  (c = -1 <=> NumLess(p, q)) /\ (c = 1 <=> NumLess(q, p))
<1> DEFINE places == [i \in 1..3 |-> CmpInt(p[i], q[i])]
           differ == {i \in DOMAIN places : places[i] # 0}
           n == CHOOSE i \in differ : \A j \in differ : i <= j
<1>1. \A i \in 1..3 : p[i] \in Nat /\ q[i] \in Nat /\ places[i] = CmpInt(p[i], q[i])
  OBVIOUS
<1>2. \E i \in 1..3 : p[i] # q[i]
  OBVIOUS
<1>3. \A i : i \in differ <=> i \in 1..3 /\ p[i] # q[i]
  BY <1>1 DEF CmpInt
<1>4. differ # {} /\ differ \subseteq Nat
  BY <1>2, <1>3
<1>5. Lexical(places, 0) = places[n]
  BY <1>4 DEF Lexical
<1> HIDE DEF places, differ
<1>6. n \in differ /\ \A j \in differ : n <= j
  BY <1>4, LeastOf
<1> HIDE DEF n
<1>7. /\ n \in 1..3 /\ p[n] # q[n]
      /\ 1 # n => p[1] = q[1]
      /\ n = 3 => p[2] = q[2]
  BY <1>3, <1>6
<1>8. /\ places[n] = -1 <=> p[n] < q[n]
      /\ places[n] = 1 <=> q[n] < p[n]
  BY <1>1, <1>7 DEF CmpInt
<1>9. (p[n] < q[n] <=> NumLess(p, q)) /\ (q[n] < p[n] <=> NumLess(q, p))
  BY <1>1, <1>7 DEF NumLess
<1> QED
  BY <1>5, <1>8, <1>9 DEF places

LEMMA VersionNumbers ==
  ASSUME NEW v \in Versions
  PROVE  v.num \in [1..3 -> Nat] /\ v.pre \in Seq(Identifiers)
<1>1. v.num \in Seq(Nat) /\ Len(v.num) = 3 /\ v.pre \in Seq(Identifiers)
  BY DEF Versions
<1>2. \A p \in Seq(Nat) : p = [i \in 1..Len(p) |-> p[i]] /\ \A i \in 1..Len(p) : p[i] \in Nat
  OBVIOUS
<1>3. v.num = [i \in 1..3 |-> v.num[i]] /\ \A i \in 1..3 : v.num[i] \in Nat
  BY <1>1, <1>2
<1> QED
  BY <1>1, <1>3

LEMMA IsVersion ==
  ASSUME NEW a \in Nat, NEW b \in Nat, NEW c \in Nat
  PROVE  /\ Version(a, b, c) \in Versions /\ ~IsPrerelease(Version(a, b, c))
         /\ Version(a, b, c).num = <<a, b, c>>
BY DEF Version, Versions, IsPrerelease

\* A release is below another as its numbers are, and before no prerelease of its own.
LEMMA ReleaseOrder ==
  ASSUME NEW u \in Versions, NEW v \in Versions, ~IsPrerelease(u)
  PROVE  /\ Compare(u, v) = -1 <=> NumLess(u.num, v.num)
         /\ Compare(u, v) \in {0, 1} <=> ~NumLess(u.num, v.num)
<1>1. u.num \in [1..3 -> Nat] /\ v.num \in [1..3 -> Nat]
  BY VersionNumbers
<1>2. Compare(u, v) \in {-1, 0, 1}
  BY CompareIsAnOrder
<1>3. CASE u.num # v.num
  <2>1. Compare(u, v) = Lexical([i \in 1..3 |-> CmpInt(u.num[i], v.num[i])], 0)
    BY <1>3 DEF Compare
  <2> QED
    BY <1>1, <1>2, <1>3, <2>1, FieldByField
<1>4. CASE u.num = v.num
  <2>1. Compare(u, v) \in {0, 1}
    <3>1. IsPrerelease(v) \in BOOLEAN
      BY DEF IsPrerelease
    <3> HIDE DEF IsPrerelease
    <3> QED
      BY <1>4, <3>1 DEF Compare
  <2>2. ~NumLess(u.num, v.num)
    BY <1>1, <1>4 DEF NumLess
  <2> QED
    BY <2>1, <2>2
<1> QED
  BY <1>3, <1>4

\* Where a ^ or ~ part ends.
End(part) ==
  IF part.op = "^" THEN NextCaretUpper(part.v)
  ELSE Version(part.v.num[1], part.v.num[2] + 1, 0)

LEMMA EndIsRelease ==
  ASSUME NEW part, part.v \in Versions, part.op \in {"^", "~"}
  PROVE  /\ End(part) \in Versions /\ ~IsPrerelease(End(part))
         /\ Compare(End(part), part.v) = 1
         /\ Expand(part) = {Bound(">=", part.v), Bound("<", End(part))}
<1>1. \A i \in 1..3 : part.v.num[i] \in Nat
  BY VersionNumbers
<1> DEFINE a == part.v.num[1]
           b == part.v.num[2]
           c == part.v.num[3]
<1>2. a \in Nat /\ b \in Nat /\ c \in Nat
  BY <1>1
<1>3. /\ part.op = "~" => End(part) = Version(a, b + 1, 0)
      /\ part.op = "^" /\ a > 0 => End(part) = Version(a + 1, 0, 0)
      /\ part.op = "^" /\ a = 0 /\ b > 0 => End(part) = Version(0, b + 1, 0)
      /\ part.op = "^" /\ a = 0 /\ b = 0 => End(part) = Version(0, 0, c + 1)
  BY <1>2 DEF End, NextCaretUpper
<1>4. PICK x \in Nat, y \in Nat, z \in Nat :
         End(part) = Version(x, y, z) /\ NumLess(<<a, b, c>>, <<x, y, z>>)
  <2>1. NumLess(<<a, b, c>>, <<a, b + 1, 0>>)
    BY <1>2 DEF NumLess
  <2>2. NumLess(<<a, b, c>>, <<a + 1, 0, 0>>)
    BY <1>2 DEF NumLess
  <2>3. a = 0 => NumLess(<<a, b, c>>, <<0, b + 1, 0>>)
    BY <1>2 DEF NumLess
  <2>4. a = 0 /\ b = 0 => NumLess(<<a, b, c>>, <<0, 0, c + 1>>)
    BY <1>2 DEF NumLess
  <2>5. (a > 0 \/ a = 0) /\ (b > 0 \/ b = 0) /\ a + 1 \in Nat /\ b + 1 \in Nat /\ c + 1 \in Nat
    BY <1>2
  <2> HIDE DEF a, b, c
  <2> QED
    BY <1>2, <1>3, <2>1, <2>2, <2>3, <2>4, <2>5
<1>5. /\ End(part) \in Versions /\ ~IsPrerelease(End(part)) /\ End(part).num = <<x, y, z>>
  BY <1>4, IsVersion
<1>6. NumLess(part.v.num, End(part).num)
  BY <1>4, <1>5 DEF NumLess
<1>7. ~NumLess(End(part).num, part.v.num) /\ End(part) # part.v
  BY <1>1, <1>5, <1>6, VersionNumbers DEF NumLess
<1>8. Compare(End(part), part.v) = 1
  BY <1>5, <1>7, ReleaseOrder, CompareIsAnOrder
<1>9. Expand(part) = {Bound(">=", part.v), Bound("<", End(part))}
  BY DEF Expand, End
<1> QED
  BY <1>5, <1>8, <1>9

\* A release at or after the version of a ^ or ~ part comes before its end just when it keeps the
\* numbers that the part does not let change.
LEMMA RangeKeeps ==
  ASSUME NEW part, part.v \in Versions, part.op \in {"^", "~"},
         NEW u \in Versions, ~IsPrerelease(u), Compare(u, part.v) \in {0, 1}
  PROVE  Compare(u, End(part)) = -1 <=> Keeps(part, u)
<1> DEFINE a == part.v.num[1]
           b == part.v.num[2]
           c == part.v.num[3]
           x == u.num[1]
           y == u.num[2]
           z == u.num[3]
<1>1. a \in Nat /\ b \in Nat /\ c \in Nat /\ x \in Nat /\ y \in Nat /\ z \in Nat
  BY VersionNumbers
<1>2. ~(x < a \/ (x = a /\ (y < b \/ (y = b /\ z < c))))
  BY ReleaseOrder DEF NumLess
<1>3. Compare(u, End(part)) = -1 <=> NumLess(u.num, End(part).num)
  BY EndIsRelease, ReleaseOrder
<1>4. CASE part.op = "~"
  <2>1. End(part).num = <<a, b + 1, 0>>
    BY <1>4 DEF End, Version
  <2>2. NumLess(u.num, End(part).num) <=> x = a /\ y = b
    BY <1>1, <1>2, <2>1 DEF NumLess
  <2>3. Fixed(part) = {1, 2}
    BY <1>4 DEF Fixed
  <2>4. Keeps(part, u) <=> x = a /\ y = b
    BY <2>3 DEF Keeps
  <2> QED
    BY <1>3, <2>2, <2>4
<1>5. CASE part.op = "^" /\ a > 0
  <2>1. End(part).num = <<a + 1, 0, 0>>
    BY <1>1, <1>5 DEF End, NextCaretUpper, Version
  <2>2. NumLess(u.num, End(part).num) <=> x = a
    BY <1>1, <1>2, <2>1 DEF NumLess
  <2>3. Fixed(part) = {1}
    BY <1>1, <1>5 DEF Fixed
  <2>4. Keeps(part, u) <=> x = a
    BY <2>3 DEF Keeps
  <2> QED
    BY <1>3, <2>2, <2>4
<1>6. CASE part.op = "^" /\ a = 0 /\ b > 0
  <2>1. End(part).num = <<0, b + 1, 0>>
    BY <1>1, <1>6 DEF End, NextCaretUpper, Version
  <2>2. NumLess(u.num, End(part).num) <=> x = a /\ y = b
    BY <1>1, <1>2, <1>6, <2>1 DEF NumLess
  <2>3. Fixed(part) = {1, 2}
    BY <1>1, <1>6 DEF Fixed
  <2>4. Keeps(part, u) <=> x = a /\ y = b
    BY <2>3 DEF Keeps
  <2> QED
    BY <1>3, <2>2, <2>4
<1>7. CASE part.op = "^" /\ a = 0 /\ b = 0
  <2>1. End(part).num = <<0, 0, c + 1>>
    BY <1>1, <1>7 DEF End, NextCaretUpper, Version
  <2>2. NumLess(u.num, End(part).num) <=> x = a /\ y = b /\ z = c
    BY <1>1, <1>2, <1>7, <2>1 DEF NumLess
  <2>3. Fixed(part) = {1, 2, 3}
    BY <1>1, <1>7 DEF Fixed
  <2>4. Keeps(part, u) <=> x = a /\ y = b /\ z = c
    BY <2>3 DEF Keeps
  <2> QED
    BY <1>3, <2>2, <2>4
<1> QED
  BY <1>1, <1>4, <1>5, <1>6, <1>7

LEMMA RankFacts ==
  ASSUME LadderMeasures
  PROVE  /\ DOMAIN Ladder \subseteq Nat
         /\ \A v \in OnLadder : v \in Versions /\ Rank(v) \in DOMAIN Ladder /\ Ladder[Rank(v)] = v
         /\ \A i \in DOMAIN Ladder : Ladder[i] \in OnLadder /\ Rank(Ladder[i]) = i
<1>1. /\ DOMAIN Ladder \subseteq Nat /\ \A i \in DOMAIN Ladder : Ladder[i] \in Versions
      /\ \A i, j \in DOMAIN Ladder : i < j => Compare(Ladder[j], Ladder[i]) = 1
  <2>1. Ladder \in Seq(Versions)
    BY DEF LadderMeasures
  <2>2. DOMAIN Ladder \subseteq Nat /\ \A i \in DOMAIN Ladder : Ladder[i] \in Versions
    BY <2>1
  <2> QED
    BY <2>2 DEF LadderMeasures
<1>2. \A v : v \in OnLadder <=> \E i \in DOMAIN Ladder : Ladder[i] = v
  BY DEF OnLadder, Range
<1>3. \A v \in OnLadder : Rank(v) \in DOMAIN Ladder /\ Ladder[Rank(v)] = v
  BY <1>2 DEF Rank
<1>4. \A i, j \in DOMAIN Ladder : Ladder[i] = Ladder[j] => i = j
  <2> SUFFICES ASSUME NEW i \in DOMAIN Ladder, NEW j \in DOMAIN Ladder, Ladder[i] = Ladder[j], i < j
               PROVE  FALSE
    BY <1>1
  <2> QED
    BY <1>1, CompareIsAnOrder
<1> QED
  BY <1>1, <1>2, <1>3, <1>4

LEMMA RankOrder ==
  ASSUME LadderMeasures, NEW v \in OnLadder, NEW w \in OnLadder
  PROVE  /\ Compare(w, v) \in {-1, 0, 1}
         /\ Compare(w, v) = 1 <=> Rank(w) > Rank(v)
         /\ Compare(w, v) = 0 <=> Rank(w) = Rank(v)
         /\ Compare(w, v) = -1 <=> Rank(w) < Rank(v)
<1>1. /\ v \in Versions /\ Rank(v) \in DOMAIN Ladder /\ Ladder[Rank(v)] = v /\ Rank(v) \in Nat
      /\ w \in Versions /\ Rank(w) \in DOMAIN Ladder /\ Ladder[Rank(w)] = w /\ Rank(w) \in Nat
  BY RankFacts
<1>2. /\ Rank(v) < Rank(w) => Compare(w, v) = 1
      /\ Rank(w) < Rank(v) => Compare(v, w) = 1
  BY <1>1 DEF LadderMeasures
<1>3. /\ Compare(w, v) \in {-1, 0, 1}
      /\ Compare(w, v) = 0 <=> w = v
      /\ Compare(v, w) = 1 <=> Compare(w, v) = -1
  BY <1>1, CompareIsAnOrder
<1> QED
  BY <1>1, <1>2, <1>3

\* A part means what Expand makes of it.
LEMMA RangeFits ==
  ASSUME LadderMeasures, NEW part \in UNION Constraints, Parses(part.v), part.op \in {"^", "~"},
         NEW w \in OnLadder
  PROVE  Matches(Expand(part), w) <=> Fits(part, w)
<1> DEFINE v   == part.v
           end == End(part)
<1>1. v \in OnLadder /\ v \in Versions /\ w \in Versions
  BY RankFacts DEF LadderMeasures
<1>2. /\ end \in Versions /\ ~IsPrerelease(end) /\ Compare(end, v) = 1
      /\ Expand(part) = {Bound(">=", v), Bound("<", end)}
  BY <1>1, EndIsRelease
<1>3. Matches(Expand(part), w) <=> Compare(w, v) \in {0, 1} /\ Compare(w, end) = -1
  <2>1. Compare(w, v) \in {-1, 0, 1} /\ Compare(w, end) \in {-1, 0, 1}
    BY <1>1, <1>2, CompareIsAnOrder
  <2>2. Matches(Expand(part), w) <=> Compare(w, v) >= 0 /\ Compare(w, end) < 0
    BY <1>2 DEF Matches, Bound
  <2> QED
    BY <2>1, <2>2
<1>4. /\ Rank(v) \in Nat /\ Rank(w) \in Nat /\ Rank(w) \in DOMAIN Ladder /\ DOMAIN Ladder \subseteq Nat
      /\ \E n \in Nat : DOMAIN Ladder = 1..n
  <2>1. Ladder \in Seq(Versions)
    BY DEF LadderMeasures
  <2>2. \E n \in Nat : DOMAIN Ladder = 1..n
    BY <2>1
  <2> QED
    BY <1>1, <2>2, RankFacts
<1>5. Compare(w, v) \in {0, 1} <=> Rank(w) >= Rank(v)
  BY <1>1, <1>4, RankOrder
<1>6. Fits(part, w) <=> /\ Rank(w) >= Rank(v)
                        /\ \A i \in Rank(v)..Rank(w) : ~IsPrerelease(Ladder[i]) => Keeps(part, Ladder[i])
  BY DEF Fits
<1>7. ASSUME NEW u \in OnLadder, ~IsPrerelease(u), Rank(v) <= Rank(u)
      PROVE  u \in Versions /\ (Keeps(part, u) <=> Compare(u, end) = -1)
  <2>1. u \in Versions /\ Compare(u, v) \in {0, 1} /\ Rank(u) \in Nat
    BY <1>1, <1>4, <1>7, RankFacts, RankOrder
  <2> QED
    BY <1>1, <1>7, <2>1, RangeKeeps
<1> HIDE DEF v, end
<1>8. ASSUME Matches(Expand(part), w) PROVE Fits(part, w)
  <2>1. Rank(w) >= Rank(v) /\ Compare(w, end) = -1
    BY <1>3, <1>5, <1>8
  <2>2. ASSUME NEW i \in Rank(v)..Rank(w), ~IsPrerelease(Ladder[i]) PROVE Keeps(part, Ladder[i])
    <3>1. i \in DOMAIN Ladder /\ Rank(v) \in DOMAIN Ladder
      BY <1>1, <1>4, RankFacts
    <3>2. Ladder[i] \in OnLadder /\ Rank(Ladder[i]) = i /\ Ladder[i] \in Versions
      BY <3>1, RankFacts
    <3>3. Compare(Ladder[i], w) \in {-1, 0}
      BY <1>4, <3>2, RankOrder
    <3>4. Compare(Ladder[i], end) = -1
      <4>1. CASE Compare(Ladder[i], w) = 0
        BY <1>1, <2>1, <3>2, <4>1, CompareIsAnOrder
      <4>2. CASE Compare(Ladder[i], w) = -1
        <5>1. Compare(w, Ladder[i]) = 1 /\ Compare(end, w) = 1
          BY <1>1, <1>2, <2>1, <3>2, <4>2, CompareIsAnOrder
        <5>2. Compare(end, Ladder[i]) = 1
          BY <1>1, <1>2, <3>2, <5>1, CompareIsAnOrder
        <5> QED
          BY <1>2, <3>2, <5>2, CompareIsAnOrder
      <4> QED
        BY <3>3, <4>1, <4>2
    <3> QED
      BY <1>7, <2>2, <3>2, <3>4, <1>4
  <2> QED
    BY <1>6, <2>1, <2>2
<1>9. ASSUME Fits(part, w) PROVE Matches(Expand(part), w)
  <2>1. Rank(w) >= Rank(v) /\ Compare(w, v) \in {0, 1}
    BY <1>5, <1>6, <1>9
  <2> SUFFICES ASSUME Compare(w, end) # -1 PROVE FALSE
    BY <1>3, <2>1
  <2>2. Compare(w, end) \in {0, 1}
    BY <1>1, <1>2, CompareIsAnOrder
  <2>3. PICK u \in OnLadder : ~IsPrerelease(u) /\ Compare(u, end) >= 0 /\ Compare(w, u) >= 0
    <3>1. Bound("<", end) \in Expand(part) /\ Bound("<", end).op = "<" /\ Bound("<", end).v = end
      BY <1>2 DEF Bound
    <3>2. Compare(w, end) >= 0
      BY <2>2
    <3> QED
      BY <3>1, <3>2 DEF LadderMeasures
  <2>4. u \in Versions /\ Compare(u, end) \in {0, 1} /\ Compare(w, u) \in {0, 1}
    BY <1>1, <1>2, <2>3, RankFacts, CompareIsAnOrder
  <2>5. Compare(u, v) = 1
    BY <1>1, <1>2, <2>4, CompareIsAnOrder
  <2>6. Rank(u) \in Rank(v)..Rank(w) /\ Ladder[Rank(u)] = u
    BY <1>1, <1>4, <2>4, <2>5, RankFacts, RankOrder
  <2>7. Keeps(part, u)
    BY <1>6, <1>9, <2>3, <2>6
  <2>8. Compare(u, end) = -1
    BY <1>4, <1>7, <2>3, <2>6, <2>7
  <2> QED
    BY <2>4, <2>8
<1> QED
  BY <1>8, <1>9

LEMMA PartFits ==
  ASSUME LadderMeasures, NEW part \in UNION Constraints, Parses(part.v), NEW w \in OnLadder
  PROVE  Matches(Expand(part), w) <=> Fits(part, w)
<1>1. part.op \in {"^", "~", "", "=", ">=", "<=", ">", "<"} /\ part.v \in OnLadder
  BY DEF LadderMeasures
<1>2. /\ Compare(w, part.v) \in {-1, 0, 1} /\ Rank(w) \in Nat /\ Rank(part.v) \in Nat
      /\ Compare(w, part.v) = 1 <=> Rank(w) > Rank(part.v)
      /\ Compare(w, part.v) = 0 <=> Rank(w) = Rank(part.v)
      /\ Compare(w, part.v) = -1 <=> Rank(w) < Rank(part.v)
  BY <1>1, RankFacts, RankOrder
<1>3. CASE part.op = ""
  <2>1. Expand(part) = {Bound("=", part.v)}
    BY <1>3 DEF Expand
  <2>2. Bound("=", part.v).op = "=" /\ Bound("=", part.v).v = part.v
    BY DEF Bound
  <2> HIDE DEF Bound
  <2>3. Matches(Expand(part), w) <=> Compare(w, part.v) = 0
    BY <2>1, <2>2 DEF Matches
  <2> QED
    BY <1>2, <1>3, <2>3 DEF Fits
<1>4. CASE part.op = "="
  <2>1. Matches(Expand(part), w) <=> Compare(w, part.v) = 0
    BY <1>4 DEF Matches, Expand
  <2> QED
    BY <1>2, <1>4, <2>1 DEF Fits
<1>5. CASE part.op = ">="
  <2>1. Matches(Expand(part), w) <=> Compare(w, part.v) >= 0
    BY <1>5 DEF Matches, Expand
  <2> QED
    BY <1>2, <1>5, <2>1 DEF Fits
<1>6. CASE part.op = "<="
  <2>1. Matches(Expand(part), w) <=> Compare(w, part.v) <= 0
    BY <1>6 DEF Matches, Expand
  <2> QED
    BY <1>2, <1>6, <2>1 DEF Fits
<1>7. CASE part.op = ">"
  <2>1. Matches(Expand(part), w) <=> Compare(w, part.v) > 0
    BY <1>7 DEF Matches, Expand
  <2> QED
    BY <1>2, <1>7, <2>1 DEF Fits
<1>8. CASE part.op = "<"
  <2>1. Matches(Expand(part), w) <=> Compare(w, part.v) < 0
    BY <1>8 DEF Matches, Expand
  <2> QED
    BY <1>2, <1>8, <2>1 DEF Fits
<1> QED
  BY <1>1, <1>3, <1>4, <1>5, <1>6, <1>7, <1>8, RangeFits

\* What is measured against the Ladder: the parts of a constraint together, on a list.
LEMMA PartsFit ==
  ASSUME LadderMeasures, NEW parts \in Constraints, IsRange(parts), NEW w \in OnLadder
  PROVE  Matches(ParseRange(parts), w) <=> \A part \in parts : Fits(part, w)
<1>1. Matches(ParseRange(parts), w) <=> \A part \in parts : Matches(Expand(part), w)
  BY DEF Matches, ParseRange
<1>2. \A part \in parts : part \in UNION Constraints /\ Parses(part.v)
  BY DEF IsRange
<1> QED
  BY <1>1, <1>2, PartFits

LEMMA ListMeasures ==
  ASSUME LadderMeasures, NEW list, list \in Seq(Range(list)),
         \A v \in Range(list) : Parses(v) => v \in OnLadder,
         NEW parts \in Constraints, IsRange(parts), NEW pre \in BOOLEAN
  PROVE  LET best == Resolve(ParseRange(parts), list, pre)
             fits == {w \in Range(list) \cap OnLadder :
                        /\ IsPrerelease(w) => pre
                        /\ \A part \in parts : Fits(part, w)}
         IN  IF fits = {} THEN best = NoMatch
             ELSE best \in fits /\ \A w \in fits : Rank(w) <= Rank(best)
<1> DEFINE best == Resolve(ParseRange(parts), list, pre)
           fits == {w \in Range(list) \cap OnLadder :
                      /\ IsPrerelease(w) => pre
                      /\ \A part \in parts : Fits(part, w)}
           suited == {i \in DOMAIN list : Suits(ParseRange(parts), list[i], pre)}
<1>1. \A v : v \in Range(list) <=> \E i \in DOMAIN list : list[i] = v
  BY DEF Range
<1>2. \A v \in OnLadder : Parses(v) /\ v \in Versions
  <2>1. \A v \in Versions : v.num # <<>>
    <3>1. \A v \in Versions : DOMAIN v.num = 1..3
      BY VersionNumbers
    <3>2. 1 \notin DOMAIN <<>>
      OBVIOUS
    <3> QED
      BY <3>1, <3>2
  <2> QED
    BY <2>1, RankFacts DEF Parses
<1>3. \A i \in DOMAIN list : Suits(ParseRange(parts), list[i], pre) <=> list[i] \in fits
  <2> SUFFICES ASSUME NEW i \in DOMAIN list
               PROVE  Suits(ParseRange(parts), list[i], pre) <=> list[i] \in fits
    OBVIOUS
  <2>1. list[i] \in Range(list) /\ (Parses(list[i]) <=> list[i] \in OnLadder)
    BY <1>1, <1>2
  <2>2. list[i] \in OnLadder =>
          (Matches(ParseRange(parts), list[i]) <=> \A part \in parts : Fits(part, list[i]))
    BY PartsFit
  <2> QED
    BY <2>1, <2>2 DEF Suits
<1>4. /\ suited = {} => best = NoMatch
      /\ suited # {} => \E i \in suited : best = list[i]
      /\ \A i \in suited : Compare(list[i], best) \in {-1, 0}
  <2>1. list \in Seq({list[i] : i \in DOMAIN list})
    BY DEF Range
  <2>2. \A i \in DOMAIN list : Parses(list[i]) => list[i] \in Versions
    BY <1>1, <1>2
  <2> QED
    BY <2>1, <2>2, ResolveTakesHighest
<1>5. \A w \in fits : w \in OnLadder /\ \E i \in suited : w = list[i]
  BY <1>1, <1>3
<1>6. \A i \in suited : list[i] \in fits
  BY <1>3
<1> HIDE DEF best, fits, suited
<1>7. fits = {} => best = NoMatch
  BY <1>4, <1>5, <1>6
<1>8. ASSUME fits # {} PROVE best \in fits /\ \A w \in fits : Rank(w) <= Rank(best)
  <2>1. best \in fits /\ best \in OnLadder
    BY <1>4, <1>5, <1>6, <1>8
  <2>2. ASSUME NEW w \in fits PROVE Rank(w) <= Rank(best)
    <3>1. w \in OnLadder /\ Compare(w, best) \in {-1, 0}
      BY <1>4, <1>5
    <3>2. Rank(w) \in Nat /\ Rank(best) \in Nat
      BY <2>1, <3>1, RankFacts
    <3> QED
      BY <2>1, <3>1, <3>2, RankOrder
  <2> QED
    BY <2>1, <2>2
<1>9. IF fits = {} THEN best = NoMatch ELSE best \in fits /\ \A w \in fits : Rank(w) <= Rank(best)
  BY <1>7, <1>8
<1> QED
  BY <1>9 DEF best, fits

LEMMA VersionMeasures ==
  ASSUME LadderMeasures, NEW entry \in Entries, NEW parts \in Constraints, NEW pre \in BOOLEAN,
         asked' = [entry |-> entry, parts |-> parts, pre |-> pre],
         version' = ResolveVersion(entry, parts, pre)
  PROVE  ResolvesHighest'
<1> SUFFICES ASSUME IsRange(parts) PROVE ResolvesHighest'
  BY DEF ResolvesHighest
<1> DEFINE listed == IF entry.versions = <<>> /\ entry.latest # Blank
                     THEN <<entry.latest>> ELSE entry.versions
           all    == IF entry.versions = <<>> THEN {entry.latest} ELSE Range(entry.versions)
<1>1. version' = Resolve(ParseRange(parts), listed, pre)
  BY DEF ResolveVersion, IsRange
<1>2. /\ entry.versions \in Seq(Range(entry.versions))
      /\ \A v \in Range(entry.versions) \cup {entry.latest} : Parses(v) => v \in OnLadder
  BY DEF LadderMeasures
<1>3. Blank \notin OnLadder
  <2>1. Blank \notin Versions
    BY DEF Blank, Versions
  <2> QED
    BY <2>1, RankFacts
<1>4. /\ listed \in Seq(Range(listed))
      /\ \A v \in Range(listed) : Parses(v) => v \in OnLadder
      /\ Range(listed) \cap OnLadder = all \cap OnLadder
  <2>1. CASE entry.versions = <<>> /\ entry.latest # Blank
    <3>1. Range(<<entry.latest>>) = {entry.latest} /\ <<entry.latest>> \in Seq({entry.latest})
      BY DEF Range
    <3> QED
      BY <1>2, <2>1, <3>1
  <2>2. CASE entry.versions = <<>> /\ entry.latest = Blank
    <3>1. Range(<<>>) = {}
      BY DEF Range
    <3> QED
      BY <1>2, <1>3, <2>2, <3>1
  <2>3. CASE entry.versions # <<>>
    BY <1>2, <2>3
  <2> QED
    BY <2>1, <2>2, <2>3
<1> HIDE DEF listed, all
<1> DEFINE fits == {w \in all \cap OnLadder : /\ IsPrerelease(w) => pre
                                           /\ \A part \in parts : Fits(part, w)}
<1>5. IF fits = {} THEN version' = NoMatch
      ELSE version' \in fits /\ \A w \in fits : Rank(w) <= Rank(version')
  BY <1>1, <1>4, ListMeasures
<1> QED
  BY <1>5 DEF ResolvesHighest, IsHighest, all

\* Measured by any ladder in order that has what is listed and asked for: a constraint is resolved
\* to the highest version on the list that fits all its parts, and to none only if none does
\* (registry.go: ResolveVersion; range.go: ParseRange, Resolve).
THEOREM ResolvedIsHighest ==
  ASSUME LadderMeasures PROVE Spec => []ResolvesHighest
<1>1. Init => ResolvesHighest
  BY DEF Init, ResolvesHighest
<1>2. ASSUME ResolvesHighest, [Next]_vars PROVE ResolvesHighest'
  <2>1. CASE ResolveStep
    BY <2>1, VersionMeasures DEF ResolveStep
  <2>2. CASE UNCHANGED vars
    BY <1>2, <2>2 DEF vars, resolution, ResolvesHighest
  <2>3. CASE Next /\ ~ResolveStep
    <3>1. CASE Begin \/ NextPlugin \/ Route \/ Downloaded \/ ReleaseFails \/ Manifest \/ Decide \/ NoTier
      BY <3>1 DEF Begin, NextPlugin, Install, Route, Downloaded, ReleaseFails, Manifest, Decide,
         NoTier, Goto, Refuse, ResolvesHighest
    <3>2. CASE DownloadStep \/ Clone \/ Verify \/ Trust \/ Bundle \/ Expire
      BY <3>2 DEF DownloadStep, Clone, Verify, Trust, Load, Bundle, Expire, Accept, Goto,
         Refuse, ResolvesHighest
    <3> QED
      BY <2>3, <3>1, <3>2 DEF Next
  <2> QED
    BY <1>2, <2>1, <2>2, <2>3
<1> QED
  BY <1>1, <1>2, PTL DEF Spec
=============================================================================
