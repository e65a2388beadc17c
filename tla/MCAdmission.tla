----------------------------- MODULE MCAdmission -----------------------------
(* Instance of Admission for TLC.  Ladder lists versions in ascending order  *)
(* by the rules of SemVer 2.0, and is what resolution is measured against.   *)
EXTENDS Admission

V1       == Version(1, 0, 0)
V2       == Version(2, 0, 0)
MCLadder == << Version(0, 0, 1), Version(0, 0, 2), Version(0, 1, 0), Version(0, 2, 0),
               Prerelease(V1, <<Number(2)>>), Prerelease(V1, <<Number(11)>>),
               Prerelease(V1, <<Text(1)>>), Prerelease(V1, <<Text(1), Number(1)>>),
               V1, Version(1, 0, 3), Version(1, 1, 0),
               Prerelease(V2, <<Text(2)>>), V2 >>
Odd    == [num |-> <<>>, pre |-> <<Text(1)>>]
Lists  == UNION {[1..n -> Range(MCLadder)] : n \in 0..2}
             \cup {<<a, Odd, b>> : a, b \in {V1, V2}}

MCEntries == {[versions |-> l, latest |-> Blank] : l \in Lists}
                \cup {[versions |-> l, latest |-> v] : l \in {<<>>, <<V2, V1>>}, v \in {V1, Odd}}
Bases     == {Version(0, 0, 1), Version(0, 1, 0), Prerelease(V1, <<Text(1)>>), V1}
MCConstraints ==
    {{}, {Bound("^", Odd)}, {Bound(">", Version(0, 0, 1)), Bound("<", V2)}}
       \cup {{Bound(op, v)} : op \in {"^", "~", "", ">=", "<="}, v \in Bases}

(* Every kind with all that it needs, and with one thing wrong or different. *)
Fine == [name |-> "fine", version |-> TRUE, kind |-> "skill", requires |-> TRUE,
         module |-> TRUE, exports |-> "fine", image |-> "pinned",
         framework |-> "fine", protocol |-> "fine"]
MCManifests ==
    UNION {{m, [m EXCEPT !.name = "odd"], [m EXCEPT !.version = FALSE],
            [m EXCEPT !.requires = FALSE], [m EXCEPT !.module = FALSE],
            [m EXCEPT !.exports = "none"], [m EXCEPT !.exports = "reserved"],
            [m EXCEPT !.image = "tag"], [m EXCEPT !.framework = "odd"],
            [m EXCEPT !.protocol = "odd"]} :
              m \in {[Fine EXCEPT !.kind = k] : k \in Kinds \cup {"", "odd"}}}

ASSUME LadderAssumption == LadderMeasures

\* Two digests with the same first characters, and the first of them with a suffix.
MCShort(d) == IF d = "none" THEN "none" ELSE "d"

MCRequired == <<"module", "manifest">>
MCOptional == <<"bundle">>
=============================================================================
