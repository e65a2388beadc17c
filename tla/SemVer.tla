-------------------------------- MODULE SemVer --------------------------------
(***************************************************************************)
(* Versions, ranges and resolution: internal/plugin/semver/version.go and    *)
(* range.go, with ResolveVersion of internal/plugin/registry/registry.go.    *)
(*                                                                         *)
(* A version is its three numbers and its prerelease identifiers; build      *)
(* metadata takes no part in anything.  An identifier is a number or a text,  *)
(* and a text is its place in the lexical order.  A string that is no        *)
(* version has no numbers; Blank is the empty one.                           *)
(***************************************************************************)
EXTENDS Integers, Sequences

Version(major, minor, patch) == [num |-> <<major, minor, patch>>, pre |-> <<>>]
Prerelease(v, identifiers)   == [v EXCEPT !.pre = identifiers]
Number(n) == [numeric |-> TRUE, rank |-> n]
Text(n)   == [numeric |-> FALSE, rank |-> n]

Blank     == [num |-> <<>>, pre |-> <<>>]
Parses(v) == v.num # <<>>
IsPrerelease(v) == v.pre # <<>>

Identifiers == [numeric : BOOLEAN, rank : Int]
Versions    == {v \in [num : Seq(Nat), pre : Seq(Identifiers)] : Len(v.num) = 3}

-----------------------------------------------------------------------------
CmpInt(a, b) == IF a < b THEN -1 ELSE IF a > b THEN 1 ELSE 0

(* Numbers come before texts. *)
CmpIdent(a, b) == CASE a.numeric = b.numeric    -> CmpInt(a.rank, b.rank)
                    [] a.numeric /\ ~b.numeric -> -1
                    [] ~a.numeric /\ b.numeric -> 1

(* Place by place the first difference decides, and else the length. *)
Lexical(places, lengths) ==
    LET differ == {i \in DOMAIN places : places[i] # 0}
    IN  IF differ = {} THEN lengths
        ELSE places[CHOOSE i \in differ : \A j \in differ : i <= j]

Compare(a, b) ==
    IF a.num # b.num
    THEN Lexical([i \in 1..3 |-> CmpInt(a.num[i], b.num[i])], 0)
    ELSE CASE IsPrerelease(a) /\ IsPrerelease(b)  ->
                Lexical([i \in DOMAIN a.pre \cap DOMAIN b.pre |-> CmpIdent(a.pre[i], b.pre[i])],
                        CmpInt(Len(a.pre), Len(b.pre)))
           [] IsPrerelease(a) /\ ~IsPrerelease(b) -> -1
           [] ~IsPrerelease(a) /\ IsPrerelease(b) -> 1
           [] OTHER                               -> 0

-----------------------------------------------------------------------------
Bound(op, v) == [op |-> op, v |-> v]

\* Mutant: the next major version ends every caret range.
NextMajor(v) == Version(v.num[1] + 1, 0, 0)

(* The leftmost number that is not zero is the one that must not change. *)
NextCaretUpper(v) ==
    CASE v.num[1] > 0                   -> Version(v.num[1] + 1, 0, 0)
      [] v.num[1] = 0 /\ v.num[2] > 0   -> Version(0, v.num[2] + 1, 0)
      [] v.num[1] = 0 /\ v.num[2] = 0   -> Version(0, 0, v.num[3] + 1)

(* One part of a constraint: ^v, ~v, >=v, <=v, >v, <v, =v or v alone. *)
Expand(part) ==
    LET v == part.v IN
    CASE part.op = "^" -> {Bound(">=", v), Bound("<", NextCaretUpper(v))}
      [] part.op = "~" -> {Bound(">=", v), Bound("<", Version(v.num[1], v.num[2] + 1, 0))}
      [] part.op = ""  -> {Bound("=", v)}
      [] OTHER         -> {part}

IsRange(parts)    == parts # {} /\ \A part \in parts : Parses(part.v)
ParseRange(parts) == UNION {Expand(part) : part \in parts}

Matches(bounds, v) ==
    \A b \in bounds :
        LET c == Compare(v, b.v) IN
        CASE b.op = ">=" -> c >= 0
          [] b.op = ">"  -> c > 0
          [] b.op = "<=" -> c <= 0
          [] b.op = "<"  -> c < 0
          [] b.op = "="  -> c = 0

NoMatch == [num |-> <<-1>>, pre |-> <<>>]

Suits(bounds, v, allowPrerelease) ==
    /\ Parses(v)
    /\ IsPrerelease(v) => allowPrerelease
    /\ Matches(bounds, v)

(* The list is gone through once; what does not parse is not on it. *)
Resolve(bounds, available, allowPrerelease) ==
    LET best[i \in 0..Len(available)] ==
            IF i = 0 THEN NoMatch
            ELSE LET v == available[i]
                     sofar == best[i - 1]
                 IN  IF /\ Suits(bounds, v, allowPrerelease)
                        /\ sofar = NoMatch \/ Compare(v, sofar) > 0
                     THEN v ELSE sofar
    IN  best[Len(available)]

(* A registry's entry lists versions and names the latest (Blank: it does not).
   A constraint is a set of parts; the empty one stands for "" and "*". *)
ResolveVersion(entry, parts, allowPrerelease) ==
    LET listed == IF entry.versions = <<>> /\ entry.latest # Blank
                  THEN <<entry.latest>> ELSE entry.versions
    IN  CASE parts = {} /\ entry.latest # Blank -> entry.latest
          [] parts = {} /\ entry.latest = Blank ->
               (IF listed # <<>> THEN listed[Len(listed)] ELSE NoMatch)
          [] parts # {} /\ ~IsRange(parts)     -> NoMatch
          [] OTHER -> Resolve(ParseRange(parts), listed, allowPrerelease)
=============================================================================
