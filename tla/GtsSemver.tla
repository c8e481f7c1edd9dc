----------------------------- MODULE GtsSemver ------------------------------
(***************************************************************************)
(* The semver module of GTS scripts (stdlib/modules/semver.rs): versions   *)
(* are read from texts, compared, incremented and held against ranges.     *)
(*                                                                         *)
(* A text is split at its first "+", "-" and at its dots:                  *)
(*   [vs, main, pre, build]   vs letters "v", then three lists of segments *)
(* A segment is [kind, n]: kind "num" for digits of value n, "zeros" for   *)
(* the same with a leading zero, "word" for other letters, n giving their  *)
(* order, "empty", and "sign" for a character that is not allowed.         *)
(***************************************************************************)
EXTENDS Integers, Sequences, SequencesExt

CONSTANTS VersionTexts, \* texts a script gives
          Ranges,       \* [kind |-> "^" | "~" | "bare", text], or [kind |-> "pairs", parts]
          U64,          \* numbers are below it
          MaxIncs       \* increments of a script

ASSUME U64Assumption == U64 \in Nat \ {0, 1}

VARIABLES given,    \* three texts of the script
          before,   \* the version last incremented and the release asked for: <<>>, or <<v, release>>
          incs

semverVars == <<given, before, incs>>

Seg(kind, n) == [kind |-> kind, n |-> n]
NumberText(n) == Seg("num", n)
NoVersion == [valid |-> FALSE]

\* parse::<u64>
IsNumber(s) == s.kind \in {"num", "zeros"} /\ s.n < U64

\* valid_pre_segment, valid_meta_segment
ValidSegment(s) == s.kind \in {"num", "zeros", "word"}

\* What follows a "-" or "+" and is empty counts as not there.
Segments(list) == IF list = <<Seg("empty", 0)>> THEN <<>> ELSE list

\* parse_semver
ParseVersion(t) ==
    IF /\ t.vs <= 1
       /\ Len(t.main) = 3
       /\ \A i \in 1..3 : IsNumber(t.main[i])
       /\ \A part \in {t.pre, t.build} : \A i \in DOMAIN Segments(part) : ValidSegment(part[i])
    THEN [valid |-> TRUE, major |-> t.main[1].n, minor |-> t.main[2].n, patch |-> t.main[3].n,
          pre |-> Segments(t.pre), build |-> Segments(t.build)]
    ELSE NoVersion

\* semver_to_object: numbers lose their zeros
VersionObject(v) ==
    [major |-> v.major, minor |-> v.minor, patch |-> v.patch, build |-> v.build,
     prerelease |-> [i \in DOMAIN v.pre |-> IF IsNumber(v.pre[i]) THEN NumberText(v.pre[i].n) ELSE v.pre[i]]]

Sign(x, y) == IF x > y THEN 1 ELSE IF x < y THEN -1 ELSE 0

\* The order of strings; digits that are no u64 come before letters.
TextRank(s) == IF s.kind = "word" THEN s.n ELSE -1

CompareSegments(a, b) ==
    CASE IsNumber(a) /\ IsNumber(b)   -> Sign(a.n, b.n)
      [] IsNumber(a) /\ ~IsNumber(b)  -> -1
      [] ~IsNumber(a) /\ IsNumber(b)  -> 1
      [] ~IsNumber(a) /\ ~IsNumber(b) -> Sign(TextRank(a), TextRank(b))

ComparePrerelease(a, b) ==
    LET common == 1..(IF Len(a) < Len(b) THEN Len(a) ELSE Len(b))
        differ == {i \in common : CompareSegments(a[i], b[i]) # 0}
    IN  CASE a = <<>> /\ b = <<>> -> 0
          [] a = <<>> /\ b # <<>> -> 1
          [] a # <<>> /\ b = <<>> -> -1
          [] OTHER -> IF differ = {} THEN Sign(Len(a), Len(b))
                      ELSE LET i == CHOOSE i \in differ : \A j \in differ : i <= j IN CompareSegments(a[i], b[i])

\* compare_semver
CompareVersions(a, b) ==
    CASE a.major # b.major -> Sign(a.major, b.major)
      [] a.major = b.major /\ a.minor # b.minor -> Sign(a.minor, b.minor)
      [] a.major = b.major /\ a.minor = b.minor /\ a.patch # b.patch -> Sign(a.patch, b.patch)
      [] OTHER -> ComparePrerelease(a.pre, b.pre)

\* semver.gt and its like: an error, or what the comparison says
Holds(op, a, b) ==
    LET c == CompareVersions(a, b)
    IN  CASE op = ">"  -> c > 0
          [] op = ">=" -> c >= 0
          [] op = "<"  -> c < 0
          [] op = "<=" -> c <= 0
          [] op \in {"=", "=="} -> c = 0
          [] op = "!=" -> c # 0
TwoVersions(op, t, u) ==
    LET a == ParseVersion(t) b == ParseVersion(u)
    IN  IF a.valid /\ b.valid THEN IF Holds(op, a, b) THEN "true" ELSE "false" ELSE "error"

\* inc_semver gives a text; u64 wraps in a release build.
IncText(v, release) ==
    LET Plus(n) == (n + 1) % U64
        core == CASE release = "major" -> <<Plus(v.major), 0, 0>>
                  [] release = "minor" -> <<v.major, Plus(v.minor), 0>>
                  [] release \in {"patch", "prerelease"} -> <<v.major, v.minor, Plus(v.patch)>>
    IN  [vs |-> 0, main |-> [i \in 1..3 |-> NumberText(core[i])],
         pre |-> IF release = "prerelease" THEN <<NumberText(0)>> ELSE <<>>, build |-> <<>>]

\* satisfies_range: "true", "false" or "error".  The words of a range are
\* taken two by two, <<op, text>>; a pair whose second word is no version
\* asks for nothing, and neither does one whose first is no operator.
Satisfies(v, range) ==
    LET base == ParseVersion(range.text)
        Within(ok) == IF ok THEN "true" ELSE "false"
    IN  CASE range.kind = "^" ->
                 IF ~base.valid THEN "error" ELSE Within(v.major = base.major /\ Holds(">=", v, base))
          [] range.kind = "~" ->
                 IF ~base.valid THEN "error"
                 ELSE Within(v.major = base.major /\ v.minor = base.minor /\ Holds(">=", v, base))
          [] range.kind = "pairs" ->
                 Within(\A i \in DOMAIN range.parts :
                            LET rhs == ParseVersion(range.parts[i][2])
                            IN  rhs.valid /\ range.parts[i][1] \in {">", ">=", "<", "<=", "=", "=="}
                                    => Holds(range.parts[i][1], v, rhs))
          [] range.kind = "bare" -> Within(base.valid /\ Holds("=", v, base))

---------------------------------------------------------------------------
SemverInit ==
    /\ given \in [1..3 -> VersionTexts]
    /\ before = <<>>
    /\ incs = 0

\* semver.inc of the first version; a text that is no version is an error.
SemverInc(release) ==
    /\ incs < MaxIncs
    /\ incs' = incs + 1
    /\ LET v == ParseVersion(given[1])
       IN  /\ v.valid
           /\ before' = <<v, release>>
           /\ given' = [given EXCEPT ![1] = IncText(v, release)]

SemverNext == \E release \in {"major", "minor", "patch", "prerelease"} : SemverInc(release)

---------------------------------------------------------------------------
\* The comparison of versions is a total order in which two versions are
\* equal exactly when they show the same object but for the build; what an
\* increment gives is a version, and a greater one unless the number was the
\* last; and a range, in whatever form, is an interval of that order.
SemverOrder ==
    LET v == [i \in DOMAIN given |-> ParseVersion(given[i])]
        Core(o) == [o EXCEPT !.build = <<>>]
    IN  /\ \A i, j \in DOMAIN v : TwoVersions(">=", given[i], given[j]) = TwoVersions("<=", given[j], given[i])
        /\ \A i, j \in DOMAIN v : v[i].valid /\ v[j].valid =>
              /\ CompareVersions(v[i], v[j]) = -CompareVersions(v[j], v[i])
              /\ CompareVersions(v[i], v[j]) = 0 <=> Core(VersionObject(v[i])) = Core(VersionObject(v[j]))
        /\ \A i \in DOMAIN before :
              i = 1 => /\ v[1].valid
                       /\ \/ Holds(">", v[1], before[1])
                          \/ U64 - 1 \in {before[1].major, before[1].minor, before[1].patch}
        /\ \A i, j, k \in DOMAIN v :
              v[i].valid /\ v[j].valid /\ v[k].valid /\ Holds("<=", v[i], v[j]) /\ Holds("<=", v[j], v[k]) =>
                  /\ Holds("<=", v[i], v[k])
                  /\ \A range \in Ranges : Satisfies(v[i], range) = "true" /\ Satisfies(v[k], range) = "true"
                                               => Satisfies(v[j], range) = "true"
=============================================================================
