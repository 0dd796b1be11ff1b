------------------------------ MODULE Matching -------------------------------
(***************************************************************************)
(* How ReportEngine decides that a row of cve_affected_products affects a  *)
(* dependency: parseVersion, VersionNumber::compare, versionInRange, the   *)
(* join and the loop of findMatchingCves.  No state: BlueDuck's AffectedBy *)
(* is what Affects says of the rows of a CVE.                              *)
(*                                                                         *)
(* The text of a version is the list of its dotted components, after a     *)
(* leading v, and what follows the first "-" or "+"; such suffixes are     *)
(* numbered in the byte order std::string compares them in, 0 for none.    *)
(* A component is a number or text that does not begin with one.           *)
(***************************************************************************)
EXTENDS Integers, Sequences

CONSTANTS
    Word,      \* 2^32, the range of uint32_t
    Long,      \* 2^64, the range of what stoul returns
    Junk,      \* a component that is not a number
    Ecosystem,
    Letters    \* package names without their case and punctuation

ASSUME WidthAssumption ==
    Word \in Nat \ {0} /\ Long \in Nat /\ Word <= Long /\ Junk \notin Nat

Component == Nat \cup {Junk}
Text      == [parts : Seq(Component), pre : Nat]
Version   == [parts : Seq(0 .. Word - 1), pre : Nat]
NoText    == [parts |-> << >>, pre |-> 0]

-----------------------------------------------------------------------------

\* std::stoul takes c: it throws on junk and beyond its range.
Numeric(c) == c # Junk /\ c < Long

\* The components before the first one that makes the loop break.
Parsed(t) == {i \in 1 .. Len(t.parts) : \A k \in 1 .. i : Numeric(t.parts[k])}

\* parseVersion, with the cast to uint32_t.
ParseVersion(t) ==
    [parts |-> [i \in Parsed(t) |-> t.parts[i] % Word], pre |-> t.pre]

Empty(v) == v.parts = << >>

\* Component i of a version, 0 past its end.
Part(v, i) == IF i \in DOMAIN v.parts THEN v.parts[i] ELSE 0

Places(v, w) == 1 .. (IF Len(v.parts) < Len(w.parts) THEN Len(w.parts) ELSE Len(v.parts))

\* A slip: only the places both versions have are compared.
LessInCommon(v, w) ==
    \E i \in DOMAIN v.parts \cap DOMAIN w.parts :
        Part(v, i) < Part(w, i) /\ \A k \in 1 .. i - 1 : Part(v, k) = Part(w, k)

\* v is smaller in the first place where they differ.
Less(v, w) ==
    \E i \in Places(v, w) :
        Part(v, i) < Part(w, i) /\ \A k \in 1 .. i - 1 : Part(v, k) = Part(w, k)

\* A slip: a version without a suffix comes first, as its text does.
PreLessAsText(p, q) == p < q

\* The suffixes compared: a version with one comes before the version.
PreLess(p, q) == (p # 0 /\ q = 0) \/ (p # 0 /\ q # 0 /\ p < q)

\* VersionNumber::compare.
Compare(v, w) ==
    CASE Less(v, w) -> -1
      [] Less(w, v) -> 1
      [] OTHER -> CASE PreLess(v.pre, w.pre) -> -1
                    [] PreLess(w.pre, v.pre) -> 1
                    [] OTHER -> 0

CompareTexts(s, t) == Compare(ParseVersion(s), ParseVersion(t))

\* A range of cve_affected_products, NoText where a column is NULL or empty.
VersionRange == [exact : Text, startInc : Text, startExc : Text, endInc : Text, endExc : Text]
AnyVersion   == [exact |-> NoText, startInc |-> NoText, startExc |-> NoText,
                 endInc |-> NoText, endExc |-> NoText]

\* A slip: the last version of a half-open range is in it.
BelowEndIncluded(t, r) ==
    /\ r.endInc # NoText => CompareTexts(t, r.endInc) <= 0
    /\ r.endExc # NoText => CompareTexts(t, r.endExc) <= 0

BelowEnd(t, r) ==
    /\ r.endInc # NoText => CompareTexts(t, r.endInc) <= 0
    /\ r.endExc # NoText => CompareTexts(t, r.endExc) < 0

VersionInRange(t, r) ==
    /\ t # NoText /\ ~ Empty(ParseVersion(t))
    /\ IF r.exact # NoText THEN CompareTexts(t, r.exact) = 0
       ELSE /\ r.startInc # NoText => CompareTexts(t, r.startInc) >= 0
            /\ r.startExc # NoText => CompareTexts(t, r.startExc) > 0
            /\ BelowEnd(t, r)

\* A dependency of version text t is in range r, as findMatchingCves sees it.
Affects(t, r) == r = AnyVersion \/ (t # NoText /\ VersionInRange(t, r))

-----------------------------------------------------------------------------

\* A name: its letters, whether some are upper case, and whether it has a
\* "-" where another spelling has "_".
Name == [letters : Letters, upper : BOOLEAN, dash : BOOLEAN]

\* LOWER(package_name).
Lower(n) == [n EXCEPT !.upper = FALSE]

\* normalizePackageName.
Normalize(n, ecosystem) ==
    CASE ecosystem = "pypi"  -> [n EXCEPT !.upper = FALSE, !.dash = FALSE]
      [] ecosystem = "nuget" -> Lower(n)
      [] OTHER               -> n

\* The direct match of the join.
NamesAgree(dep, row) ==
    /\ row.ecosystem = dep.ecosystem
    /\ Lower(row.package) = Lower(Normalize(dep.package, dep.ecosystem))

\* The WHERE of findMatchingCves, cpes the mapping of the dependency.
Joins(dep, row, cpes) == NamesAgree(dep, row) \/ row.cpe \in cpes
=============================================================================
