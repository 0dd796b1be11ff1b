----------------------------- MODULE MCMatching -----------------------------
(***************************************************************************)
(* From a manifest to the CVEs that match: Matching over every three       *)
(* version texts of up to two components, with words of four values,       *)
(* Manifests over every short Cargo.toml and CMake file and every pair of  *)
(* pinned entries, and CpeMappings with its lookups.  An input never       *)
(* changes; the mappings move beside the one input "lookup".               *)
(***************************************************************************)
EXTENDS CpeMappings, Manifests

CONSTANTS MaxPlaces, MaxPre, MaxLines, MaxCalls, libA, libB, cpeA, cpeB

ASSUME BoundsAssumption == MaxPlaces \in Nat /\ MaxPre \in Nat /\ MaxLines \in Nat /\ MaxCalls \in Nat

\* The manifests that pin a version, and a word that holds those of Pins.
ASSUME PinsAssumption == Ecosystem \subseteq {"npm", "cargo", "pypi", "nuget"} /\ 1 < Word

VARIABLE input

vars == << input, cpeVars >>

Lists(S, n) == UNION {[1 .. k -> S] : k \in 0 .. n}

\* 5 is beyond a word of four values, 17 beyond what stoul takes.
Components == {0, 1, 3, 5, 17, Junk}

Texts == [parts : UNION {[1 .. n -> Components] : n \in 0 .. MaxPlaces}, pre : 0 .. MaxPre]

OneZero == [parts |-> << 1, 0 >>, pre |-> 0]
OneOne  == [parts |-> << 1, 1 >>, pre |-> 0]
JustOne == [parts |-> << 1 >>, pre |-> 0]

PlainName(l) == [letters |-> l, upper |-> FALSE, dash |-> FALSE]

TomlLines ==
    {Header(d, o) : d \in BOOLEAN, o \in BOOLEAN}
        \cup {TomlEntry(PlainName(l), b) : l \in Letters, b \in {<< >>, << OneZero >>}}

\* Calls one after the other, gap characters between a name and its tag.
Placed(cs) ==
    LET at[i \in DOMAIN cs] ==
            IF i = 1 THEN 1 ELSE at[i - 1] + cs[i - 1].gap + Len(cs[i - 1].text.parts) + 1
    IN [i \in DOMAIN cs |->
            Call(cs[i].fetch, PlainName(cs[i].letters), cs[i].text, at[i], at[i] + cs[i].gap)]

CmakeCalls == [fetch : BOOLEAN, letters : Letters, text : {OneZero, OneOne, NoText}, gap : {0, 4}]

\* An entry that pins a version, in the plain way or in the other way its
\* ecosystem has: in setup.cfg, or as an interval ("[1.0]").
Pins == [name : Name, bounds : {<< v >> : v \in {OneZero, OneOne, JustOne}}, plain : BOOLEAN]

Products == [ecosystem : Ecosystem, package : Name, cpe : {0}, version : {OneZero, OneOne}]

\* Python's names are stored with "_", the requests may write "-" or "_".
MCSpelling == {[PlainName(libA) EXCEPT !.dash = b] : b \in BOOLEAN}

MCDependency == {[ecosystem |-> "pypi", package |-> PlainName(libA)]}

MCProduct ==
    {[ecosystem |-> "pypi", package |-> PlainName(libA), cpe |-> NoCpe],
     [ecosystem |-> "pypi", package |-> PlainName(libB), cpe |-> BlankCpe]}
        \cup {[ecosystem |-> "npm", package |-> PlainName(libA), cpe |-> c] : c \in {cpeA, cpeB}}

Inputs ==
    \/ \E t \in Texts, lo \in Texts, hi \in Texts :
          input = [of |-> "versions", t |-> t, lo |-> lo, hi |-> hi]
    \/ \E l \in Lists(TomlLines, MaxLines) : input = [of |-> "toml", lines |-> l]
    \/ \E c \in Lists(CmakeCalls, MaxCalls) : input = [of |-> "cmake", calls |-> Placed(c)]
    \/ \E d \in Lists(Pins, 2), p \in Products : input = [of |-> "pins", entries |-> d, product |-> p]
    \/ input = [of |-> "lookup"]

Init == Inputs /\ CpeInit

Next ==
    \/ input.of = "lookup" /\ CpeNext /\ UNCHANGED input
    \/ input.of # "lookup" /\ UNCHANGED vars

Spec == Init /\ [][Next]_vars

-----------------------------------------------------------------------------

(***************************************************************************)
(* compare is a total preorder on versions, so that ranges have no holes:  *)
(* any two compare one way, and being below is transitive, whatever their  *)
(* lengths and suffixes (VersionNumber::compare).                          *)
(***************************************************************************)
CompareIsAnOrder ==
    input.of = "versions" =>
        LET t == input.t
            lo == input.lo
            hi == input.hi
        IN /\ CompareTexts(t, lo) = - CompareTexts(lo, t)
           /\ CompareTexts(t, lo) <= 0 /\ CompareTexts(lo, hi) <= 0 => CompareTexts(t, hi) <= 0

\* A text of numbers that fit, without a suffix, and its value when a place
\* is worth more than any component.
Plain(x) == x.pre = 0 /\ \A i \in DOMAIN x.parts : x.parts[i] # Junk /\ x.parts[i] < Word
Digit(x, i) == IF i \in DOMAIN x.parts THEN x.parts[i] ELSE 0
Value(x) == LET v[i \in 0 .. MaxPlaces] == IF i = 0 THEN 0 ELSE Word * v[i - 1] + Digit(x, i)
            IN v[MaxPlaces]

(***************************************************************************)
(* A half-open, a closed, an open and an exact range contain the versions  *)
(* whose numbers say so, short versions padded; a pre-release of a fixed   *)
(* version is still in the range that ends with it (versionInRange).       *)
(***************************************************************************)
RangesAsNumbers ==
    input.of = "versions" =>
        LET t == input.t
            lo == input.lo
            hi == input.hi
            x == Value(t)
            \* A suffix puts a version just below its number.
            atLeast(b) == x > b \/ (x = b /\ t.pre = 0)
        IN /\ Plain(lo) /\ lo # NoText
           /\ Plain(hi) /\ hi # NoText
           /\ Plain([t EXCEPT !.pre = 0]) /\ t.parts # << >>
           => /\ VersionInRange(t, [AnyVersion EXCEPT !.startInc = lo, !.endExc = hi]) <=>
                    atLeast(Value(lo)) /\ ~ atLeast(Value(hi))
              /\ VersionInRange(t, [AnyVersion EXCEPT !.startInc = lo, !.endInc = hi]) <=>
                    atLeast(Value(lo)) /\ x <= Value(hi)
              /\ VersionInRange(t, [AnyVersion EXCEPT !.startExc = lo, !.endExc = hi]) <=>
                    x > Value(lo) /\ ~ atLeast(Value(hi))
              /\ VersionInRange(t, [AnyVersion EXCEPT !.exact = lo]) <=>
                    x = Value(lo) /\ t.pre = 0

\* The entries that stand below a header of a dependency table, as TOML
\* has it, and have a version.
Declared(lines) ==
    {i \in DOMAIN lines :
        /\ lines[i].kind = "entry" /\ lines[i].bounds # << >>
        /\ \E h \in 1 .. i - 1 :
              /\ lines[h].kind = "header" /\ lines[h].isDep
              /\ \A k \in h + 1 .. i : lines[k].kind = "entry"}

(***************************************************************************)
(* As long as its pattern matches every header of the file, CargoAnalyzer  *)
(* finds just the entries of the dependency tables, in order.  Below       *)
(* another header ("[[bin]]") it goes on with the table before it.         *)
(***************************************************************************)
CargoFollowsToml ==
    input.of = "toml" =>
        LET lines == input.lines
            found == Cargo(lines)
        IN (\A i \in DOMAIN lines : lines[i].kind = "header" => ~ lines[i].opaque) =>
               /\ Len(found) = Cardinality(Declared(lines))
               /\ \A i \in Declared(lines) :
                     found[Cardinality({k \in Declared(lines) : k <= i})].package = lines[i].name

(***************************************************************************)
(* A FetchContent declaration with a GIT_TAG of its own within the window  *)
(* is stored with that tag, whatever declarations follow within the same   *)
(* window; one name gives one row, of one of its calls (CmakeAnalyzer).    *)
(***************************************************************************)
TagOfOwnDeclaration ==
    input.of = "cmake" =>
        LET calls == input.calls
            whole(i) == calls[i].fetch /\ calls[i].text # NoText
                           /\ calls[i].tagAt + Len(calls[i].text.parts) <= calls[i].at + Window
        IN \A rows \in Deduplicated(Cmake(calls)) :
              /\ \A i \in DOMAIN calls :
                    /\ \E d \in rows : d.package = calls[i].name
                    /\ whole(i) /\ (\A k \in DOMAIN calls \ {i} : calls[k].name # calls[i].name) =>
                          [package |-> calls[i].name, version |-> calls[i].text] \in rows
              /\ \A d, e \in rows : d.package = e.package => d = e

\* The requirements of a Python file: those of the entries that are plain
\* or not, of a list of at most one.
Requirements(list, plain, margin, extras) ==
    [i \in {k \in DOMAIN list : list[k].plain = plain} |-> Requirement(list[i], margin, extras)]

\* What is stored of pinned entries; the second one stands in another
\* object, table, file or directory, or in the child of its element.
StoredPins(ecosystem, d) ==
    LET rest == SubSeq(d, 2, Len(d))
        first == [i \in 1 .. Len(d) - Len(rest) |-> d[i]]
    IN CASE ecosystem = "npm"   -> Stored(Npm(<< first, << >>, rest, << >> >>))
         [] ecosystem = "cargo" -> Stored(Cargo(<< Header(TRUE, FALSE) >>
                                       \o [i \in DOMAIN d |-> TomlEntry(d[i].name, d[i].bounds)]))
         [] ecosystem = "pypi"  -> Stored(RequirementsTxt(Requirements(first, TRUE, TRUE, TRUE))
                                       \o SetupCfg(Requirements(first, FALSE, FALSE, FALSE))
                                       \o PyprojectToml(Requirements(rest, TRUE, FALSE, FALSE))
                                       \o SetupCfg(Requirements(rest, FALSE, FALSE, FALSE)))
         [] ecosystem = "nuget" -> Stored(Nuget([i \in DOMAIN d |->
                                       IF i = 1 THEN NugetEntry(d[i].name, ~ d[i].plain, d[i].bounds, << >>)
                                       ELSE NugetEntry(d[i].name, ~ d[i].plain, << >>, d[i].bounds)]))

\* Equal once the shorter one is padded with zeros.
SameNumber(s, t) == \A i \in 1 .. 2 : Digit(s, i) = Digit(t, i)

\* Whether two entries are of one package: npm and cargo tell case and
\* punctuation apart, nuget punctuation only.
SamePackage(ecosystem, n, m) ==
    /\ n.letters = m.letters
    /\ ecosystem \in {"npm", "cargo"} => n.upper = m.upper
    /\ ecosystem # "pypi" => n.dash = m.dash

\* No version is understood of such an entry; one in setup.cfg is not even
\* found, so it hides none before it.
Unread(ecosystem, e) == ~ e.plain /\ ecosystem \in {"pypi", "nuget"}
Hides(ecosystem, e)  == e.plain \/ ecosystem # "pypi"

(***************************************************************************)
(* From manifest to report: a CVE of exactly one version affects a project *)
(* that pins the package to it, unless a later entry of the package says   *)
(* otherwise, and no other project (analyze, storeDependencies,            *)
(* findMatchingCves); a product spelt with "-" is never a Python package,  *)
(* and the pins of setup.cfg and NuGet's intervals bring no finding.       *)
(***************************************************************************)
PinsAreMatched ==
    input.of = "pins" =>
        LET d == input.entries
            p == input.product
            last(i) == \A k \in i + 1 .. Len(d) :
                           SamePackage(p.ecosystem, d[i].name, d[k].name) => ~ Hides(p.ecosystem, d[k])
            spelt(n) == n.letters = p.package.letters
                           /\ (IF p.ecosystem = "pypi" THEN ~ p.package.dash ELSE n.dash = p.package.dash)
        IN (\E r \in StoredPins(p.ecosystem, d) :
               /\ Joins([ecosystem |-> p.ecosystem, package |-> r.package], p, {})
               /\ Affects(r.version, [AnyVersion EXCEPT !.exact = p.version]))
           <=> \E i \in DOMAIN d : /\ ~ Unread(p.ecosystem, d[i]) /\ last(i)
                                   /\ spelt(d[i].name) /\ SameNumber(d[i].bounds[1], p.version)
=============================================================================
