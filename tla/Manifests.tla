------------------------------ MODULE Manifests ------------------------------
(***************************************************************************)
(* What the dependency analyzers make of a manifest, and the rows that     *)
(* storeDependencies leaves of it.  Names and versions are those Matching  *)
(* compares.  No state: Analysis's Manifest is what these operators yield. *)
(*                                                                         *)
(* A version in a manifest is the sequence of the bounds it writes, its    *)
(* operators (^, ~, >=, ==, ...) left out: they are never looked at.  Only *)
(* the last bound may have a suffix.                                       *)
(***************************************************************************)
EXTENDS Matching, SequencesExt

CONSTANT Window  \* the characters in which parseFile looks for a GIT_TAG

ASSUME WindowAssumption == Window \in Nat

Entry(name, bounds) == [name |-> name, bounds |-> bounds]

Found(entry, version, ecosystem) ==
    [package |-> Normalize(entry.name, ecosystem), version |-> version]

\* The text after the first operator, up to a comma.
FirstBound(bounds) == IF bounds = << >> THEN NoText ELSE bounds[1]

\* Two bounds in one text: parseVersion splits it at the dots, so the last
\* component of the one begins the part that the other's first ends.
Fused(s, t) == [parts |-> s.parts \o Tail(t.parts), pre |-> t.pre]

\* All of the text but the operators before it (semver_prefix, ver_prefix).
AsWritten(bounds) ==
    IF bounds = << >> THEN NoText ELSE FoldLeft(Fused, Head(bounds), Tail(bounds))

\* What a loop over s keeps: the members at the positions I, in order.
Kept(s, I) ==
    LET kept[i \in 0 .. Len(s)] ==
            IF i = 0 THEN << >> ELSE IF i \in I THEN Append(kept[i - 1], s[i]) ELSE kept[i - 1]
    IN kept[Len(s)]

-----------------------------------------------------------------------------
(* package.json: its four objects of entries, one after the other.         *)

Npm(objects) ==
    LET entries == objects[1] \o objects[2] \o objects[3] \o objects[4]
    IN [i \in DOMAIN entries |-> Found(entries[i], AsWritten(entries[i].bounds), "npm")]

-----------------------------------------------------------------------------
(* Cargo.toml: lines that are headers or entries.  A header is that of a   *)
(* dependency table or not ("[dependencies.serde]" is not); one the code's *)
(* pattern does not match ("[[bin]]") is opaque.                           *)

Header(isDep, opaque)   == [kind |-> "header", isDep |-> isDep, opaque |-> opaque]
TomlEntry(name, bounds) == [kind |-> "entry", name |-> name, bounds |-> bounds]

\* A slip: once in a dependency table, always.
InDependenciesFrom(lines) ==
    LET within[i \in 0 .. Len(lines)] ==
            IF i = 0 THEN FALSE
            ELSE IF lines[i].kind = "header" /\ ~ lines[i].opaque
                 THEN within[i - 1] \/ lines[i].isDep
                 ELSE within[i - 1]
    IN within

\* is_dep_section(current_section) at each line.
InDependencies(lines) ==
    LET within[i \in 0 .. Len(lines)] ==
            IF i = 0 THEN FALSE
            ELSE IF lines[i].kind = "header" /\ ~ lines[i].opaque THEN lines[i].isDep
                 ELSE within[i - 1]
    IN within

\* An entry whose line has no version matches none of the three patterns.
Cargo(lines) ==
    LET within == InDependencies(lines)
        taken  == Kept(lines, {i \in DOMAIN lines :
                      within[i] /\ lines[i].kind = "entry" /\ lines[i].bounds # << >>})
    IN [k \in DOMAIN taken |-> Found(taken[k], AsWritten(taken[k].bounds), "cargo")]

-----------------------------------------------------------------------------
(* Python.  A requirement is an entry that stands at the margin of its     *)
(* line or not, with extras ("name[extra]") or not.                        *)

Requirement(entry, margin, extras) ==
    [name |-> entry.name, bounds |-> entry.bounds, margin |-> margin, extras |-> extras]

\* depFromLine; its pattern for the name is anchored at the first character.
DepFromLine(r) == Found(r, FirstBound(r.bounds), "pypi")

DepsFromLines(lines) ==
    LET named == Kept(lines, {i \in DOMAIN lines : lines[i].margin})
    IN [i \in DOMAIN named |-> DepFromLine(named[i])]

\* parseRequirementsTxt.
RequirementsTxt(lines) == DepsFromLines(lines)

\* parsePyprojectToml: the list ends at the first "]", so within the first
\* requirement that has extras; what it quotes is at the margin.
ListRead(list) ==
    [i \in {k \in DOMAIN list : \A m \in 1 .. k : ~ list[m].extras} |->
        Requirement(list[i], TRUE, FALSE)]

PyprojectToml(list) == DepsFromLines(ListRead(list))

\* parseSetupCfg: the lines after install_requires that are not at the
\* margin, up to one that is.
InstallRequires(lines) ==
    [i \in {k \in DOMAIN lines : \A m \in 1 .. k : ~ lines[m].margin} |-> lines[i]]

SetupCfg(lines) == DepsFromLines(InstallRequires(lines))

-----------------------------------------------------------------------------
(* NuGet: an entry with a Version attribute and a Version child; the one   *)
(* it has is an interval ("[1.0]", "[1.0,2.0)") or the bare lower bound.   *)

NugetEntry(name, interval, attribute, child) ==
    [name |-> name, interval |-> interval, attribute |-> attribute, child |-> child]

\* The text as it is written: an interval's begins with its bracket, so its
\* first component is not a number and ends the version.
NugetVersion(bounds, interval) ==
    IF interval THEN [parts |-> << Junk >>, pre |-> 0] ELSE FirstBound(bounds)

Nuget(entries) ==
    [i \in DOMAIN entries |->
        LET e == entries[i] IN
        Found(e, NugetVersion(IF e.attribute = << >> THEN e.child ELSE e.attribute, e.interval), "nuget")]

-----------------------------------------------------------------------------
(* CMake: calls of find_package with a version, of FetchContent_Declare    *)
(* with a GIT_TAG, or of either without.  A call has the position where    *)
(* its name ends, a tag the position where it begins; a component of the   *)
(* tag takes one character.                                                *)

Call(fetch, name, text, at, tagAt) ==
    [fetch |-> fetch, name |-> name, text |-> text, at |-> at, tagAt |-> tagAt]

\* The tags that begin in the window of call i, which may reach beyond it.
TagsAfter(calls, i) ==
    {k \in i .. Len(calls) :
        calls[k].fetch /\ calls[k].text # NoText /\ calls[k].tagAt < calls[i].at + Window}

\* The first n characters of a tag.
Cut(tag, n) == IF n < Len(tag.parts) THEN [parts |-> SubSeq(tag.parts, 1, n), pre |-> 0] ELSE tag

\* A slip: the last tag of the window.
TagFoundLast(calls, i) ==
    IF TagsAfter(calls, i) = {} THEN NoText
    ELSE LET k == Max(TagsAfter(calls, i))
         IN Cut(calls[k].text, calls[i].at + Window - calls[k].tagAt)

\* The first tag of the window, cut where the window ends.
TagFound(calls, i) ==
    IF TagsAfter(calls, i) = {} THEN NoText
    ELSE LET k == Min(TagsAfter(calls, i))
         IN Cut(calls[k].text, calls[i].at + Window - calls[k].tagAt)

\* parseFile.
Cmake(calls) ==
    [i \in DOMAIN calls |->
        Found(calls[i], IF calls[i].fetch THEN TagFound(calls, i) ELSE calls[i].text, "cmake")]

\* std::sort is not stable, so unique keeps any one entry of a name.
Deduplicated(found) ==
    LET all == {found[i] : i \in DOMAIN found}
    IN {rows \in SUBSET all : \A d \in all : Cardinality({r \in rows : r.package = d.package}) = 1}

-----------------------------------------------------------------------------

\* A slip: ON CONFLICT DO NOTHING.
StoredFirst(found) ==
    {found[i] : i \in {k \in DOMAIN found : \A m \in 1 .. k - 1 : found[m].package # found[k].package}}

\* The rows of storeDependencies: of a package's entries the last.
Stored(found) ==
    {found[i] : i \in {k \in DOMAIN found :
                          \A m \in k + 1 .. Len(found) : found[m].package # found[k].package}}
=============================================================================
