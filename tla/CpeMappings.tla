---------------------------- MODULE CpeMappings ------------------------------
(***************************************************************************)
(* The table ecosystem_cpe_mapping: CpeMappingController changes it with   *)
(* one statement per request while ReportEngine looks a dependency up with *)
(* two SELECTs and the join of findMatchingCves, each a statement of its   *)
(* own on another connection.                                              *)
(*                                                                         *)
(* A pattern is a spelling: "%pattern%" under ILIKE takes case as equal,   *)
(* and its "_" stands for any character, its "-" for itself.  cpe is the   *)
(* pair of vendor and product; BlankCpe has the empty vendor that create   *)
(* and update let pass.                                                    *)
(***************************************************************************)
EXTENDS Matching, FiniteSets

CONSTANTS
    Mapped,     \* the ecosystems, names and patterns of the requests
    Spelling,
    Cpe, BlankCpe,
    NoPattern,  \* NULL
    NoCpe,      \* std::nullopt
    Dependency, \* the dependencies that are looked up
    Product,    \* the rows of cve_affected_products
    MaxId,      \* bound: rows created
    MaxMet      \* bound: rows in force in the course of a lookup

ASSUME CpeAssumption == BlankCpe \in Cpe /\ NoCpe \notin Cpe /\ NoPattern \notin Spelling

VARIABLES
    mappings, \* ecosystem_cpe_mapping by id
    nextId,   \* its sequence
    look,     \* the lookup under way
    stayed,   \* history: the rows in force ever since the lookup began
    met       \* history: the rows in force at some time since then

cpeVars == << mappings, nextId, look, stayed, met >>

Mapping == [ecosystem : Mapped, package : Spelling, cpe : Cpe,
            pattern : Spelling \cup {NoPattern}]

InForce(table) == {table[id] : id \in DOMAIN table}

Idle == [phase |-> "idle"]

\* The names of the seed rows, of CMake packages, are others.
CpeInit ==
    /\ mappings = << >>
    /\ nextId = 1
    /\ look = Idle
    /\ stayed = {} /\ met = {}

-----------------------------------------------------------------------------
(* The requests.                                                           *)

\* A slip: a table without its UNIQUE constraint.
TakenNever(table, r, id) == FALSE

\* UNIQUE (ecosystem, package_name): r cannot be the row of id.
Taken(table, r, id) ==
    \E other \in DOMAIN table \ {id} :
        table[other].ecosystem = r.ecosystem /\ table[other].package = r.package

Becomes(table) ==
    /\ Cardinality(met \cup InForce(table)) <= MaxMet
    /\ mappings' = table
    /\ stayed' = stayed \cap InForce(table)
    /\ met' = IF look = Idle THEN met ELSE met \cup InForce(table)
    /\ UNCHANGED look

\* The sequence moves although the row is refused.
Create(r) ==
    /\ nextId <= MaxId
    /\ nextId' = nextId + 1
    /\ Becomes(IF Taken(mappings, r, nextId) THEN mappings
               ELSE [id \in DOMAIN mappings \cup {nextId} |->
                        IF id = nextId THEN r ELSE mappings[id]])

\* Another id answers 404, a name that is taken an error.
Update(id, r) ==
    /\ id \in DOMAIN mappings
    /\ ~ Taken(mappings, r, id)
    /\ Becomes([mappings EXCEPT ![id] = r])
    /\ UNCHANGED nextId

RemoveMapping(id) ==
    /\ id \in DOMAIN mappings
    /\ Becomes([other \in DOMAIN mappings \ {id} |-> mappings[other]])
    /\ UNCHANGED nextId

-----------------------------------------------------------------------------
(* The lookup.                                                             *)

\* package_name ILIKE '%' || git_url_pattern || '%'.
Like(name, pattern) == name.letters = pattern.letters /\ (pattern.dash => name.dash)

IsByName(r, d)    == r.ecosystem = d.ecosystem /\ r.package = d.package
IsByPattern(r, d) == r.ecosystem = d.ecosystem /\ r.pattern # NoPattern /\ Like(d.package, r.pattern)

ByName(table, d)    == {table[id].cpe : id \in {i \in DOMAIN table : IsByName(table[i], d)}}
ByPattern(table, d) == {table[id].cpe : id \in {i \in DOMAIN table : IsByPattern(table[i], d)}}

LookUp(d) ==
    /\ look = Idle
    /\ look' = [phase |-> "name", dep |-> d]
    /\ stayed' = InForce(mappings) /\ met' = InForce(mappings)
    /\ UNCHANGED << mappings, nextId >>

Answered(cpe) == [phase |-> "join", dep |-> look.dep, cpe |-> cpe]

\* LIMIT 1 without ORDER BY: any of the rows.
SelectByName ==
    /\ look.phase = "name"
    /\ \/ \E cpe \in ByName(mappings, look.dep) : look' = Answered(cpe)
       \/ /\ ByName(mappings, look.dep) = {}
          /\ look' = [look EXCEPT !.phase = "pattern"]
    /\ UNCHANGED << mappings, nextId, stayed, met >>

SelectByPattern ==
    /\ look.phase = "pattern"
    /\ \/ \E cpe \in ByPattern(mappings, look.dep) : look' = Answered(cpe)
       \/ ByPattern(mappings, look.dep) = {} /\ look' = Answered(NoCpe)
    /\ UNCHANGED << mappings, nextId, stayed, met >>

\* $3 != '': an empty vendor joins by name alone, as no mapping does.
JoinedCpes(cpe) == {cpe} \ {BlankCpe, NoCpe}

FindMatchingCves ==
    /\ look.phase = "join"
    /\ look' = [phase |-> "done", dep |-> look.dep,
                rows |-> {p \in Product : Joins(look.dep, p, JoinedCpes(look.cpe))}]
    /\ UNCHANGED << mappings, nextId, stayed, met >>

\* The next dependency of a report.
NextDependency ==
    /\ look.phase = "done"
    /\ look' = Idle
    /\ stayed' = {} /\ met' = {}
    /\ UNCHANGED << mappings, nextId >>

CpeNext ==
    \/ \E r \in Mapping : Create(r)
    \/ \E id \in 1 .. MaxId : RemoveMapping(id) \/ \E r \in Mapping : Update(id, r)
    \/ \E d \in Dependency : LookUp(d)
    \/ SelectByName \/ SelectByPattern \/ FindMatchingCves \/ NextDependency

-----------------------------------------------------------------------------

\* The rows of the CVE tables that carry the CPE of a mapping of S, and
\* those of dependency d's own name.
ProductsOf(S, d) == {p \in Product : NamesAgree(d, p) \/ \E r \in S : p.cpe \in JoinedCpes(r.cpe)}

(***************************************************************************)
(* However mappings are edited between the statements of a lookup, what    *)
(* matches is what one mapping says, in force at some time of the lookup:  *)
(* the one by the dependency's own name when it was there all along, so    *)
(* that it overrides every pattern; else some one while a pattern was      *)
(* there all along (resolveCpeMapping; UNIQUE (ecosystem, package_name)).  *)
(***************************************************************************)
MappingFound ==
    look.phase = "done" =>
        LET d == look.dep
            named(S)   == {r \in S : IsByName(r, d)}
            pattern(S) == {r \in S : IsByPattern(r, d)}
        IN CASE named(stayed) # {} ->
                    /\ Cardinality(named(stayed)) = 1
                    /\ look.rows = ProductsOf(named(stayed), d)
             [] named(stayed) = {} /\ pattern(stayed) # {} ->
                    \E r \in named(met) \cup pattern(met) : look.rows = ProductsOf({r}, d)
             [] OTHER ->
                    \/ look.rows = ProductsOf({}, d)
                    \/ \E r \in named(met) \cup pattern(met) : look.rows = ProductsOf({r}, d)
=============================================================================
