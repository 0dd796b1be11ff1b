------------------------------- MODULE Schema -------------------------------
(***************************************************************************)
(* The PostgreSQL tables blueDuck keeps (db/migrations/001, 003) and what  *)
(* their foreign keys do when rows go away.                                *)
(*                                                                         *)
(* A row is a record and is its own identity: SERIAL numbers are never     *)
(* reused, so each row carries a number that no other row of its table     *)
(* ever had, and a foreign key holds the referenced row itself.  A column  *)
(* that changes after the INSERT is a variable of its own (summary,        *)
(* analyzed, links).  CveDbWriter has the two tables only it writes.       *)
(***************************************************************************)
EXTENDS CveDbWriter

CONSTANTS
    Project, \* projects.id
    Ref      \* project_versions.ref_name: the branches and tags

VARIABLES
    projects,    \* rows of projects
    versions,    \* rows of project_versions
    analyzed,    \* those with analyzed_at set
    deps,        \* rows of dependencies
    reports,     \* rows of reports
    summary,     \* their six counters
    findings,    \* rows of report_findings
    mitigations, \* rows of report_findings_mitigations
    links,       \* report_findings.mitigation_id; NULL is no pair
    up           \* FALSE once the process has terminated, until it restarts

tables == << projects, versions, analyzed, deps, severity, affected,
             reports, summary, findings, mitigations, links >>

-----------------------------------------------------------------------------

VersionRow    == [id : Nat, project : Project, ref : Ref]
DependencyRow == [batch : Nat, version : VersionRow,
                  package : Package, ver : PkgVersion]
ReportRow     == [id : Nat, version : VersionRow]
FindingRow    == [report : ReportRow, dep : DependencyRow,
                  cve : Cve, severity : Severity]
MitigationRow == [id : Nat, finding : FindingRow]
Link          == [finding : FindingRow, mitigation : MitigationRow]

Summary       == [total : Nat, vulnerable : Nat, by : [Counted -> Nat]]
EmptySummary  == [total |-> 0, vulnerable |-> 0, by |-> [s \in Counted |-> 0]]

SchemaTypeOK ==
    /\ projects \subseteq Project
    /\ versions \subseteq VersionRow
    /\ analyzed \subseteq versions
    /\ deps \subseteq DependencyRow
    /\ reports \subseteq ReportRow
    /\ summary \in [reports -> Summary]
    /\ findings \subseteq FindingRow
    /\ mitigations \subseteq MitigationRow
    /\ links \subseteq Link
    /\ up \in BOOLEAN

EmptyTables ==
    /\ projects = Project
    /\ versions = {} /\ analyzed = {} /\ deps = {}
    /\ reports = {} /\ summary = [r \in {} |-> EmptySummary] /\ findings = {}
    /\ mitigations = {} /\ links = {}

(***************************************************************************)
(* What ON DELETE CASCADE and ON DELETE SET NULL leave when version rows V *)
(* and dependency rows D stay.  The cascade does not go round: the link of *)
(* a finding is cleared with the mitigation, the finding is not.           *)
(***************************************************************************)
Retain(V, D) ==
    /\ versions' = V
    /\ deps' = {d \in D : d.version \in V}
    /\ reports' = {r \in reports : r.version \in V}
    /\ summary' = [r \in reports' |-> summary[r]]
    /\ findings' = {f \in findings : f.report \in reports' /\ f.dep \in deps'}
    /\ mitigations' = {m \in mitigations : m.finding \in findings'}
    /\ links' = {l \in links : l.finding \in findings' /\ l.mitigation \in mitigations'}

FindingsOf(r)   == {f \in findings : f.report = r}
MitigatedBy(f)  == {l.mitigation : l \in {k \in links : k.finding = f}}
DepsOf(v)       == {d \in deps : d.version = v}

(***************************************************************************)
(* The foreign keys and UNIQUE constraints of the schema, and one relation *)
(* no constraint of it states: a finding joins a report and a dependency   *)
(* of the same version.                                                    *)
(***************************************************************************)
ForeignKeys ==
    /\ \A v \in versions : v.project \in projects
    /\ \A d \in deps : d.version \in versions
    /\ \A r \in reports : r.version \in versions
    /\ \A f \in findings : f.report \in reports /\ f.dep \in deps
    /\ \A m \in mitigations : m.finding \in findings
    /\ \A l \in links : l.finding \in findings /\ l.mitigation \in mitigations

OneLinkPerFinding ==
    \A k, l \in links : k.finding = l.finding => k = l

FindingWithinVersion ==
    \A f \in findings : f.report.version = f.dep.version
=============================================================================
