------------------------------- MODULE Report -------------------------------
(***************************************************************************)
(* ReportEngine::generateReport and the handler that starts it, one step   *)
(* per statement: the engine opens no transaction, so analyses, deletions, *)
(* CVE imports and mitigation requests come between any two of them.  A    *)
(* foreign-key violation raises an exception nobody catches, and the       *)
(* process terminates.                                                     *)
(***************************************************************************)
EXTENDS Schema

CONSTANTS
    ReportJob, \* DbLoop threads that may generate a report
    MaxReports   \* bound on the reports requested

VARIABLES
    rjob,     \* the local variables of each report job
    requested \* how many reports were requested; numbers their rows

reportVars == << rjob, requested >>

ReportPc == {"idle", "insert", "load", "next", "finding", "carry"}

IdleReport == [pc |-> "idle", report |-> NoRow, loaded |-> {}, deps |-> {},
               dep |-> NoRow, matches |-> {}, counts |-> EmptySummary]

\* Job j in the loop over the loaded rows: rows left, and the matches of dep
\* it has still to insert.
Scanning(j, loaded, rows, dep, matches, counts) ==
    [pc |-> IF matches = {} THEN "next" ELSE "finding", report |-> rjob[j].report,
     loaded |-> loaded, deps |-> rows, dep |-> dep, matches |-> matches, counts |-> counts]

ReportTypeOK ==
    /\ rjob \in [ReportJob ->
          [pc : ReportPc, report : ReportRow \cup {NoRow},
           loaded : SUBSET DependencyRow,
           deps : SUBSET DependencyRow, dep : DependencyRow \cup {NoRow},
           matches : SUBSET [cve : Cve, severity : Severity],
           counts : Summary]]
    /\ \A j \in ReportJob :
         /\ rjob[j].pc # "idle" => rjob[j].report \in ReportRow
         /\ rjob[j].pc = "finding" => rjob[j].dep \in DependencyRow
    /\ requested \in Nat

ReportInit ==
    /\ rjob = [j \in ReportJob |-> IdleReport]
    /\ requested = 0

-----------------------------------------------------------------------------

\* ReportController::generate: the version row exists, so the job starts.
ReportRequest(j, v) ==
    /\ up /\ rjob[j].pc = "idle" /\ requested < MaxReports
    /\ v \in versions
    /\ requested' = requested + 1
    /\ rjob' = [rjob EXCEPT ![j] = 
                    [pc |-> "insert", report |-> [id |-> requested + 1, version |-> v],
                     loaded |-> {}, deps |-> {}, dep |-> NoRow, matches |-> {},
                     counts |-> EmptySummary]]
    /\ UNCHANGED << tables, up >>

\* insertReport: the row starts with its six counters at zero.
InsertReport(j) ==
    /\ up /\ rjob[j].pc = "insert"
    /\ LET r == rjob[j].report IN
       \/ /\ r.version \in versions
          /\ reports' = reports \cup {r}
          /\ summary' = [x \in reports' |-> IF x = r THEN EmptySummary ELSE summary[x]]
          /\ rjob' = [rjob EXCEPT ![j].pc = "load"]
          /\ UNCHANGED up
       \/ /\ r.version \notin versions
          /\ up' = FALSE
          /\ UNCHANGED << reports, summary, rjob >>
    /\ UNCHANGED << projects, versions, analyzed, deps, severity, affected, findings,
                    mitigations, links, requested >>

\* A slip: the dependencies of the whole project.
RowsToScanOfProject(v) == {d \in deps : d.version.project = v.project}

\* The rows loadDependencies selects.
RowsToScan(v) == DepsOf(v)

\* loadDependencies, and the total the summary starts from.
LoadDependencies(j) ==
    /\ up /\ rjob[j].pc = "load"
    /\ LET rows == RowsToScan(rjob[j].report.version) IN
       rjob' = [rjob EXCEPT ![j] = Scanning(j, rows, rows, NoRow, {},
                              [EmptySummary EXCEPT !.total = Cardinality(rows)])]
    /\ UNCHANGED << tables, requested, up >>

\* A slip: the version is not compared with the affected range.
MatchingCvesAnyVersion(d) ==
    {[cve |-> c, severity |-> severity[c]] :
        c \in {x \in Cve : \E w \in PkgVersion : << d.package, w >> \in AffectedRanges(x)}}

\* findMatchingCves after sort and unique: each CVE with a row that affects
\* the package version, once, with the severity its record has now.
MatchingCves(d) ==
    {[cve |-> c, severity |-> severity[c]] :
        c \in {x \in Cve : << d.package, d.ver >> \in AffectedRanges(x)}}

\* A slip: the loop looks at one row again and again.
RestStuck(rows, d) == rows

\* The loaded rows still to come after d.
Rest(rows, d) == rows \ {d}

\* The head of the loop over the loaded rows, for one of them.
MatchDependency(j) ==
    /\ up /\ rjob[j].pc = "next"
    /\ \E d \in rjob[j].deps :
          rjob' = [rjob EXCEPT ![j] = Scanning(j, rjob[j].loaded, Rest(rjob[j].deps, d),
                                         d, MatchingCves(d), rjob[j].counts)]
    /\ UNCHANGED << tables, requested, up >>

\* A slip: findings rated NONE are not counted as vulnerable.
CountOnlyRated(s, c) ==
    IF s \in Counted
    THEN [total |-> c.total, vulnerable |-> c.vulnerable + 1, by |-> [c.by EXCEPT ![s] = @ + 1]]
    ELSE c

\* The counters c after a finding of severity s.
Count(s, c) ==
    [total |-> c.total, vulnerable |-> c.vulnerable + 1,
     by |-> IF s \in Counted THEN [c.by EXCEPT ![s] = @ + 1] ELSE c.by]

\* insertFinding for the match with the least cve_record_id, then the
\* counters.  Report or dependency row gone: the process terminates.
InsertFinding(j) ==
    /\ up /\ rjob[j].pc = "finding"
    /\ \E m \in rjob[j].matches :
       /\ \A n \in rjob[j].matches : m.cve <= n.cve
       /\ LET r == rjob[j].report
              d == rjob[j].dep
          IN \/ /\ r \in reports /\ d \in deps
                /\ findings' = findings \cup
                      {[report |-> r, dep |-> d, cve |-> m.cve, severity |-> m.severity]}
                /\ rjob' = [rjob EXCEPT ![j] = Scanning(j, rjob[j].loaded, rjob[j].deps,
                      d, rjob[j].matches \ {m}, Count(m.severity, rjob[j].counts))]
                /\ UNCHANGED up
             \/ /\ r \notin reports \/ d \notin deps
                /\ up' = FALSE
                /\ UNCHANGED << findings, rjob >>
    /\ UNCHANGED << projects, versions, analyzed, deps, severity, affected, reports, summary,
                    mitigations, links, requested >>

\* updateReportSummary; no row to update when the report is gone.
UpdateReportSummary(j) ==
    /\ up /\ rjob[j].pc = "next" /\ rjob[j].deps = {}
    /\ summary' = [r \in reports |-> IF r = rjob[j].report THEN rjob[j].counts ELSE summary[r]]
    /\ rjob' = [rjob EXCEPT ![j].pc = "carry"]
    /\ UNCHANGED << projects, versions, analyzed, deps, severity, affected, reports, findings,
                    mitigations, links, requested, up >>

\* A slip: the join on the dependency's ecosystem and package forgotten.
CarryableAnyPackage(f) ==
    {l.mitigation : l \in {k \in links :
        /\ k.finding.report # f.report
        /\ k.finding.report.version.project = f.report.version.project
        /\ k.finding.cve = f.cve}}

\* The mitigations finding f may take over: those of a finding of the same
\* CVE and package in another report of the same project.
Carryable(f) ==
    {l.mitigation : l \in {k \in links :
        /\ k.finding.report # f.report
        /\ k.finding.report.version.project = f.report.version.project
        /\ k.finding.cve = f.cve
        /\ k.finding.dep.package = f.dep.package}}

\* A slip: findings that have a mitigation take one over as well.
OpenFindingsMitigatedToo(r) == {f \in FindingsOf(r) : Carryable(f) # {}}

\* The findings of report r the UPDATE of carryOverMitigations is about.
OpenFindings(r) == {f \in FindingsOf(r) : MitigatedBy(f) = {} /\ Carryable(f) # {}}

\* carryOverMitigations: one UPDATE over the report's findings that have no
\* mitigation; of several candidates the join takes any one.  With the
\* version gone the report has no findings left either.
CarryOverMitigations(j) ==
    /\ up /\ rjob[j].pc = "carry"
    /\ LET open == OpenFindings(rjob[j].report) IN
       \E taken \in {t \in [open -> mitigations] : \A f \in open : t[f] \in Carryable(f)} :
          links' = {l \in links : l.finding \notin open} \cup
                   {[finding |-> f, mitigation |-> taken[f]] : f \in open}
    /\ rjob' = [rjob EXCEPT ![j] = IdleReport]
    /\ UNCHANGED << projects, versions, analyzed, deps, severity, affected, reports, summary,
                    findings, mitigations, requested, up >>

ReportStep(j) ==
    \/ InsertReport(j)
    \/ LoadDependencies(j)
    \/ MatchDependency(j)
    \/ InsertFinding(j)
    \/ UpdateReportSummary(j)
    \/ CarryOverMitigations(j)
=============================================================================
