------------------------------ MODULE BlueDuck ------------------------------
(***************************************************************************)
(* The daemon: analyses, reports and mitigation requests over the shared   *)
(* tables, with the handlers that add and delete versions and projects,    *)
(* the CVE import, and the process's crashes and restarts.                 *)
(***************************************************************************)
EXTENDS Analysis, Report, Mitigation

CONSTANTS
    Feed,        \* Feed[c]: the severities CVE sources give c
    AffectedBy,  \* AffectedBy[c]: the package versions they say c affects
    MaxVersions, \* bounds on the version rows inserted,
    MaxUpserts,  \* the CVE records upserted
    MaxCrashes   \* and the spontaneous crashes

ASSUME BulkAssumption == MaxBulk \in Nat
ASSUME FeedAssumption ==
    /\ Feed \in [Cve -> SUBSET Severity]
    /\ AffectedBy \in [Cve -> SUBSET VersionedPackage]

VARIABLES
    inserted, \* how many version rows were inserted; numbers them
    upserts,  \* how many CVE records were upserted
    crashes   \* how often the process died of itself

boundVars == << inserted, upserts, crashes >>

vars == << tables, writing, up, analysisVars, reportVars, mitigationVars, boundVars >>

Init ==
    /\ EmptyTables /\ up = TRUE
    /\ severity \in {s \in [Cve -> Severity \cup {NotImported}] :
                        \A c \in Cve : s[c] \in Feed[c] \cup {NotImported}}
    /\ affected = [row \in AffectedRow |->
                     IF severity[row.cve] # NotImported /\ row.range \in AffectedBy[row.cve]
                     THEN 1 ELSE 0]
    /\ writing = [w \in Writer |-> IdleWriter]
    /\ AnalysisInit /\ ReportInit /\ MitigationInit
    /\ inserted = 0 /\ upserts = 0 /\ crashes = 0

TypeOK ==
    /\ CveTypeOK /\ SchemaTypeOK /\ AnalysisTypeOK /\ ReportTypeOK /\ MitigationTypeOK
    /\ inserted \in Nat /\ upserts \in Nat /\ crashes \in Nat

-----------------------------------------------------------------------------

\* The upsert of ProjectController::sync for a ref that has no row yet; the
\* upsert of one that has changes neither its project nor its ref.
SyncVersion(p, r) ==
    /\ up /\ inserted < MaxVersions /\ p \in projects
    /\ \A v \in versions : ~ (v.project = p /\ v.ref = r)
    /\ versions' = versions \cup {[id |-> inserted + 1, project |-> p, ref |-> r]}
    /\ inserted' = inserted + 1
    /\ UNCHANGED << projects, analyzed, deps, severity, affected, reports, summary,
                    findings, mitigations, links, writing, up, analysisVars, reportVars, mitigationVars,
                    upserts, crashes >>

\* VersionController::remove.
RemoveVersion(v) ==
    /\ up /\ v \in versions
    /\ Retain(versions \ {v}, deps)
    /\ analyzed' = analyzed \ {v}
    /\ UNCHANGED << projects, severity, affected, writing, up, analysisVars, reportVars,
                    mitigationVars, boundVars >>

\* ProjectController::remove.
RemoveProject(p) ==
    /\ up /\ p \in projects
    /\ projects' = projects \ {p}
    /\ Retain({v \in versions : v.project # p}, deps)
    /\ analyzed' = {v \in analyzed : v.project # p}
    /\ UNCHANGED << severity, affected, writing, up, analysisVars, reportVars,
                    mitigationVars, boundVars >>

\* A sync hands its writer a record some source publishes.
UpsertCve(w, c, s) ==
    /\ up /\ upserts < MaxUpserts /\ s \in Feed[c]
    /\ UpsertCveRecord(w, c, s, AffectedBy[c])
    /\ upserts' = upserts + 1
    /\ UNCHANGED << projects, versions, analyzed, deps, reports, summary, findings,
                    mitigations, links, up, analysisVars, reportVars, mitigationVars,
                    inserted, crashes >>

\* A writer's loop over the affected ranges of its record.
WritingProceeds(w) ==
    /\ up
    /\ \E x \in writing[w].todo : InsertAffectedProduct(w, x)
    /\ UNCHANGED << projects, versions, analyzed, deps, reports, summary, findings,
                    mitigations, links, up, analysisVars, reportVars, mitigationVars,
                    boundVars >>

\* The process dies of itself: killed, out of memory, power.
Crash ==
    /\ up /\ crashes < MaxCrashes
    /\ up' = FALSE
    /\ crashes' = crashes + 1
    /\ UNCHANGED << tables, writing, analysisVars, reportVars, mitigationVars,
                    inserted, upserts >>

\* The container restarts the process ("restart: unless-stopped"): what was
\* in memory is gone, tables and working trees are as they were.
Restart ==
    /\ ~ up
    /\ up' = TRUE
    /\ ajob' = [j \in AnalysisJob |-> IdleAnalysis]
    /\ rjob' = [j \in ReportJob |-> IdleReport]
    /\ linking' = {}
    /\ writing' = [w \in Writer |-> IdleWriter]
    /\ UNCHANGED << tables, tree, analyses, requested, created, boundVars >>

AnalysisProceeds(j) ==
    AnalysisStep(j) /\ UNCHANGED << writing, reportVars, mitigationVars, boundVars >>

ReportProceeds(j) ==
    ReportStep(j) /\ UNCHANGED << writing, analysisVars, mitigationVars, boundVars >>

LinkingProceeds ==
    /\ \E l \in linking : LinkMitigation(l)
    /\ UNCHANGED << writing, analysisVars, reportVars, boundVars >>

BulkRequests ==
    {fs \in SUBSET findings : IsFiniteSet(fs) /\ Cardinality(fs) \in 1 .. MaxBulk}

\* The requests that start a job or change rows at once.
Request ==
    \/ /\ \E j \in AnalysisJob, v \in versions : AnalyzeRequest(j, v)
       /\ UNCHANGED << writing, reportVars, mitigationVars, boundVars >>
    \/ /\ \E j \in ReportJob, v \in versions : ReportRequest(j, v)
       /\ UNCHANGED << writing, analysisVars, mitigationVars, boundVars >>
    \/ /\ \/ \E fs \in BulkRequests : \E f \in fs : CreateMitigation(fs, f)
          \/ \E f \in findings : RemoveMitigation(f)
       /\ UNCHANGED << writing, analysisVars, reportVars, boundVars >>
    \/ \E p \in Project, r \in Ref : SyncVersion(p, r)
    \/ \E v \in versions : RemoveVersion(v)
    \/ \E p \in projects : RemoveProject(p)
    \/ \E w \in Writer, c \in Cve, s \in Severity : UpsertCve(w, c, s)

Next ==
    \/ \E j \in AnalysisJob : AnalysisProceeds(j)
    \/ \E j \in ReportJob : ReportProceeds(j)
    \/ LinkingProceeds
    \/ \E w \in Writer : WritingProceeds(w)
    \/ Request
    \/ Crash
    \/ Restart

Spec == Init /\ [][Next]_vars

(***************************************************************************)
(* Fairness: a thread that runs a job is scheduled until the job ends, the *)
(* database executes each statement it was sent, and the container starts  *)
(* the process again.  Requests, imports and crashes need not happen.      *)
(***************************************************************************)
Fairness ==
    /\ \A j \in AnalysisJob : WF_vars(AnalysisProceeds(j))
    /\ \A j \in ReportJob : WF_vars(ReportProceeds(j))
    /\ WF_vars(LinkingProceeds)
    /\ \A w \in Writer : WF_vars(WritingProceeds(w))
    /\ WF_vars(Restart)

FairSpec == Spec /\ Fairness

-----------------------------------------------------------------------------

(***************************************************************************)
(* The dependency rows of a version all come from one analysis and name    *)
(* each package once: replacing them is atomic, whatever runs meanwhile    *)
(* (AnalysisService::storeDependencies).                                   *)
(***************************************************************************)
OneBatchPerVersion ==
    \A d, e \in deps : d.version = e.version =>
        d.batch = e.batch /\ (d.package = e.package => d = e)

(***************************************************************************)
(* A report that has findings and a summary agrees with itself: the number *)
(* of findings, in all and by severity, is what the counters say, even if  *)
(* other reports, analyses, deletions and imports ran between its          *)
(* statements.  (The findings may be gone: a new analysis of the version   *)
(* deletes them all; and a report the process died on has its counters at  *)
(* zero.)                                                                  *)
(***************************************************************************)
SummaryCountsFindings ==
    \A r \in reports :
        FindingsOf(r) # {} /\ summary[r] # EmptySummary =>
            /\ Cardinality(FindingsOf(r)) = summary[r].vulnerable
            /\ \A s \in Counted :
                 Cardinality({f \in FindingsOf(r) : f.severity = s}) = summary[r].by[s]
            /\ summary[r].total = Cardinality(DepsOf(r.version))

(***************************************************************************)
(* A mitigation a finding carries was written for the same CVE and package *)
(* in the same project, however many reports carried it over; requests     *)
(* that name one finding only (carryOverMitigations).                      *)
(***************************************************************************)
MitigationFitsFinding ==
    MaxBulk <= 1 => \A l \in links \cup linking :
        /\ l.finding.cve = l.mitigation.finding.cve
        /\ l.finding.dep.package = l.mitigation.finding.dep.package
        /\ l.finding.dep.version.project = l.mitigation.finding.dep.version.project

(***************************************************************************)
(* A finding that stays loses its mitigation only to a request that names  *)
(* the finding, or because the finding the mitigation was written for is   *)
(* deleted: report generation never takes one away or replaces it          *)
(* (carryOverMitigations fills NULLs; ON DELETE SET NULL).                 *)
(***************************************************************************)
MitigationKept ==
    [][\A l \in links : l.finding \in findings' /\ l \notin links' =>
         \/ RemoveMitigation(l.finding)
         \/ \E k \in linking : k.finding = l.finding /\ LinkMitigation(k)
         \/ l.mitigation.finding \notin findings']_vars

(***************************************************************************)
(* An analysed version has the dependencies its own ref declares, in as    *)
(* far as the analyzers succeeded (AnalysisService::analyzeVersion).       *)
(***************************************************************************)
DependenciesOfOwnRef ==
    \A d \in deps : \E a \in Analyzer :
        << d.package, d.ver >> \in Manifest[d.version.project][d.version.ref][a]

(***************************************************************************)
(* Whatever jobs run at once, a version never has dependencies of another  *)
(* project (GitRepository::repoPath).                                      *)
(***************************************************************************)
DependenciesOfOwnProject ==
    \A d \in deps : \E r \in Ref, a \in Analyzer :
        << d.package, d.ver >> \in Manifest[d.version.project][r][a]

(***************************************************************************)
(* With nothing imported meanwhile, a completed report that still has its  *)
(* findings lists every pair of a dependency and a CVE that match, and no  *)
(* other (ReportEngine::generateReport).                                   *)
(***************************************************************************)
ReportIsExact ==
    MaxUpserts = 0 => \A r \in reports :
        FindingsOf(r) # {} /\ summary[r] # EmptySummary =>
            {<< f.dep, f.cve >> : f \in FindingsOf(r)} =
            {x \in DepsOf(r.version) \X Cve :
                /\ severity[x[2]] # NotImported
                /\ << x[1].package, x[1].ver >> \in AffectedBy[x[2]]}

(***************************************************************************)
(* Seen from outside, generateReport is one step although it opens no      *)
(* transaction: a report is made from the rows one SELECT returned and     *)
(* appears with all of its findings and counters that fit them, or with    *)
(* none when the rows were replaced meanwhile; afterwards it changes only  *)
(* by losing all its findings at once.  (A report is there once its        *)
(* counters are, and one of a version without dependencies never is.)      *)
(***************************************************************************)
Begun == {[report |-> rjob[j].report, rows |-> rjob[j].loaded] :
             j \in {i \in ReportJob : rjob[i].pc \in {"next", "finding"}}}

Published == [r \in {x \in reports : summary[x] # EmptySummary} |->
                 [list |-> FindingsOf(r), counts |-> summary[r]]]

A == INSTANCE AtomicReports WITH
    Rated     <- Counted,
    Frozen    <- MaxUpserts = 0,
    rows      <- deps,
    matched   <- [c \in Cve |-> AffectedRanges(c)],
    begun     <- Begun,
    published <- Published

ImplementsAtomicReports == A!Spec

(***************************************************************************)
(* Taking a mitigation off the last finding that refers to it deletes the  *)
(* record (MitigationController::remove).                                  *)
(***************************************************************************)
RemovedWithLastLink ==
    [][\A l \in links :
         /\ RemoveMitigation(l.finding)
         /\ \A k \in links : k.mitigation = l.mitigation => k = l
         => l.mitigation \notin mitigations']_vars

(***************************************************************************)
(* An analysis or a report that started ends, with its last statement, on  *)
(* a failure, or with the process; and the process comes back.             *)
(***************************************************************************)
JobsEnd ==
    /\ \A j \in AnalysisJob : ajob[j].pc # "idle" ~> up /\ ajob[j].pc = "idle"
    /\ \A j \in ReportJob : rjob[j].pc # "idle" ~> up /\ rjob[j].pc = "idle"
=============================================================================
