--------------------------- MODULE BlueDuck_proofs ---------------------------
(***************************************************************************)
(* Theorems of the daemon's specification, for any projects, refs, CVEs,   *)
(* jobs and bounds.                                                        *)
(***************************************************************************)
EXTENDS BlueDuck, FiniteSetTheorems, TLAPS

(***************************************************************************)
(* Dependency sets stay finite: what the counters of a report are typed    *)
(* by.                                                                     *)
(***************************************************************************)
DepsFinite ==
    /\ IsFiniteSet(deps)
    /\ \A j \in AnalysisJob : IsFiniteSet(ajob[j].deps)

(***************************************************************************)
(* A CVE with affected ranges, or with ranges about to be inserted, has    *)
(* its record: so a match always has a severity.                           *)
(***************************************************************************)
CveConsistent ==
    /\ RangesOfRecords
    /\ \A w \in Writer : writing[w].todo # {} => severity[writing[w].cve] # NotImported

-----------------------------------------------------------------------------

(***************************************************************************)
(* The cascade leaves well-typed tables.                                   *)
(***************************************************************************)
LEMMA RetainTyped ==
  ASSUME SchemaTypeOK, NEW V \in SUBSET VersionRow, NEW D \in SUBSET DependencyRow,
         Retain(V, D)
  PROVE  /\ versions' = V
         /\ deps' \subseteq DependencyRow /\ deps' \subseteq D
         /\ reports' \subseteq ReportRow /\ reports' \subseteq reports
         /\ summary' \in [reports' -> Summary]
         /\ findings' \subseteq FindingRow /\ findings' \subseteq findings
         /\ mitigations' \subseteq MitigationRow /\ mitigations' \subseteq mitigations
         /\ links' \subseteq Link /\ links' \subseteq links
<1>1. versions' = V /\ deps' \subseteq D
  BY DEF Retain
<1>2. reports' \subseteq reports /\ findings' \subseteq findings
      /\ mitigations' \subseteq mitigations /\ links' \subseteq links
  BY DEF Retain
<1>3. summary' \in [reports' -> Summary]
  BY <1>2 DEF Retain, SchemaTypeOK
<1> QED
  BY <1>1, <1>2, <1>3 DEF SchemaTypeOK

(***************************************************************************)
(* The rows an analysis inserts: of its version, from its batch, one for   *)
(* each package, finitely many.                                            *)
(***************************************************************************)
LEMMA BatchRowsTyped ==
  ASSUME AnalysisTypeOK, NEW j \in AnalysisJob, ajob[j].version \in VersionRow,
         IsFiniteSet(ajob[j].deps), NEW rows \in BatchRows(j)
  PROVE  /\ rows \subseteq DependencyRow
         /\ \A d \in rows : d.version = ajob[j].version /\ d.batch = ajob[j].batch
         /\ \A d, e \in rows : d.package = e.package => d = e
         /\ IsFiniteSet(rows)
<1> DEFINE found == ajob[j].deps
           names == {x[1] : x \in found}
           row(n, w) == [batch |-> ajob[j].batch, version |-> ajob[j].version,
                         package |-> n, ver |-> w]
<1>1. PICK ver \in [names -> PkgVersion] :
           /\ \A n \in names : << n, ver[n] >> \in found
           /\ rows = {row(n, ver[n]) : n \in names}
  BY DEF BatchRows
<1>2. found \subseteq Package \X PkgVersion /\ ajob[j].batch \in Nat
  BY DEF AnalysisTypeOK
<1>3. names \subseteq Package
  BY <1>2
<1>4. rows \subseteq DependencyRow
  BY <1>1, <1>2, <1>3 DEF DependencyRow
<1>5. \A d \in rows : d.version = ajob[j].version /\ d.batch = ajob[j].batch
  BY <1>1
<1>6. \A d, e \in rows : d.package = e.package => d = e
  BY <1>1
<1>7. IsFiniteSet(names)
  <2> DEFINE f == [x \in found |-> x[1]]
  <2>1. f \in Surjection(found, names)
    BY DEF Surjection
  <2> QED BY <2>1, FS_Surjection
<1>8. IsFiniteSet(rows)
  <2> DEFINE f == [n \in names |-> row(n, ver[n])]
  <2>1. f \in Surjection(names, rows)
    BY <1>1 DEF Surjection
  <2> QED BY <1>7, <2>1, FS_Surjection
<1> QED
  BY <1>4, <1>5, <1>6, <1>8

(***************************************************************************)
(* Every step of an analysis job keeps the state well typed and the        *)
(* dependency sets finite.                                                 *)
(***************************************************************************)
LEMMA AnalysisTyped ==
  ASSUME TypeOK, DepsFinite, NEW j \in AnalysisJob, AnalysisStep(j)
  PROVE  SchemaTypeOK' /\ AnalysisTypeOK' /\ DepsFinite'
<1> USE DEF TypeOK, AnalysisTypeOK, IdleAnalysis, AnalysisPc
<1>0. IsFiniteSet({})
  BY FS_EmptySet
<1>1. CASE LookupVersion(j)
  BY <1>0, <1>1 DEF LookupVersion, SchemaTypeOK, tables, DepsFinite
<1>2. ajob[j].version \in VersionRow =>
        CheckedOut(j) \in [Project -> Checkedout]
  BY DEF CheckedOut, RepoPath, Checkedout, VersionRow
<1>3. CASE Checkout(j) \/ CheckoutFails(j)
  <2>1. tree' \in [Project -> Checkedout]
    BY <1>2, <1>3 DEF Checkout, CheckoutFails
  <2>2. SchemaTypeOK'
    BY <1>3 DEF Checkout, CheckoutFails, SchemaTypeOK, tables
  <2>3. \E job \in {IdleAnalysis, Analyzing(j, Analyzer, {})} :
           ajob' = [ajob EXCEPT ![j] = job]
    BY <1>3 DEF Checkout, CheckoutFails
  <2>4. AnalysisTypeOK'
    BY <1>3, <2>1, <2>3 DEF Checkout, CheckoutFails, Analyzing
  <2>6. \A i \in AnalysisJob : ajob'[i].deps \in {{}, ajob[i].deps}
    BY <2>3 DEF Analyzing
  <2>7. deps' = deps
    BY <1>3 DEF Checkout, CheckoutFails, tables
  <2>5. DepsFinite'
    <3> HIDE DEF TypeOK, AnalysisTypeOK
    <3> QED BY <1>0, <2>6, <2>7 DEF DepsFinite
  <2> QED
    BY <2>2, <2>4, <2>5
<1>4. ASSUME NEW a \in Analyzer, RunAnalyzer(j, a)
      PROVE  SchemaTypeOK' /\ AnalysisTypeOK' /\ DepsFinite'
  <2> DEFINE t    == tree[RepoPath(ajob[j].version.project)]
             held == Manifest[t.project][t.ref][a]
  <2>1. t.project \in Project /\ t.ref \in Ref
    BY <1>4 DEF RunAnalyzer, VersionRow, RepoPath, Checkedout
  <2>a. held \subseteq Package \X PkgVersion /\ IsFiniteSet(held)
    BY <2>1, ManifestAssumption
  <2>b. \E found \in SUBSET held :
           ajob' = [ajob EXCEPT ![j] = Analyzing(j, ajob[j].todo \ {a}, ajob[j].deps \cup found)]
    BY <1>4 DEF RunAnalyzer
  <2> HIDE DEF held
  <2>c. PICK new \in SUBSET held :
           ajob' = [ajob EXCEPT ![j] = Analyzing(j, ajob[j].todo \ {a}, ajob[j].deps \cup new)]
    BY <2>b
  <2>2. new \subseteq Package \X PkgVersion /\ IsFiniteSet(new)
    BY <2>a, FS_Subset
  <2> HIDE DEF t
  <2>3. IsFiniteSet(ajob[j].deps \cup new)
    BY <2>2, FS_Union DEF DepsFinite
  <2>4. ajob' = [ajob EXCEPT ![j] = Analyzing(j, ajob[j].todo \ {a}, ajob[j].deps \cup new)]
    BY <2>c
  <2>5. AnalysisTypeOK'
    BY <1>4, <2>2, <2>4 DEF RunAnalyzer, Analyzing
  <2>6. SchemaTypeOK'
    BY <1>4 DEF RunAnalyzer, SchemaTypeOK, tables
  <2>7. \A i \in AnalysisJob :
           ajob'[i].deps \in {ajob[j].deps \cup new, ajob[i].deps}
    BY <2>4 DEF Analyzing
  <2>8. deps' = deps
    BY <1>4 DEF RunAnalyzer, tables
  <2>9. DepsFinite'
    <3> HIDE DEF TypeOK, AnalysisTypeOK
    <3> QED BY <2>3, <2>7, <2>8 DEF DepsFinite
  <2> QED
    BY <2>5, <2>6, <2>9
<1>5. ASSUME NEW a \in Analyzer, AnalyzerFails(j, a)
      PROVE  SchemaTypeOK' /\ AnalysisTypeOK' /\ DepsFinite'
  BY <1>5 DEF AnalyzerFails, Analyzing, SchemaTypeOK, tables, DepsFinite
<1>6. CASE StoreDependencies(j)
  <2> DEFINE v == ajob[j].version
  <2>1. v \in VersionRow
    BY <1>6 DEF StoreDependencies
  <2>2. AnalysisTypeOK'
    BY <1>6 DEF StoreDependencies
  <2>4. ASSUME v \in versions, NEW rows \in BatchRows(j),
               Retain(versions, RowsLeft(v) \cup rows),
               analyzed' = analyzed \cup {v}, UNCHANGED << projects, up >>
        PROVE  SchemaTypeOK' /\ DepsFinite'
    <3>1. rows \subseteq DependencyRow /\ IsFiniteSet(rows)
      BY <2>1, BatchRowsTyped DEF DepsFinite
    <3>2. IsFiniteSet(RowsLeft(v)) /\ RowsLeft(v) \subseteq DependencyRow
      BY FS_Subset DEF DepsFinite, RowsLeft, SchemaTypeOK
    <3>3. IsFiniteSet(RowsLeft(v) \cup rows)
      BY <3>1, <3>2, FS_Union
    <3>4. RowsLeft(v) \cup rows \in SUBSET DependencyRow /\ versions \in SUBSET VersionRow
      BY <3>1, <3>2 DEF SchemaTypeOK
    <3>5. /\ versions' = versions
          /\ deps' \subseteq DependencyRow /\ deps' \subseteq RowsLeft(v) \cup rows
          /\ reports' \subseteq ReportRow
          /\ summary' \in [reports' -> Summary]
          /\ findings' \subseteq FindingRow
          /\ mitigations' \subseteq MitigationRow
          /\ links' \subseteq Link
      BY <2>4, <3>4, RetainTyped
    <3>6. IsFiniteSet(deps')
      BY <3>3, <3>5, FS_Subset
    <3>7. SchemaTypeOK'
      BY <2>4, <3>5 DEF SchemaTypeOK
    <3> QED
      BY <1>0, <1>6, <3>6, <3>7 DEF DepsFinite, StoreDependencies
  <2>5. CASE UNCHANGED tables /\ up' \in BOOLEAN
    BY <1>0, <1>6, <2>5 DEF DepsFinite, StoreDependencies, SchemaTypeOK, tables
  <2> QED
    BY <1>6, <2>2, <2>4, <2>5 DEF StoreDependencies, SchemaTypeOK
<1> QED
  BY <1>1, <1>3, <1>4, <1>5, <1>6 DEF AnalysisStep

(***************************************************************************)
(* Counting a finding of any severity yields counters.                     *)
(***************************************************************************)
LEMMA CountTyped ==
  ASSUME NEW s, NEW c \in Summary
  PROVE  Count(s, c) \in Summary
BY DEF Count, Summary

(***************************************************************************)
(* Every step of a report job keeps the state well typed.                  *)
(***************************************************************************)
LEMMA ReportTyped ==
  ASSUME TypeOK, DepsFinite, RangesOfRecords, NEW j \in ReportJob, ReportStep(j)
  PROVE  SchemaTypeOK' /\ ReportTypeOK' /\ deps' = deps
<1> USE DEF TypeOK, ReportTypeOK, IdleReport, ReportPc
<1>1. EmptySummary \in Summary
  BY DEF EmptySummary, Summary
<1>2. CASE InsertReport(j)
  <2>1. rjob[j].report \in ReportRow
    BY <1>2 DEF InsertReport
  <2>2. CASE rjob[j].report.version \in versions
    <3>1. summary' \in [reports' -> Summary] /\ reports' \subseteq ReportRow
      BY <1>1, <1>2, <2>1, <2>2 DEF InsertReport, SchemaTypeOK
    <3>2. rjob' = [rjob EXCEPT ![j].pc = "load"]
      BY <1>2, <2>2 DEF InsertReport
    <3>3. ReportTypeOK'
      BY <1>2, <2>1, <3>2 DEF InsertReport
    <3> QED
      BY <1>2, <2>2, <3>1, <3>3 DEF InsertReport, SchemaTypeOK
  <2>3. CASE rjob[j].report.version \notin versions
    BY <1>2, <2>3 DEF InsertReport, SchemaTypeOK
  <2> QED
    BY <2>2, <2>3
<1>3. CASE LoadDependencies(j)
  <2> DEFINE rows == RowsToScan(rjob[j].report.version)
  <2>1. rows \in SUBSET DependencyRow /\ rows \in SUBSET deps
    BY DEF RowsToScan, DepsOf, SchemaTypeOK
  <2>2. Cardinality(rows) \in Nat
    BY <2>1, FS_Subset, FS_CardinalityType DEF DepsFinite
  <2>3. [EmptySummary EXCEPT !.total = Cardinality(rows)] \in Summary
    BY <2>2 DEF Summary, EmptySummary
  <2>4. ReportTypeOK'
    BY <1>3, <2>1, <2>3 DEF LoadDependencies, Scanning
  <2> QED
    BY <1>3, <2>4 DEF LoadDependencies, SchemaTypeOK, tables
<1>4. CASE MatchDependency(j)
  <2>1. \A d \in rjob[j].deps : MatchingCves(d) \subseteq [cve : Cve, severity : Severity]
    BY DEF MatchingCves, RangesOfRecords, CveTypeOK
  <2>2. ReportTypeOK'
    BY <1>4, <2>1 DEF MatchDependency, Scanning, Rest
  <2> QED
    BY <1>4, <2>2 DEF MatchDependency, SchemaTypeOK, tables
<1>5. CASE InsertFinding(j)
  <2>1. rjob[j].report \in ReportRow /\ rjob[j].dep \in DependencyRow
    BY <1>5 DEF InsertFinding
  <2> DEFINE r == rjob[j].report
             d == rjob[j].dep
  <2>2. PICK m \in rjob[j].matches :
           \/ /\ findings' = findings \cup
                    {[report |-> r, dep |-> d, cve |-> m.cve, severity |-> m.severity]}
              /\ rjob' = [rjob EXCEPT ![j] = Scanning(j, rjob[j].loaded, rjob[j].deps,
                    d, rjob[j].matches \ {m}, Count(m.severity, rjob[j].counts))]
              /\ up' = up
           \/ up' = FALSE /\ findings' = findings /\ rjob' = rjob
    BY <1>5 DEF InsertFinding
  <2>3. m.cve \in Cve /\ m.severity \in Severity
    OBVIOUS
  <2>4. Count(m.severity, rjob[j].counts) \in Summary
    BY CountTyped
  <2> DEFINE job == Scanning(j, rjob[j].loaded, rjob[j].deps, d, rjob[j].matches \ {m},
                             Count(m.severity, rjob[j].counts))
  <2>5. /\ job \in [pc : ReportPc, report : ReportRow \cup {NoRow},
                    loaded : SUBSET DependencyRow,
                    deps : SUBSET DependencyRow, dep : DependencyRow \cup {NoRow},
                    matches : SUBSET [cve : Cve, severity : Severity], counts : Summary]
        /\ job.report = r /\ job.dep = d
    BY <2>1, <2>4 DEF Scanning
  <2> HIDE DEF job
  <2>6. ReportTypeOK'
    BY <1>5, <2>1, <2>2, <2>5 DEF InsertFinding, job
  <2>7. [report |-> r, dep |-> d, cve |-> m.cve, severity |-> m.severity] \in FindingRow
    BY <2>1, <2>3 DEF FindingRow
  <2>8. findings' \subseteq FindingRow /\ up' \in BOOLEAN
    BY <2>2, <2>7 DEF SchemaTypeOK
  <2> QED
    BY <1>5, <2>6, <2>8 DEF InsertFinding, SchemaTypeOK
<1>6. CASE UpdateReportSummary(j)
  BY <1>6 DEF UpdateReportSummary, SchemaTypeOK
<1>7. CASE CarryOverMitigations(j)
  <2> DEFINE open == OpenFindings(rjob[j].report)
  <2>1. open \subseteq FindingRow
    BY DEF OpenFindings, FindingsOf, SchemaTypeOK
  <2>2. links' \subseteq Link
    BY <1>7, <2>1 DEF CarryOverMitigations, SchemaTypeOK, Link
  <2> QED
    BY <1>1, <1>7, <2>2 DEF CarryOverMitigations, SchemaTypeOK
<1> QED
  BY <1>2, <1>3, <1>4, <1>5, <1>6, <1>7 DEF ReportStep

(***************************************************************************)
(* The CVE tables stay well typed, and no range precedes its record.       *)
(***************************************************************************)
LEMMA CveTyped ==
  ASSUME TypeOK, CveConsistent, [Next]_vars
  PROVE  CveTypeOK' /\ CveConsistent'
<1> DEFINE cveVars == << severity, affected, writing >>
<1>1. CASE UNCHANGED cveVars
  BY <1>1 DEF TypeOK, CveTypeOK, CveConsistent, RangesOfRecords, AffectedRanges
<1>2. ASSUME NEW w \in Writer, NEW c \in Cve, NEW s \in Severity, UpsertCve(w, c, s)
      PROVE  CveTypeOK' /\ CveConsistent'
  <2>1. AffectedBy[c] \in SUBSET VersionedPackage
    BY FeedAssumption DEF VersionedPackage
  <2>2. /\ severity' = [severity EXCEPT ![c] = s]
        /\ writing' = [writing EXCEPT ![w] = [cve |-> c, todo |-> AffectedBy[c]]]
        /\ affected' = affected
    BY <1>2 DEF UpsertCve, UpsertCveRecord
  <2>3. s # NotImported
    BY DEF Severity, Counted, NotImported
  <2>4. CveTypeOK'
    BY <2>1, <2>2 DEF TypeOK, CveTypeOK, VersionedPackage
  <2>5. RangesOfRecords'
    BY <2>2, <2>3 DEF CveConsistent, RangesOfRecords, AffectedRanges, TypeOK, CveTypeOK
  <2>6. \A v \in Writer : writing'[v].todo # {} => severity'[writing'[v].cve] # NotImported
    BY <2>2, <2>3 DEF CveConsistent, TypeOK, CveTypeOK
  <2> QED
    BY <2>4, <2>5, <2>6 DEF CveConsistent
<1>3. ASSUME NEW w \in Writer, WritingProceeds(w)
      PROVE  CveTypeOK' /\ CveConsistent'
  <2>1. PICK x \in writing[w].todo : InsertAffectedProduct(w, x)
    BY <1>3 DEF WritingProceeds
  <2> DEFINE row == [cve |-> writing[w].cve, range |-> x]
  <2>2. /\ affected' \in {affected, [affected EXCEPT ![row] = @ + 1]}
        /\ writing' = [writing EXCEPT ![w] =
                          [cve |-> writing[w].cve, todo |-> writing[w].todo \ {x}]]
        /\ severity' = severity
    BY <2>1 DEF InsertAffectedProduct, OneMore
  <2>3. x \in VersionedPackage /\ writing[w].cve \in Cve /\ severity[writing[w].cve] # NotImported
    BY <2>1 DEF InsertAffectedProduct, CveConsistent, TypeOK, CveTypeOK, VersionedPackage
  <2>4. row \in AffectedRow
    BY <2>3 DEF AffectedRow, VersionedPackage
  <2>5. CveTypeOK'
    BY <2>2, <2>3, <2>4 DEF TypeOK, CveTypeOK
  <2>6. \A y \in AffectedRow : affected'[y] > 0 => affected[y] > 0 \/ y = row
    BY <2>2, <2>4 DEF TypeOK, CveTypeOK
  <2>7. \A c \in Cve : AffectedRanges(c)' # {} => AffectedRanges(c) # {} \/ c = writing[w].cve
    BY <2>6 DEF AffectedRanges, AffectedRow
  <2>8. RangesOfRecords'
    BY <2>2, <2>3, <2>7 DEF CveConsistent, RangesOfRecords
  <2>9. \A v \in Writer : writing'[v].todo # {} => severity'[writing'[v].cve] # NotImported
    BY <2>2, <2>3 DEF CveConsistent, TypeOK, CveTypeOK
  <2> QED
    BY <2>5, <2>8, <2>9 DEF CveConsistent
<1>4. CASE Restart
  <2>1. writing' = [w \in Writer |-> IdleWriter] /\ severity' = severity /\ affected' = affected
    BY <1>4 DEF Restart, tables
  <2> QED
    BY <2>1 DEF IdleWriter, TypeOK, CveTypeOK, CveConsistent, RangesOfRecords, AffectedRanges
<1>5. ASSUME NEW j \in AnalysisJob, AnalysisProceeds(j)
      PROVE  UNCHANGED cveVars
  BY <1>5 DEF AnalysisProceeds, AnalysisStep, LookupVersion, Checkout, CheckoutFails,
              RunAnalyzer, AnalyzerFails, StoreDependencies, tables
<1>6. ASSUME NEW j \in ReportJob, ReportProceeds(j)
      PROVE  UNCHANGED cveVars
  BY <1>6 DEF ReportProceeds, ReportStep, InsertReport, LoadDependencies, MatchDependency,
              InsertFinding, UpdateReportSummary, CarryOverMitigations, tables
<1>7. CASE LinkingProceeds \/ Crash \/ UNCHANGED vars
  BY <1>1, <1>7 DEF LinkingProceeds, LinkMitigation, Crash, vars, tables
<1>8. CASE Request
  BY <1>1, <1>2, <1>8
     DEF Request, AnalyzeRequest, ReportRequest, CreateMitigation, RemoveMitigation,
         SyncVersion, RemoveVersion, RemoveProject, tables
<1> QED
  BY <1>1, <1>2, <1>3, <1>4, <1>5, <1>6, <1>7, <1>8 DEF Next

(***************************************************************************)
(* Type correctness, with the finiteness it rests on.                      *)
(***************************************************************************)
LEMMA InitTyped == Init => TypeOK /\ DepsFinite /\ CveConsistent
<1> SUFFICES ASSUME Init PROVE TypeOK /\ DepsFinite /\ CveConsistent
  OBVIOUS
<1>0. CveTypeOK /\ CveConsistent
  <2>1. severity \in [Cve -> Severity \cup {NotImported}]
    BY FeedAssumption DEF Init
  <2>2. writing \in [Writer -> {IdleWriter}]
    BY DEF Init
  <2>3. \A row \in AffectedRow :
           affected[row] \in Nat /\ (affected[row] > 0 => severity[row.cve] # NotImported)
    BY DEF Init
  <2>4. affected \in [AffectedRow -> Nat]
    BY DEF Init
  <2>5. RangesOfRecords
    <3> SUFFICES ASSUME NEW c \in Cve, NEW x \in AffectedRanges(c)
                 PROVE  severity[c] # NotImported
      BY DEF RangesOfRecords
    <3> DEFINE row == [cve |-> c, range |-> x]
    <3>1. row \in AffectedRow /\ affected[row] > 0
      BY DEF AffectedRow, AffectedRanges
    <3>2. row.cve = c
      OBVIOUS
    <3> HIDE DEF row
    <3> QED
      BY <2>3, <3>1, <3>2
  <2> QED
    BY <2>1, <2>2, <2>4, <2>5 DEF IdleWriter, CveTypeOK, CveConsistent
<1>1. SchemaTypeOK
  BY DEF Init, EmptyTables, SchemaTypeOK
<1>2. AnalysisTypeOK
  BY DEF Init, AnalysisInit, AnalysisTypeOK, IdleAnalysis, AnalysisPc
<1>3. EmptySummary \in Summary
  BY DEF EmptySummary, Summary
<1>4. ReportTypeOK
  BY <1>3 DEF Init, ReportInit, ReportTypeOK, IdleReport, ReportPc
<1>5. MitigationTypeOK
  BY DEF Init, MitigationInit, MitigationTypeOK
<1>6. DepsFinite
  BY FS_EmptySet DEF Init, EmptyTables, AnalysisInit, IdleAnalysis, DepsFinite
<1> QED
  BY <1>0, <1>1, <1>2, <1>4, <1>5, <1>6 DEF TypeOK, Init

LEMMA NextTyped ==
  TypeOK /\ DepsFinite /\ CveConsistent /\ [Next]_vars =>
      TypeOK' /\ DepsFinite' /\ CveConsistent'
<1> SUFFICES ASSUME TypeOK, DepsFinite, CveConsistent, [Next]_vars
             PROVE  TypeOK' /\ DepsFinite'
  BY CveTyped
<1>0. CveTypeOK'
  BY CveTyped
<1> USE <1>0 DEF boundVars
<1>1. ASSUME NEW j \in AnalysisJob, AnalysisProceeds(j)
      PROVE  TypeOK' /\ DepsFinite'
  BY <1>1, AnalysisTyped
     DEF AnalysisProceeds, TypeOK, reportVars, mitigationVars, ReportTypeOK, MitigationTypeOK
<1>2. ASSUME NEW j \in ReportJob, ReportProceeds(j)
      PROVE  TypeOK' /\ DepsFinite'
  BY <1>2, ReportTyped
     DEF CveConsistent, ReportProceeds, TypeOK, analysisVars, mitigationVars, AnalysisTypeOK,
         MitigationTypeOK, DepsFinite
<1>3. CASE LinkingProceeds
  BY <1>3
     DEF LinkingProceeds, LinkMitigation, Relink, TypeOK, analysisVars, reportVars,
         SchemaTypeOK, AnalysisTypeOK, ReportTypeOK, MitigationTypeOK, DepsFinite
<1>4. ASSUME NEW j \in AnalysisJob, NEW v \in versions, AnalyzeRequest(j, v),
             UNCHANGED << writing, reportVars, mitigationVars, boundVars >>
      PROVE  TypeOK' /\ DepsFinite'
  BY <1>4, FS_EmptySet
     DEF AnalyzeRequest, TypeOK, tables, reportVars, mitigationVars,
         SchemaTypeOK, AnalysisTypeOK, AnalysisPc, ReportTypeOK, MitigationTypeOK, DepsFinite
<1>5. ASSUME NEW j \in ReportJob, NEW v \in versions, ReportRequest(j, v),
             UNCHANGED << writing, analysisVars, mitigationVars, boundVars >>
      PROVE  TypeOK' /\ DepsFinite'
  <2>1. EmptySummary \in Summary
    BY DEF EmptySummary, Summary
  <2>2. [id |-> requested + 1, version |-> v] \in ReportRow
    BY DEF ReportRow, TypeOK, ReportTypeOK, SchemaTypeOK
  <2>3. ReportTypeOK'
    BY <1>5, <2>1, <2>2 DEF ReportRequest, TypeOK, ReportTypeOK, ReportPc
  <2> QED
    BY <1>5, <2>3
       DEF ReportRequest, TypeOK, tables, analysisVars, mitigationVars,
           SchemaTypeOK, AnalysisTypeOK, MitigationTypeOK, DepsFinite
<1>6. ASSUME NEW fs \in BulkRequests, NEW f \in fs, CreateMitigation(fs, f),
             UNCHANGED << writing, analysisVars, reportVars, boundVars >>
      PROVE  TypeOK' /\ DepsFinite'
  <2> DEFINE m == [id |-> created + 1, finding |-> f]
  <2>1. fs \subseteq FindingRow
    BY DEF BulkRequests, TypeOK, SchemaTypeOK
  <2>2. m \in MitigationRow
    BY <2>1 DEF MitigationRow, TypeOK, MitigationTypeOK
  <2>3. {[finding |-> g, mitigation |-> m] : g \in fs} \subseteq Link
    BY <2>1, <2>2 DEF Link
  <2> HIDE DEF m
  <2>4. /\ mitigations' = mitigations \cup {m}
        /\ linking' = linking \cup {[finding |-> g, mitigation |-> m] : g \in fs}
        /\ created' = created + 1
    BY <1>6 DEF CreateMitigation, m
  <2>5. MitigationTypeOK' /\ mitigations' \subseteq MitigationRow
    BY <2>2, <2>3, <2>4 DEF TypeOK, MitigationTypeOK, SchemaTypeOK
  <2> QED
    BY <1>6, <2>5
       DEF CreateMitigation, TypeOK, analysisVars, reportVars,
           SchemaTypeOK, AnalysisTypeOK, ReportTypeOK, DepsFinite
<1>7. ASSUME NEW f \in findings, RemoveMitigation(f),
             UNCHANGED << writing, analysisVars, reportVars, boundVars >>
      PROVE  TypeOK' /\ DepsFinite'
  BY <1>7
     DEF RemoveMitigation, TypeOK, analysisVars, reportVars, mitigationVars,
         SchemaTypeOK, AnalysisTypeOK, ReportTypeOK, MitigationTypeOK, DepsFinite
<1>8. ASSUME NEW p \in Project, NEW r \in Ref, SyncVersion(p, r)
      PROVE  TypeOK' /\ DepsFinite'
  <2>1. [id |-> inserted + 1, project |-> p, ref |-> r] \in VersionRow
    BY DEF VersionRow, TypeOK
  <2> QED
    BY <1>8, <2>1
       DEF SyncVersion, TypeOK, analysisVars, reportVars, mitigationVars,
           SchemaTypeOK, AnalysisTypeOK, ReportTypeOK, MitigationTypeOK, DepsFinite
<1>9. ASSUME NEW V \in SUBSET versions, Retain(V, deps), analyzed' \subseteq V,
             projects' \subseteq projects, UNCHANGED << up, analysisVars, reportVars,
                                                       mitigationVars, boundVars >>
      PROVE  TypeOK' /\ DepsFinite'
  <2>1. V \in SUBSET VersionRow /\ deps \in SUBSET DependencyRow
    BY DEF TypeOK, SchemaTypeOK
  <2>2. /\ versions' = V /\ deps' \subseteq deps
        /\ deps' \subseteq DependencyRow
        /\ reports' \subseteq ReportRow
        /\ summary' \in [reports' -> Summary]
        /\ findings' \subseteq FindingRow
        /\ mitigations' \subseteq MitigationRow
        /\ links' \subseteq Link
    BY <1>9, <2>1, RetainTyped DEF TypeOK
  <2>3. IsFiniteSet(deps')
    BY <2>2, FS_Subset DEF DepsFinite
  <2>4. SchemaTypeOK'
    BY <1>9, <2>1, <2>2 DEF TypeOK, SchemaTypeOK
  <2> QED
    BY <1>9, <2>3, <2>4
       DEF TypeOK, analysisVars, reportVars, mitigationVars,
           AnalysisTypeOK, ReportTypeOK, MitigationTypeOK, DepsFinite
<1>10. ASSUME NEW v \in versions, RemoveVersion(v)
       PROVE  TypeOK' /\ DepsFinite'
  BY <1>9, <1>10 DEF RemoveVersion, TypeOK, SchemaTypeOK
<1>11. ASSUME NEW p \in projects, RemoveProject(p)
       PROVE  TypeOK' /\ DepsFinite'
  BY <1>9, <1>11 DEF RemoveProject, TypeOK, SchemaTypeOK
<1>12. ASSUME NEW w \in Writer,
              WritingProceeds(w) \/ \E c \in Cve, s \in Severity : UpsertCve(w, c, s)
       PROVE  TypeOK' /\ DepsFinite'
  BY <1>12
     DEF WritingProceeds, UpsertCve, TypeOK, analysisVars, reportVars, mitigationVars,
         SchemaTypeOK, AnalysisTypeOK, ReportTypeOK, MitigationTypeOK, DepsFinite
<1>13. CASE Crash
  <2>1. SchemaTypeOK'
    BY <1>13 DEF Crash, TypeOK, tables, SchemaTypeOK
  <2>2. AnalysisTypeOK' /\ ReportTypeOK' /\ MitigationTypeOK' /\ DepsFinite'
    BY <1>13
       DEF Crash, TypeOK, tables, analysisVars, reportVars, mitigationVars,
           AnalysisTypeOK, ReportTypeOK, MitigationTypeOK, DepsFinite
  <2> QED
    BY <1>13, <2>1, <2>2 DEF Crash, TypeOK
<1>14. CASE Restart
  <2>1. EmptySummary \in Summary
    BY DEF EmptySummary, Summary
  <2> QED
    BY <1>14, <2>1, FS_EmptySet
       DEF Restart, TypeOK, tables, IdleAnalysis, IdleReport, AnalysisPc, ReportPc,
           SchemaTypeOK, AnalysisTypeOK, ReportTypeOK, MitigationTypeOK, DepsFinite
<1>15. CASE UNCHANGED vars
  BY <1>15
     DEF vars, TypeOK, tables, analysisVars, reportVars, mitigationVars,
         SchemaTypeOK, AnalysisTypeOK, ReportTypeOK, MitigationTypeOK, DepsFinite
<1> QED
  BY <1>1, <1>2, <1>3, <1>4, <1>5, <1>6, <1>7, <1>8, <1>10, <1>11, <1>12, <1>13,
     <1>14, <1>15 DEF Next, Request

(***************************************************************************)
(* Tables and job variables always hold what their columns and             *)
(* declarations allow.                                                     *)
(***************************************************************************)
THEOREM TypeCorrect == Spec => [](TypeOK /\ DepsFinite /\ CveConsistent)
BY InitTyped, NextTyped, PTL DEF Spec

-----------------------------------------------------------------------------

(***************************************************************************)
(* What makes the relations between the tables inductive: a report job     *)
(* holds rows of the version it reports on only.                           *)
(***************************************************************************)
ScansOwnVersion ==
    \A j \in ReportJob :
        /\ \A d \in rjob[j].deps : d.version = rjob[j].report.version
        /\ rjob[j].pc = "finding" => rjob[j].dep.version = rjob[j].report.version

Consistent ==
    /\ ForeignKeys
    /\ OneLinkPerFinding
    /\ FindingWithinVersion
    /\ OneBatchPerVersion
    /\ ScansOwnVersion

(***************************************************************************)
(* The cascade keeps the foreign keys, whatever versions V and dependency  *)
(* rows D it is given, if projects still has the projects of V.            *)
(***************************************************************************)
LEMMA RetainConsistent ==
  ASSUME Consistent, NEW V, NEW D, Retain(V, D),
         \A v \in V : v.project \in projects'
  PROVE  ForeignKeys' /\ OneLinkPerFinding' /\ FindingWithinVersion'
<1> USE DEF Retain
<1>1. \A d \in deps' : d.version \in versions'
  OBVIOUS
<1>2. \A r \in reports' : r.version \in versions'
  OBVIOUS
<1>3. \A f \in findings' : f \in findings /\ f.report \in reports' /\ f.dep \in deps'
  OBVIOUS
<1>4. \A m \in mitigations' : m.finding \in findings'
  OBVIOUS
<1>5. \A l \in links' : l \in links /\ l.finding \in findings' /\ l.mitigation \in mitigations'
  OBVIOUS
<1>6. ForeignKeys'
  BY <1>1, <1>2, <1>3, <1>4, <1>5 DEF ForeignKeys
<1> QED
  BY <1>3, <1>5, <1>6 DEF Consistent, OneLinkPerFinding, FindingWithinVersion

LEMMA AnalysisConsistent ==
  ASSUME TypeOK, DepsFinite, Consistent, NEW j \in AnalysisJob, AnalysisProceeds(j)
  PROVE  Consistent'
<1>1. ScansOwnVersion'
  BY DEF AnalysisProceeds, reportVars, Consistent, ScansOwnVersion
<1>2. ASSUME UNCHANGED tables
      PROVE  Consistent'
  BY <1>1, <1>2 DEF tables, Consistent, ForeignKeys, OneLinkPerFinding,
                    FindingWithinVersion, OneBatchPerVersion
<1>3. CASE StoreDependencies(j) /\ ajob[j].version \in versions
  <2> DEFINE v == ajob[j].version
  <2>1. PICK rows \in BatchRows(j) : Retain(versions, RowsLeft(v) \cup rows)
    BY <1>3 DEF StoreDependencies
  <2>2. projects' = projects
    BY <1>3 DEF StoreDependencies, tables
  <2>3. ForeignKeys' /\ OneLinkPerFinding' /\ FindingWithinVersion'
    BY <2>1, <2>2, RetainConsistent DEF Consistent, ForeignKeys
  <2>4. /\ \A d \in rows : d.version = v /\ d.batch = ajob[j].batch
        /\ \A d, e \in rows : d.package = e.package => d = e
    <3>1. v \in VersionRow /\ IsFiniteSet(ajob[j].deps) /\ AnalysisTypeOK
      BY <1>3 DEF StoreDependencies, TypeOK, AnalysisTypeOK, DepsFinite
    <3> QED
      BY <3>1, BatchRowsTyped
  <2>5. \A d \in deps' : d \in rows \/ (d \in deps /\ d.version # v)
    BY <2>1 DEF Retain, RowsLeft
  <2>6. OneBatchPerVersion'
    BY <2>4, <2>5 DEF Consistent, OneBatchPerVersion
  <2> QED
    BY <1>1, <2>3, <2>6 DEF Consistent
<1>4. UNCHANGED tables \/ (StoreDependencies(j) /\ ajob[j].version \in versions)
  BY DEF AnalysisProceeds, AnalysisStep, LookupVersion, Checkout, CheckoutFails,
         RunAnalyzer, AnalyzerFails, StoreDependencies
<1> QED
  BY <1>2, <1>3, <1>4

LEMMA ReportConsistent ==
  ASSUME TypeOK, Consistent, NEW j \in ReportJob, ReportProceeds(j)
  PROVE  Consistent'
<1> USE DEF TypeOK, ReportTypeOK
<1>1. CASE InsertReport(j)
  <2> DEFINE load == [rjob[j] EXCEPT !.pc = "load"]
  <2>0. /\ load.pc = "load" /\ load.deps = rjob[j].deps
        /\ load.report = rjob[j].report
    OBVIOUS
  <2>1. rjob' = [rjob EXCEPT ![j] = load] \/ rjob' = rjob
    BY <1>1 DEF InsertReport
  <2> HIDE DEF load
  <2>2. ScansOwnVersion'
    BY <2>0, <2>1 DEF Consistent, ScansOwnVersion
  <2> QED
    BY <1>1, <2>2 DEF InsertReport, Consistent, ForeignKeys, OneLinkPerFinding,
                      FindingWithinVersion, OneBatchPerVersion
<1>2. CASE LoadDependencies(j)
  <2>1. ScansOwnVersion'
    BY <1>2 DEF LoadDependencies, Scanning, RowsToScan, DepsOf, Consistent, ScansOwnVersion
  <2> QED
    BY <1>2, <2>1 DEF LoadDependencies, tables, Consistent, ForeignKeys,
                      OneLinkPerFinding, FindingWithinVersion, OneBatchPerVersion
<1>3. CASE MatchDependency(j)
  <2>1. ScansOwnVersion'
    BY <1>3 DEF MatchDependency, Scanning, Rest, Consistent, ScansOwnVersion
  <2> QED
    BY <1>3, <2>1 DEF MatchDependency, tables, Consistent, ForeignKeys,
                      OneLinkPerFinding, FindingWithinVersion, OneBatchPerVersion
<1>4. CASE InsertFinding(j)
  <2> DEFINE r == rjob[j].report
             d == rjob[j].dep
             row(m) == [report |-> r, dep |-> d, cve |-> m.cve, severity |-> m.severity]
  <2>1. PICK m \in rjob[j].matches :
           \/ /\ r \in reports /\ d \in deps
              /\ findings' = findings \cup {row(m)}
              /\ rjob' = [rjob EXCEPT ![j] = Scanning(j, rjob[j].loaded, rjob[j].deps,
                    d, rjob[j].matches \ {m}, Count(m.severity, rjob[j].counts))]
           \/ findings' = findings /\ rjob' = rjob
    BY <1>4 DEF InsertFinding
  <2>2. d.version = r.version
    BY <1>4 DEF InsertFinding, Consistent, ScansOwnVersion
  <2>3. ScansOwnVersion'
    BY <2>1, <2>2 DEF Scanning, Consistent, ScansOwnVersion
  <2>4. \A f \in findings' : f \in findings \/ (f.report = r /\ f.dep = d /\ r \in reports /\ d \in deps)
    BY <2>1
  <2>5. findings \subseteq findings'
    BY <2>1
  <2>6. UNCHANGED << projects, versions, deps, reports, mitigations, links >>
    BY <1>4 DEF InsertFinding
  <2>7. ForeignKeys'
    BY <2>4, <2>5, <2>6 DEF Consistent, ForeignKeys
  <2>8. FindingWithinVersion'
    BY <2>2, <2>4 DEF Consistent, FindingWithinVersion
  <2> QED
    BY <2>3, <2>6, <2>7, <2>8 DEF Consistent, OneLinkPerFinding, OneBatchPerVersion
<1>5. CASE UpdateReportSummary(j)
  <2>1. ScansOwnVersion'
    BY <1>5 DEF UpdateReportSummary, Consistent, ScansOwnVersion
  <2> QED
    BY <1>5, <2>1 DEF UpdateReportSummary, Consistent, ForeignKeys, OneLinkPerFinding,
                      FindingWithinVersion, OneBatchPerVersion
<1>6. CASE CarryOverMitigations(j)
  <2> DEFINE open == OpenFindings(rjob[j].report)
  <2>1. PICK taken \in [open -> mitigations] :
           links' = {l \in links : l.finding \notin open} \cup
                    {[finding |-> f, mitigation |-> taken[f]] : f \in open}
    BY <1>6 DEF CarryOverMitigations
  <2>2. \A l \in links' : \/ l \in links /\ l.finding \notin open
                          \/ l.finding \in open /\ l.mitigation = taken[l.finding]
                             /\ l = [finding |-> l.finding, mitigation |-> taken[l.finding]]
    BY <2>1
  <2>3. open \subseteq findings
    BY DEF OpenFindings, FindingsOf
  <2>4. UNCHANGED << projects, versions, deps, reports, findings, mitigations >>
    BY <1>6 DEF CarryOverMitigations
  <2>5. ForeignKeys'
    BY <2>2, <2>3, <2>4 DEF Consistent, ForeignKeys
  <2>6. OneLinkPerFinding'
    BY <2>2 DEF Consistent, OneLinkPerFinding
  <2>7. ScansOwnVersion'
    BY <1>6 DEF CarryOverMitigations, IdleReport, Consistent, ScansOwnVersion
  <2> QED
    BY <2>4, <2>5, <2>6, <2>7 DEF Consistent, FindingWithinVersion, OneBatchPerVersion
<1> QED
  BY <1>1, <1>2, <1>3, <1>4, <1>5, <1>6 DEF ReportProceeds, ReportStep

LEMMA NextConsistent ==
  TypeOK /\ DepsFinite /\ Consistent /\ [Next]_vars => Consistent'
<1> SUFFICES ASSUME TypeOK, DepsFinite, Consistent, [Next]_vars
             PROVE  Consistent'
  OBVIOUS
<1>1. ASSUME NEW j \in AnalysisJob, AnalysisProceeds(j)
      PROVE  Consistent'
  BY <1>1, AnalysisConsistent
<1>2. ASSUME NEW j \in ReportJob, ReportProceeds(j)
      PROVE  Consistent'
  BY <1>2, ReportConsistent
<1>3. ASSUME UNCHANGED << projects, versions, deps, reports, findings, mitigations, rjob >>,
             OneLinkPerFinding',
             \A l \in links' : l.finding \in findings /\ l.mitigation \in mitigations
      PROVE  Consistent'
  BY <1>3 DEF Consistent, ForeignKeys, FindingWithinVersion, OneBatchPerVersion,
              ScansOwnVersion
<1>4. CASE LinkingProceeds
  <2>1. PICK l \in linking : LinkMitigation(l)
    BY <1>4 DEF LinkingProceeds
  <2>2. \A k \in links' : \/ k \in links /\ (l \in links' => k.finding # l.finding)
                          \/ k = l /\ l.finding \in findings /\ l.mitigation \in mitigations
                          \/ k \in links /\ links' = links
    BY <2>1 DEF LinkMitigation, Relink
  <2>3. OneLinkPerFinding'
    BY <2>1, <2>2 DEF LinkMitigation, Relink, Consistent, OneLinkPerFinding
  <2>4. \A k \in links' : k.finding \in findings /\ k.mitigation \in mitigations
    BY <2>2 DEF Consistent, ForeignKeys
  <2> QED
    BY <1>3, <1>4, <2>1, <2>3, <2>4 DEF LinkingProceeds, LinkMitigation, reportVars
<1>5. ASSUME UNCHANGED << tables, rjob >>
      PROVE  Consistent'
  BY <1>5 DEF tables, Consistent, ForeignKeys, OneLinkPerFinding, FindingWithinVersion,
              OneBatchPerVersion, ScansOwnVersion
<1>6. ASSUME NEW j \in AnalysisJob, NEW v \in versions, AnalyzeRequest(j, v),
             UNCHANGED << writing, reportVars, mitigationVars, boundVars >>
      PROVE  Consistent'
  BY <1>5, <1>6 DEF AnalyzeRequest, reportVars
<1>7. ASSUME NEW j \in ReportJob, NEW v \in versions, ReportRequest(j, v)
      PROVE  Consistent'
  <2>1. ScansOwnVersion'
    BY <1>7 DEF ReportRequest, Consistent, ScansOwnVersion, TypeOK, ReportTypeOK
  <2> QED
    BY <1>7, <2>1 DEF ReportRequest, tables, Consistent, ForeignKeys, OneLinkPerFinding,
                      FindingWithinVersion, OneBatchPerVersion
<1>8. ASSUME NEW fs \in BulkRequests, NEW f \in fs, CreateMitigation(fs, f),
             UNCHANGED << writing, analysisVars, reportVars, boundVars >>
      PROVE  Consistent'
  <2>1. fs \subseteq findings
    BY DEF BulkRequests
  <2> QED
    BY <1>8, <2>1
       DEF CreateMitigation, reportVars, Consistent, ForeignKeys, OneLinkPerFinding,
           FindingWithinVersion, OneBatchPerVersion, ScansOwnVersion
<1>9. ASSUME NEW f \in findings, RemoveMitigation(f),
             UNCHANGED << writing, analysisVars, reportVars, boundVars >>
      PROVE  Consistent'
  BY <1>3, <1>9 DEF RemoveMitigation, reportVars, Consistent, ForeignKeys, OneLinkPerFinding
<1>10. ASSUME NEW p \in Project, NEW r \in Ref, SyncVersion(p, r)
       PROVE  Consistent'
  BY <1>10 DEF SyncVersion, reportVars, Consistent, ForeignKeys, OneLinkPerFinding,
               FindingWithinVersion, OneBatchPerVersion, ScansOwnVersion
<1>11. ASSUME NEW V, Retain(V, deps), \A v \in V : v.project \in projects',
              UNCHANGED rjob
       PROVE  Consistent'
  <2>1. ForeignKeys' /\ OneLinkPerFinding' /\ FindingWithinVersion'
    BY <1>11, RetainConsistent
  <2>2. deps' \subseteq deps
    BY <1>11 DEF Retain
  <2> QED
    BY <1>11, <2>1, <2>2 DEF Consistent, OneBatchPerVersion, ScansOwnVersion
<1>12. ASSUME NEW v \in versions, RemoveVersion(v)
       PROVE  Consistent'
  <2>1. \A w \in versions \ {v} : w.project \in projects'
    BY <1>12 DEF RemoveVersion, Consistent, ForeignKeys
  <2> QED
    BY <1>11, <1>12, <2>1 DEF RemoveVersion, reportVars
<1>13. ASSUME NEW p \in projects, RemoveProject(p)
       PROVE  Consistent'
  <2>1. \A w \in {v \in versions : v.project # p} : w.project \in projects'
    BY <1>13 DEF RemoveProject, Consistent, ForeignKeys
  <2> QED
    BY <1>11, <1>13, <2>1 DEF RemoveProject, reportVars
<1>14. ASSUME NEW w \in Writer,
              WritingProceeds(w) \/ \E c \in Cve, s \in Severity : UpsertCve(w, c, s)
       PROVE  Consistent'
  BY <1>14 DEF WritingProceeds, UpsertCve, reportVars, Consistent, ForeignKeys, OneLinkPerFinding,
               FindingWithinVersion, OneBatchPerVersion, ScansOwnVersion
<1>15. CASE Crash
  BY <1>5, <1>15 DEF Crash, reportVars
<1>16. CASE Restart
  <2>1. ScansOwnVersion'
    BY <1>16 DEF Restart, IdleReport, ScansOwnVersion
  <2> QED
    BY <1>16, <2>1 DEF Restart, tables, Consistent, ForeignKeys, OneLinkPerFinding,
                       FindingWithinVersion, OneBatchPerVersion
<1>17. CASE UNCHANGED vars
  BY <1>5, <1>17 DEF vars, reportVars
<1> QED
  BY <1>1, <1>2, <1>4, <1>6, <1>7, <1>8, <1>9, <1>10, <1>12, <1>13, <1>14, <1>15,
     <1>16, <1>17 DEF Next, Request

LEMMA AlwaysConsistent ==
  Spec => [](TypeOK /\ DepsFinite /\ CveConsistent /\ Consistent)
<1>1. Init => Consistent
  BY DEF Init, EmptyTables, ReportInit, IdleReport, Consistent, ForeignKeys,
         OneLinkPerFinding, FindingWithinVersion, OneBatchPerVersion, ScansOwnVersion
<1> QED
  BY <1>1, InitTyped, NextTyped, NextConsistent, PTL DEF Spec

(***************************************************************************)
(* Whatever jobs and requests interleave and wherever the process dies, a  *)
(* finding joins a report with a dependency of the report's own version,   *)
(* and both rows exist.                                                    *)
(***************************************************************************)
THEOREM FindingsWithinVersion == Spec => [](FindingWithinVersion /\ ForeignKeys)
BY AlwaysConsistent, PTL DEF Consistent

(***************************************************************************)
(* Replacing a version's dependencies is atomic for every observer.        *)
(***************************************************************************)
THEOREM BatchesAreWhole == Spec => []OneBatchPerVersion
BY AlwaysConsistent, PTL DEF Consistent

-----------------------------------------------------------------------------

(***************************************************************************)
(* Where dependencies come from.  A directory holds its own project, and   *)
(* what a job has found so far is declared in a ref of its own project.    *)
(***************************************************************************)
OwnDirectory == \A p \in Project : tree[p].project = p

FoundInProject ==
    \A j \in AnalysisJob : \A x \in ajob[j].deps :
        \E r \in Ref, a \in Analyzer : x \in Manifest[ajob[j].version.project][r][a]

ProjectInv == OwnDirectory /\ FoundInProject /\ DependenciesOfOwnProject

(***************************************************************************)
(* With one job, the directory has the ref of the job all through its loop *)
(* over the analyzers, and what it has found is declared in that ref.      *)
(***************************************************************************)
OwnTree ==
    \A j \in AnalysisJob : ajob[j].pc = "analyze" =>
        tree[RepoPath(ajob[j].version.project)].ref = ajob[j].version.ref

FoundInRef ==
    \A j \in AnalysisJob : \A x \in ajob[j].deps :
        \E a \in Analyzer : x \in Manifest[ajob[j].version.project][ajob[j].version.ref][a]

RefInv == OwnTree /\ FoundInRef /\ DependenciesOfOwnRef

(***************************************************************************)
(* Only analyses and a restart touch working trees and jobs, and only an   *)
(* analysis inserts dependencies.                                          *)
(***************************************************************************)
LEMMA WhatChangesAnalyses ==
  ASSUME [Next]_vars
  PROVE  \/ \E j \in AnalysisJob : AnalysisProceeds(j)
         \/ deps' = deps /\ \E j \in AnalysisJob, v \in versions : AnalyzeRequest(j, v)
         \/ Restart
         \/ UNCHANGED analysisVars /\ deps' \subseteq deps
<1>1. CASE Request
  BY <1>1 DEF Request, AnalyzeRequest, ReportRequest, CreateMitigation, RemoveMitigation,
              SyncVersion, RemoveVersion, RemoveProject, UpsertCve, Retain, tables
<1>2. ASSUME NEW j \in ReportJob, ReportProceeds(j)
      PROVE  UNCHANGED analysisVars /\ deps' = deps
  BY <1>2 DEF ReportProceeds, ReportStep, InsertReport, LoadDependencies, MatchDependency,
              InsertFinding, UpdateReportSummary, CarryOverMitigations, tables
<1>3. CASE LinkingProceeds \/ Crash \/ UNCHANGED vars \/ \E w \in Writer : WritingProceeds(w)
  BY <1>3 DEF LinkingProceeds, LinkMitigation, WritingProceeds, Crash, vars, tables
<1> QED
  BY <1>1, <1>2, <1>3 DEF Next

(***************************************************************************)
(* The rows of a transaction are what its job found.                       *)
(***************************************************************************)
LEMMA BatchRowsFound ==
  ASSUME NEW j \in AnalysisJob, NEW rows \in BatchRows(j), NEW d \in rows
  PROVE  d.version = ajob[j].version /\ << d.package, d.ver >> \in ajob[j].deps
<1> DEFINE names == {x[1] : x \in ajob[j].deps}
           row(n, w) == [batch |-> ajob[j].batch, version |-> ajob[j].version,
                         package |-> n, ver |-> w]
<1>1. PICK ver \in [names -> PkgVersion] :
           /\ \A n \in names : << n, ver[n] >> \in ajob[j].deps
           /\ rows = {row(n, ver[n]) : n \in names}
  BY DEF BatchRows
<1> QED
  BY <1>1

(***************************************************************************)
(* A step of analysis job j, as to where its dependencies come from: it    *)
(* forgets them, moves on without a change, checks its ref out and begins  *)
(* the loop, reads the directory, or stores what it has.                   *)
(***************************************************************************)
LEMMA AnalysisStepIs ==
  ASSUME TypeOK, NEW j \in AnalysisJob, AnalysisProceeds(j)
  PROVE  \/ /\ ajob' = [ajob EXCEPT ![j] = IdleAnalysis]
            /\ tree' \in {tree, CheckedOut(j)}
            /\ deps' = deps \/ \E rows \in BatchRows(j) :
                                  deps' \subseteq RowsLeft(ajob[j].version) \cup rows
         \/ /\ ajob[j].pc = "lookup" /\ ajob' = [ajob EXCEPT ![j].pc = "checkout"]
            /\ tree' = tree /\ deps' = deps
         \/ /\ ajob[j].version \in VersionRow
            /\ ajob' = [ajob EXCEPT ![j] = Analyzing(j, Analyzer, {})]
            /\ tree' = CheckedOut(j) /\ deps' = deps
         \/ /\ ajob[j].pc = "analyze" /\ ajob[j].version \in VersionRow
            /\ tree' = tree /\ deps' = deps
            /\ \E todo \in SUBSET Analyzer, a \in Analyzer :
                 LET t == tree[RepoPath(ajob[j].version.project)] IN
                 \E found \in SUBSET Manifest[t.project][t.ref][a] :
                    ajob' = [ajob EXCEPT ![j] = Analyzing(j, todo, ajob[j].deps \cup found)]
<1> USE DEF TypeOK, AnalysisTypeOK
<1> DEFINE t == tree[RepoPath(ajob[j].version.project)]
           Reads ==
             /\ ajob[j].pc = "analyze" /\ ajob[j].version \in VersionRow
             /\ tree' = tree /\ deps' = deps
             /\ \E todo \in SUBSET Analyzer, a \in Analyzer :
                  \E found \in SUBSET Manifest[t.project][t.ref][a] :
                     ajob' = [ajob EXCEPT ![j] = Analyzing(j, todo, ajob[j].deps \cup found)]
<1>1. CASE LookupVersion(j) \/ CheckoutFails(j)
  BY <1>1 DEF LookupVersion, CheckoutFails, tables
<1>2. CASE Checkout(j)
  BY <1>2 DEF Checkout, tables
<1>3. ASSUME NEW a \in Analyzer, RunAnalyzer(j, a) \/ AnalyzerFails(j, a)
      PROVE  Reads
  <2> DEFINE todo == ajob[j].todo \ {a}
  <2>1. /\ ajob[j].pc = "analyze" /\ ajob[j].version \in VersionRow
        /\ tree' = tree /\ deps' = deps /\ todo \in SUBSET Analyzer
    BY <1>3 DEF RunAnalyzer, AnalyzerFails, tables
  <2>2. \E found \in SUBSET Manifest[t.project][t.ref][a] :
           ajob' = [ajob EXCEPT ![j] = Analyzing(j, todo, ajob[j].deps \cup found)]
    <3>1. CASE RunAnalyzer(j, a)
      BY <3>1 DEF RunAnalyzer
    <3>2. CASE AnalyzerFails(j, a)
      <4>1. ajob' = [ajob EXCEPT ![j] = Analyzing(j, todo, ajob[j].deps \cup {})]
        BY <3>2 DEF AnalyzerFails
      <4> QED
        BY <4>1
    <3> QED
      BY <1>3, <3>1, <3>2
  <2> HIDE DEF todo, t
  <2> QED
    BY <2>1, <2>2
<1>5. CASE StoreDependencies(j)
  BY <1>5 DEF StoreDependencies, Retain, tables
<1> HIDE DEF Reads
<1>6. Reads \/ LookupVersion(j) \/ CheckoutFails(j) \/ Checkout(j) \/ StoreDependencies(j)
  BY <1>3 DEF AnalysisProceeds, AnalysisStep
<1> QED
  BY <1>1, <1>2, <1>5, <1>6 DEF Reads

(***************************************************************************)
(* Where dependencies come from, step by step.                             *)
(***************************************************************************)
LEMMA ProjectInvKept == TypeOK /\ ProjectInv /\ [Next]_vars => ProjectInv'
<1> SUFFICES ASSUME TypeOK, ProjectInv, [Next]_vars PROVE ProjectInv'
  OBVIOUS
<1> USE DEF ProjectInv, OwnDirectory, FoundInProject, DependenciesOfOwnProject, TypeOK,
            AnalysisTypeOK
<1>1. ASSUME NEW j \in AnalysisJob, AnalysisProceeds(j)
      PROVE  ProjectInv'
  <2>0. ajob[j].version \in VersionRow => CheckedOut(j) \in [Project -> Checkedout]
    BY DEF CheckedOut, RepoPath, Checkedout, VersionRow
  <2>1. tree' \in {tree, CheckedOut(j)} => OwnDirectory'
    BY DEF CheckedOut, RepoPath, VersionRow
  <2>2. ASSUME ajob' = [ajob EXCEPT ![j] = IdleAnalysis], tree' \in {tree, CheckedOut(j)},
               deps' = deps
        PROVE  ProjectInv'
    BY <2>1, <2>2 DEF IdleAnalysis
  <2>3. ASSUME ajob' = [ajob EXCEPT ![j] = IdleAnalysis], tree' \in {tree, CheckedOut(j)},
               NEW rows \in BatchRows(j), deps' \subseteq RowsLeft(ajob[j].version) \cup rows
        PROVE  ProjectInv'
    <3>1. \A d \in rows : \E r \in Ref, a \in Analyzer :
             << d.package, d.ver >> \in Manifest[d.version.project][r][a]
      <4>1. ASSUME NEW d \in rows
            PROVE  d.version = ajob[j].version /\ << d.package, d.ver >> \in ajob[j].deps
        BY BatchRowsFound
      <4>2. ASSUME NEW x \in ajob[j].deps
            PROVE  \E r \in Ref, a \in Analyzer : x \in Manifest[ajob[j].version.project][r][a]
        OBVIOUS
      <4> QED
        BY <4>1, <4>2
    <3>2. \A d \in deps' : d \in deps \/ d \in rows
      BY <2>3 DEF RowsLeft
    <3> QED
      BY <2>1, <2>3, <3>1, <3>2 DEF IdleAnalysis
  <2>4. ASSUME ajob' = [ajob EXCEPT ![j].pc = "checkout"], tree' = tree, deps' = deps
        PROVE  ProjectInv'
    BY <2>4
  <2>5. ASSUME ajob' = [ajob EXCEPT ![j] = Analyzing(j, Analyzer, {})],
               tree' = CheckedOut(j), deps' = deps
        PROVE  ProjectInv'
    BY <2>1, <2>5 DEF Analyzing
  <2> DEFINE t == tree[RepoPath(ajob[j].version.project)]
  <2>6. ASSUME ajob[j].version \in VersionRow, tree' = tree, deps' = deps,
               NEW todo, NEW a \in Analyzer,
               NEW found \in SUBSET Manifest[t.project][t.ref][a],
               ajob' = [ajob EXCEPT ![j] = Analyzing(j, todo, ajob[j].deps \cup found)]
        PROVE  ProjectInv'
    <3>1. t.project = ajob[j].version.project /\ t.ref \in Ref
      BY <2>6 DEF RepoPath, VersionRow, Checkedout
    <3>2. /\ ajob'[j].version = ajob[j].version /\ ajob'[j].deps = ajob[j].deps \cup found
          /\ \A i \in AnalysisJob : i # j => ajob'[i] = ajob[i]
      BY <2>6 DEF Analyzing
    <3>3. \A x \in found : \E r \in Ref, b \in Analyzer : x \in Manifest[ajob[j].version.project][r][b]
      BY <2>6, <3>1
    <3> HIDE DEF t
    <3>4. FoundInProject'
      BY <3>2, <3>3
    <3> QED
      BY <2>6, <3>4
  <2> HIDE DEF ProjectInv, OwnDirectory, FoundInProject, DependenciesOfOwnProject,
               AnalysisTypeOK, TypeOK
  <2> QED
    BY <1>1, <2>2, <2>3, <2>4, <2>5, <2>6, AnalysisStepIs
<1>2. ASSUME deps' = deps, NEW j \in AnalysisJob, NEW v \in versions, AnalyzeRequest(j, v)
      PROVE  ProjectInv'
  BY <1>2 DEF AnalyzeRequest
<1>3. CASE Restart
  BY <1>3 DEF Restart, IdleAnalysis, tables
<1>4. CASE UNCHANGED analysisVars /\ deps' \subseteq deps
  BY <1>4 DEF analysisVars
<1> QED
  BY <1>1, <1>2, <1>3, <1>4, WhatChangesAnalyses

LEMMA RefInvKept ==
  ASSUME \A i, j \in AnalysisJob : i = j
  PROVE  TypeOK /\ ProjectInv /\ RefInv /\ [Next]_vars => RefInv'
<1> SUFFICES ASSUME TypeOK, ProjectInv, RefInv, [Next]_vars PROVE RefInv'
  OBVIOUS
<1>0. deps' = deps => DependenciesOfOwnRef'
  BY DEF RefInv, DependenciesOfOwnRef
<1> USE DEF ProjectInv, OwnDirectory, RefInv, OwnTree, FoundInRef, DependenciesOfOwnRef, TypeOK,
            AnalysisTypeOK
<1>1. ASSUME NEW j \in AnalysisJob, AnalysisProceeds(j)
      PROVE  RefInv'
  <2>0. \A i \in AnalysisJob : i = j
    OBVIOUS
  <2>2. ASSUME ajob' = [ajob EXCEPT ![j] = IdleAnalysis], deps' = deps
        PROVE  RefInv'
    BY <2>0, <2>2 DEF IdleAnalysis
  <2>3. ASSUME ajob' = [ajob EXCEPT ![j] = IdleAnalysis],
               NEW rows \in BatchRows(j), deps' \subseteq RowsLeft(ajob[j].version) \cup rows
        PROVE  RefInv'
    <3>1. \A d \in rows : \E a \in Analyzer :
             << d.package, d.ver >> \in Manifest[d.version.project][d.version.ref][a]
      <4>1. ASSUME NEW d \in rows
            PROVE  d.version = ajob[j].version /\ << d.package, d.ver >> \in ajob[j].deps
        BY BatchRowsFound
      <4>2. ASSUME NEW x \in ajob[j].deps
            PROVE  \E a \in Analyzer :
                      x \in Manifest[ajob[j].version.project][ajob[j].version.ref][a]
        OBVIOUS
      <4> QED
        BY <4>1, <4>2
    <3>2. \A d \in deps' : d \in deps \/ d \in rows
      BY <2>3 DEF RowsLeft
    <3> QED
      BY <2>0, <2>3, <3>1, <3>2 DEF IdleAnalysis
  <2>4. ASSUME ajob' = [ajob EXCEPT ![j].pc = "checkout"], tree' = tree, deps' = deps
        PROVE  RefInv'
    BY <2>0, <2>4
  <2>5. ASSUME ajob[j].version \in VersionRow,
               ajob' = [ajob EXCEPT ![j] = Analyzing(j, Analyzer, {})],
               tree' = CheckedOut(j), deps' = deps
        PROVE  RefInv'
    BY <2>0, <2>5 DEF Analyzing, CheckedOut, RepoPath, VersionRow
  <2> DEFINE t == tree[RepoPath(ajob[j].version.project)]
  <2>6. ASSUME ajob[j].pc = "analyze", ajob[j].version \in VersionRow, tree' = tree, deps' = deps,
               NEW todo, NEW a \in Analyzer,
               NEW found \in SUBSET Manifest[t.project][t.ref][a],
               ajob' = [ajob EXCEPT ![j] = Analyzing(j, todo, ajob[j].deps \cup found)]
        PROVE  RefInv'
    <3>1. t.project = ajob[j].version.project /\ t.ref = ajob[j].version.ref
      BY <2>6 DEF RepoPath, VersionRow
    <3>2. /\ ajob'[j].version = ajob[j].version /\ ajob'[j].deps = ajob[j].deps \cup found
          /\ \A i \in AnalysisJob : i = j
      BY <2>0, <2>6 DEF Analyzing
    <3>3. OwnTree'
      BY <2>6, <3>1, <3>2
    <3> HIDE DEF t
    <3>4. FoundInRef'
      <4> DEFINE v == ajob[j].version
      <4>1. \A x \in ajob[j].deps : \E b \in Analyzer : x \in Manifest[v.project][v.ref][b]
        OBVIOUS
      <4>2. found \subseteq Manifest[v.project][v.ref][a]
        BY <3>1
      <4> HIDE DEF v
      <4>3. \A x \in ajob[j].deps \cup found :
               \E b \in Analyzer : x \in Manifest[v.project][v.ref][b]
        BY <4>1, <4>2
      <4> QED
        BY <3>2, <4>3 DEF v
    <3>5. DependenciesOfOwnRef'
      <4> HIDE DEF DependenciesOfOwnRef
      <4> QED
        BY <1>0, <2>6
    <3> HIDE DEF OwnTree, FoundInRef, DependenciesOfOwnRef
    <3> QED
      BY <3>3, <3>4, <3>5
  <2> HIDE DEF ProjectInv, OwnDirectory, RefInv, OwnTree, FoundInRef, DependenciesOfOwnRef,
               AnalysisTypeOK, TypeOK
  <2> QED
    BY <1>1, <2>2, <2>3, <2>4, <2>5, <2>6, AnalysisStepIs
<1>2. ASSUME deps' = deps, NEW j \in AnalysisJob, NEW v \in versions, AnalyzeRequest(j, v)
      PROVE  RefInv'
  BY <1>2 DEF AnalyzeRequest
<1>3. CASE Restart
  BY <1>3 DEF Restart, IdleAnalysis, tables
<1>4. CASE UNCHANGED analysisVars /\ deps' \subseteq deps
  BY <1>4 DEF analysisVars
<1> QED
  BY <1>1, <1>2, <1>3, <1>4, WhatChangesAnalyses

LEMMA InitFound == Init => ProjectInv /\ RefInv
BY DEF Init, EmptyTables, AnalysisInit, IdleAnalysis, ProjectInv, OwnDirectory, FoundInProject,
       DependenciesOfOwnProject, RefInv, OwnTree, FoundInRef, DependenciesOfOwnRef

(***************************************************************************)
(* However many analyses run at once, a version never has dependencies of  *)
(* another project: the directories are apart (GitRepository::repoPath).   *)
(***************************************************************************)
THEOREM OwnProjectOnly == Spec => []DependenciesOfOwnProject
<1>1. TypeOK /\ ProjectInv /\ [Next]_vars => ProjectInv'
  BY ProjectInvKept
<1> QED
  BY <1>1, InitFound, TypeCorrect, PTL DEF Spec, ProjectInv

(***************************************************************************)
(* What the shared directory costs is due to a second analysis alone: with *)
(* one job at a time, a version has only what its own ref declares,        *)
(* whatever fails, is removed or dies (GitRepository::checkout).           *)
(***************************************************************************)
THEOREM OwnRefOnly ==
  (\A i, j \in AnalysisJob : i = j) /\ Spec => []DependenciesOfOwnRef
<1> SUFFICES ASSUME \A i, j \in AnalysisJob : i = j
             PROVE  Spec => []DependenciesOfOwnRef
  OBVIOUS
<1>1. TypeOK /\ ProjectInv /\ [Next]_vars => ProjectInv'
  BY ProjectInvKept
<1>2. TypeOK /\ ProjectInv /\ RefInv /\ [Next]_vars => RefInv'
  BY RefInvKept
<1> QED
  BY <1>1, <1>2, InitFound, TypeCorrect, PTL DEF Spec, RefInv

-----------------------------------------------------------------------------

(***************************************************************************)
(* What a step can do to mitigations, the findings they hang on and the    *)
(* UPDATEs under way.                                                      *)
(***************************************************************************)
LEMMA WhatChangesMitigations ==
  ASSUME [Next]_vars
  PROVE  \/ UNCHANGED << mitigations, links, linking >> /\ findings \subseteq findings'
         \/ \E V, D : Retain(V, D) /\ linking' = linking
         \/ /\ \E j \in ReportJob : CarryOverMitigations(j)
            /\ linking' = linking
         \/ \E l \in linking : LinkMitigation(l)
         \/ \E fs \in BulkRequests : \E f \in fs : CreateMitigation(fs, f)
         \/ \E f \in findings : RemoveMitigation(f)
         \/ Restart
<1>1. ASSUME NEW j \in AnalysisJob, AnalysisProceeds(j)
      PROVE  \/ UNCHANGED << mitigations, links, linking, findings >>
             \/ \E V, D : Retain(V, D) /\ linking' = linking
  <2>1. linking' = linking
    BY <1>1 DEF AnalysisProceeds, mitigationVars
  <2>2. UNCHANGED tables \/ \E V, D : Retain(V, D)
    BY <1>1 DEF AnalysisProceeds, AnalysisStep, LookupVersion, Checkout, CheckoutFails,
                RunAnalyzer, AnalyzerFails, StoreDependencies
  <2> QED
    BY <2>1, <2>2 DEF tables
<1>2. ASSUME NEW j \in ReportJob, ReportProceeds(j)
      PROVE  \/ UNCHANGED << mitigations, links, linking >> /\ findings \subseteq findings'
             \/ CarryOverMitigations(j) /\ linking' = linking
  BY <1>2 DEF ReportProceeds, mitigationVars, ReportStep, InsertReport, LoadDependencies,
              MatchDependency, InsertFinding, UpdateReportSummary, tables
<1>3. CASE Request
  <2>1. ASSUME NEW v \in versions, RemoveVersion(v)
        PROVE  \E V, D : Retain(V, D) /\ linking' = linking
    BY <2>1 DEF RemoveVersion, mitigationVars
  <2>2. ASSUME NEW p \in projects, RemoveProject(p)
        PROVE  \E V, D : Retain(V, D) /\ linking' = linking
    BY <2>2 DEF RemoveProject, mitigationVars
  <2>3. ASSUME \/ \E p \in Project, r \in Ref : SyncVersion(p, r)
               \/ \E w \in Writer, c \in Cve, s \in Severity : UpsertCve(w, c, s)
               \/ /\ \E j \in AnalysisJob, v \in versions : AnalyzeRequest(j, v)
                  /\ UNCHANGED mitigationVars
               \/ /\ \E j \in ReportJob, v \in versions : ReportRequest(j, v)
                  /\ UNCHANGED mitigationVars
        PROVE  UNCHANGED << mitigations, links, linking, findings >>
    BY <2>3 DEF SyncVersion, UpsertCve, AnalyzeRequest, ReportRequest, mitigationVars, tables
  <2> QED
    BY <1>3, <2>1, <2>2, <2>3 DEF Request
<1>4. CASE Crash \/ UNCHANGED vars \/ \E w \in Writer : WritingProceeds(w)
  BY <1>4 DEF Crash, vars, WritingProceeds, mitigationVars, tables
<1>5. CASE LinkingProceeds
  BY <1>5 DEF LinkingProceeds
<1> QED
  BY <1>1, <1>2, <1>3, <1>4, <1>5 DEF Next

(***************************************************************************)
(* A request that names at most one finding writes its mitigation for it.  *)
(***************************************************************************)
LEMMA BulkOfOne ==
  ASSUME MaxBulk <= 1, NEW fs \in BulkRequests, NEW f \in fs
  PROVE  fs = {f}
<1>1. IsFiniteSet(fs) /\ Cardinality(fs) \in 1 .. MaxBulk
  BY DEF BulkRequests
<1>2. Cardinality(fs) = 1
  BY <1>1, BulkAssumption
<1>3. PICK x : fs = {x}
  BY <1>1, <1>2, FS_Singleton
<1> QED
  BY <1>3

LEMMA MitigationFits ==
  TypeOK /\ Consistent /\ MitigationFitsFinding /\ [Next]_vars => MitigationFitsFinding'
<1> SUFFICES ASSUME TypeOK, Consistent, MitigationFitsFinding, [Next]_vars, MaxBulk <= 1
             PROVE  MitigationFitsFinding'
  BY DEF MitigationFitsFinding
<1> DEFINE Fits(f, g) == /\ f.cve = g.cve
                         /\ f.dep.package = g.dep.package
                         /\ f.dep.version.project = g.dep.version.project
<1>1. \A l \in links \cup linking : Fits(l.finding, l.mitigation.finding)
  BY DEF MitigationFitsFinding
<1>2. SUFFICES \A l \in links' \cup linking' : Fits(l.finding, l.mitigation.finding)
  BY DEF MitigationFitsFinding
<1>3. CASE links' \subseteq links /\ linking' \subseteq linking
  BY <1>1, <1>3
<1>4. ASSUME NEW j \in ReportJob, CarryOverMitigations(j), linking' = linking
      PROVE  \A l \in links' \cup linking' : Fits(l.finding, l.mitigation.finding)
  <2> DEFINE open == OpenFindings(rjob[j].report)
  <2>1. PICK taken \in [open -> mitigations] :
           /\ \A f \in open : taken[f] \in Carryable(f)
           /\ links' = {l \in links : l.finding \notin open} \cup
                       {[finding |-> f, mitigation |-> taken[f]] : f \in open}
    BY <1>4 DEF CarryOverMitigations
  <2>2. ASSUME NEW f \in open
        PROVE  Fits(f, taken[f].finding)
    <3>1. f \in findings
      BY DEF OpenFindings, FindingsOf
    <3>2. PICK k \in links :
             /\ k.mitigation = taken[f]
             /\ k.finding.report.version.project = f.report.version.project
             /\ k.finding.cve = f.cve
             /\ k.finding.dep.package = f.dep.package
      BY <2>1 DEF Carryable
    <3>3. k.finding \in findings
      BY DEF Consistent, ForeignKeys
    <3>4. Fits(k.finding, taken[f].finding)
      BY <1>1, <3>2
    <3> QED
      BY <3>1, <3>2, <3>3, <3>4 DEF Consistent, FindingWithinVersion
  <2>3. \A l \in links' : \/ l \in links
                          \/ \E f \in open : l = [finding |-> f, mitigation |-> taken[f]]
    BY <2>1
  <2> HIDE DEF Fits, open
  <2> QED
    BY <1>1, <1>4, <2>2, <2>3
<1>5. ASSUME NEW l \in linking, LinkMitigation(l)
      PROVE  \A k \in links' \cup linking' : Fits(k.finding, k.mitigation.finding)
  <2>1. \A k \in links' \cup linking' : k \in links \cup linking
    BY <1>5 DEF LinkMitigation, Relink
  <2> QED
    BY <1>1, <2>1
<1>6. ASSUME NEW fs \in BulkRequests, NEW g \in fs, CreateMitigation(fs, g)
      PROVE  \A l \in links' \cup linking' : Fits(l.finding, l.mitigation.finding)
  <2>1. fs = {g}
    BY BulkOfOne
  <2>2. \A l \in links' \cup linking' :
           \/ l \in links \cup linking
           \/ l.finding = g /\ l.mitigation.finding = g
    BY <1>6, <2>1 DEF CreateMitigation
  <2> QED
    BY <1>1, <2>2
<1>7. CASE \/ UNCHANGED << links, linking >>
           \/ \E V, D : Retain(V, D) /\ linking' = linking
           \/ \E f \in findings : RemoveMitigation(f)
           \/ Restart
  BY <1>3, <1>7 DEF Retain, RemoveMitigation, mitigationVars, Restart, tables
<1> HIDE DEF Fits
<1> QED
  BY <1>4, <1>5, <1>6, <1>7, WhatChangesMitigations

(***************************************************************************)
(* However many reports hand a mitigation on, and whatever is deleted or   *)
(* re-analysed meanwhile, it never lands on another CVE, package or        *)
(* project (the join of carryOverMitigations).                             *)
(***************************************************************************)
THEOREM MitigationsFit == Spec => []MitigationFitsFinding
<1>1. Init => MitigationFitsFinding
  BY DEF Init, EmptyTables, MitigationInit, MitigationFitsFinding
<1> QED
  BY <1>1, MitigationFits, AlwaysConsistent, PTL DEF Spec

(***************************************************************************)
(* No report takes a mitigation away: a finding that stays loses its       *)
(* mitigation to a request that names it or to the deletion of the finding *)
(* the mitigation was written for (carryOverMitigations, ON DELETE SET     *)
(* NULL).                                                                  *)
(***************************************************************************)
THEOREM MitigationsKept == Spec => MitigationKept
<1> DEFINE Kept ==
      \A l \in links : l.finding \in findings' /\ l \notin links' =>
         \/ RemoveMitigation(l.finding)
         \/ \E k \in linking : k.finding = l.finding /\ LinkMitigation(k)
         \/ l.mitigation.finding \notin findings'
<1>1. Consistent /\ [Next]_vars => Kept
  <2> SUFFICES ASSUME Consistent, [Next]_vars, NEW l \in links, l.finding \in findings', l \notin links'
               PROVE  \/ RemoveMitigation(l.finding)
                      \/ \E k \in linking : k.finding = l.finding /\ LinkMitigation(k)
                      \/ l.mitigation.finding \notin findings'
    OBVIOUS
  <2>1. l.finding \in findings /\ l.mitigation \in mitigations
    BY DEF Consistent, ForeignKeys
  <2>2. ASSUME NEW V, NEW D, Retain(V, D)
        PROVE  l.mitigation.finding \notin findings'
    BY <2>1, <2>2 DEF Retain
  <2>3. ASSUME NEW j \in ReportJob, CarryOverMitigations(j)
        PROVE  FALSE
    <3> DEFINE open == OpenFindings(rjob[j].report)
    <3>1. l.finding \in open
      BY <2>3 DEF CarryOverMitigations
    <3>2. MitigatedBy(l.finding) = {}
      BY <3>1 DEF OpenFindings
    <3> QED
      BY <3>2 DEF MitigatedBy
  <2>4. ASSUME NEW k \in linking, LinkMitigation(k)
        PROVE  k.finding = l.finding
    BY <2>4 DEF LinkMitigation, Relink
  <2>5. ASSUME NEW f \in findings, RemoveMitigation(f)
        PROVE  RemoveMitigation(l.finding)
    BY <2>5 DEF RemoveMitigation
  <2>6. ASSUME NEW fs \in BulkRequests, NEW g \in fs, CreateMitigation(fs, g)
        PROVE  FALSE
    BY <2>6 DEF CreateMitigation
  <2>7. Restart => FALSE
    BY DEF Restart, tables
  <2> QED
    BY <2>2, <2>3, <2>4, <2>5, <2>6, <2>7, WhatChangesMitigations
<1> QED
  BY <1>1, AlwaysConsistent, PTL DEF Spec, MitigationKept
=============================================================================
