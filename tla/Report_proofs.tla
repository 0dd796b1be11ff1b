---------------------------- MODULE Report_proofs ----------------------------
(***************************************************************************)
(* Why a report's counters agree with its findings although no transaction *)
(* holds its statements together (ReportEngine::generateReport): an        *)
(* analysis or a deletion that comes between them takes all the findings   *)
(* of the report away and every row the job was started on.  So a report   *)
(* appears as if made in one step: BlueDuck implements AtomicReports.      *)
(***************************************************************************)
EXTENDS BlueDuck_proofs

(***************************************************************************)
(* Report rows and batches are numbered: a job's number is no other job's, *)
(* and no row that a job has still to insert exists already.               *)
(***************************************************************************)
ReportsNumbered ==
    /\ \A r \in reports : r.id <= requested
    /\ \A j \in ReportJob : rjob[j].pc # "idle" =>
         /\ rjob[j].report.id <= requested
         /\ rjob[j].pc = "insert" => rjob[j].report \notin reports
         /\ \A i \in ReportJob :
              rjob[i].pc # "idle" /\ rjob[i].report = rjob[j].report => i = j

\* The rows a report job holds: those it loaded, has still to look at, and
\* the one at hand.
Held(job) ==
    job.loaded \cup job.deps \cup (IF job.pc = "finding" THEN {job.dep} ELSE {})

BatchesNumbered ==
    /\ \A i \in AnalysisJob : ajob[i].pc # "idle" =>
         /\ ajob[i].batch <= analyses
         /\ \A k \in AnalysisJob :
              ajob[k].pc # "idle" /\ ajob[k].batch = ajob[i].batch => k = i
    /\ \A d \in deps \cup UNION {Held(rjob[j]) : j \in ReportJob} :
         /\ d.batch <= analyses
         /\ \A i \in AnalysisJob : ajob[i].pc # "idle" => d.batch # ajob[i].batch

(***************************************************************************)
(* Counters c fit the findings fs of a report and the dependencies ds of   *)
(* its version.                                                            *)
(***************************************************************************)
Agrees(c, fs, ds) ==
    /\ Cardinality(fs) = c.vulnerable
    /\ \A s \in Counted : Cardinality({f \in fs : f.severity = s}) = c.by[s]
    /\ c.total = Cardinality(ds)

(***************************************************************************)
(* A job in its loop holds the rows of its version, has counted what it    *)
(* has inserted and inserts nothing twice; or all it inserted is gone, and *)
(* all the rows it holds.                                                  *)
(***************************************************************************)
Intact(job, fs, ds) ==
    /\ IsFiniteSet(fs)
    /\ Agrees(job.counts, fs, ds)
    /\ Held(job) \subseteq ds /\ ds \subseteq job.loaded
    /\ \A f \in fs : f.dep \notin job.deps
    /\ \A f, g \in fs : f.dep = g.dep /\ f.cve = g.cve => f = g
    /\ job.pc = "finding" =>
         /\ job.dep \notin job.deps
         /\ \A m \in job.matches, f \in fs : f.dep = job.dep => f.cve # m.cve
         /\ \A m, n \in job.matches : m.cve = n.cve => m = n

Overtaken(job, fs, ds) == fs = {} /\ Held(job) \cap ds = {}

\* What a job relies on between its statements.
ScanFits(j) ==
    /\ rjob[j].pc = "load" => FindingsOf(rjob[j].report) = {}
    /\ rjob[j].pc \in {"load", "next", "finding"} /\ rjob[j].report \in reports =>
         summary[rjob[j].report] = EmptySummary
    /\ rjob[j].pc \in {"next", "finding"} =>
         \/ Intact(rjob[j], FindingsOf(rjob[j].report), DepsOf(rjob[j].report.version))
         \/ Overtaken(rjob[j], FindingsOf(rjob[j].report), DepsOf(rjob[j].report.version))

Scans == \A j \in ReportJob : ScanFits(j)

SummaryInv == ReportsNumbered /\ BatchesNumbered /\ Scans /\ SummaryCountsFindings

-----------------------------------------------------------------------------

(***************************************************************************)
(* Counting one more finding: in all, and under its severity if that one   *)
(* is counted.                                                             *)
(***************************************************************************)
LEMMA CountOneMore ==
  ASSUME NEW c \in Summary, NEW fs, NEW ds, IsFiniteSet(fs), Agrees(c, fs, ds),
         NEW f, f \notin fs
  PROVE  IsFiniteSet(fs \cup {f}) /\ Agrees(Count(f.severity, c), fs \cup {f}, ds)
<1> DEFINE Rated(x, s) == {g \in x : g.severity = s}
           d == Count(f.severity, c)
<1>1. IsFiniteSet(fs \cup {f}) /\ Cardinality(fs \cup {f}) = Cardinality(fs) + 1
  BY FS_AddElement
<1>2. d.total = c.total /\ d.vulnerable = c.vulnerable + 1
  BY DEF Count
<1>3. ASSUME NEW s \in Counted
      PROVE  Cardinality(Rated(fs \cup {f}, s)) = d.by[s]
  <2>1. c.by \in [Counted -> Nat]
    BY DEF Summary
  <2>2. Cardinality(Rated(fs, s)) = c.by[s]
    BY DEF Agrees
  <2>3. CASE f.severity = s
    <3>1. Rated(fs \cup {f}, s) = Rated(fs, s) \cup {f} /\ f \notin Rated(fs, s)
      BY <2>3
    <3>2. IsFiniteSet(Rated(fs, s))
      BY FS_Subset
    <3> HIDE DEF Rated
    <3>3. Cardinality(Rated(fs \cup {f}, s)) = c.by[s] + 1
      BY <2>2, <3>1, <3>2, FS_AddElement
    <3>4. d.by[s] = c.by[s] + 1
      BY <2>1, <2>3 DEF Count
    <3> QED
      BY <3>3, <3>4
  <2>4. CASE f.severity # s
    <3>1. Rated(fs \cup {f}, s) = Rated(fs, s)
      BY <2>4
    <3>2. d.by[s] = c.by[s]
      BY <2>1, <2>4 DEF Count
    <3> QED
      BY <2>2, <3>1, <3>2
  <2> QED
    BY <2>3, <2>4
<1> QED
  BY <1>1, <1>2, <1>3 DEF Agrees

(***************************************************************************)
(* A job that has just loaded its rows ds, with no finding so far.         *)
(***************************************************************************)
LEMMA NothingCountedYet ==
  ASSUME NEW ds
  PROVE  Agrees([EmptySummary EXCEPT !.total = Cardinality(ds)], {}, ds)
<1>1. Cardinality({}) = 0
  BY FS_EmptySet
<1>2. \A s \in Counted : {f \in {} : f.severity = s} = {}
  OBVIOUS
<1> QED
  BY <1>1, <1>2 DEF Agrees, EmptySummary

(***************************************************************************)
(* The head of the loop, for row d and its matches ms.                     *)
(***************************************************************************)
LEMMA ScanNextRow ==
  ASSUME NEW job, NEW fs, NEW ds, NEW d \in job.deps, NEW ms, NEW next,
         next.pc = IF ms = {} THEN "next" ELSE "finding",
         next.loaded = job.loaded, next.deps = job.deps \ {d}, next.dep = d,
         next.matches = ms, next.counts = job.counts,
         \A m, n \in ms : m.cve = n.cve => m = n
  PROVE  /\ Intact(job, fs, ds) => Intact(next, fs, ds)
         /\ Overtaken(job, fs, ds) => Overtaken(next, fs, ds)
<1>1. Held(next) \subseteq Held(job)
  BY DEF Held
<1>2. Overtaken(job, fs, ds) => Overtaken(next, fs, ds)
  BY <1>1 DEF Overtaken
<1>3. Intact(job, fs, ds) => Intact(next, fs, ds)
  BY <1>1 DEF Intact
<1> QED
  BY <1>2, <1>3

(***************************************************************************)
(* The body of the loop, for match m of the row at hand: its finding f is  *)
(* a new one.                                                              *)
(***************************************************************************)
LEMMA ScanNextMatch ==
  ASSUME NEW job, NEW fs, NEW ds, job.pc = "finding", job.counts \in Summary,
         NEW m \in job.matches, NEW f,
         f.dep = job.dep, f.cve = m.cve, f.severity = m.severity,
         NEW next,
         next.pc = IF job.matches \ {m} = {} THEN "next" ELSE "finding",
         next.loaded = job.loaded, next.deps = job.deps, next.dep = job.dep,
         next.matches = job.matches \ {m}, next.counts = Count(m.severity, job.counts),
         Intact(job, fs, ds)
  PROVE  Intact(next, fs \cup {f}, ds)
<1>1. f \notin fs
  BY DEF Intact
<1>2. IsFiniteSet(fs \cup {f}) /\ Agrees(next.counts, fs \cup {f}, ds)
  BY <1>1, CountOneMore DEF Intact
<1>3. Held(next) \subseteq ds
  BY DEF Intact, Held
<1>4. \A g \in fs \cup {f} : g.dep \notin next.deps
  BY DEF Intact
<1>5. \A n \in next.matches, g \in fs \cup {f} : g.dep = next.dep => g.cve # n.cve
  BY DEF Intact
<1>6. next.dep \notin next.deps /\ \A k, n \in next.matches : k.cve = n.cve => k = n
  BY DEF Intact
<1>7. \A g, h \in fs \cup {f} : g.dep = h.dep /\ g.cve = h.cve => g = h
  BY DEF Intact
<1> QED
  BY <1>2, <1>3, <1>4, <1>5, <1>6, <1>7 DEF Intact

-----------------------------------------------------------------------------

(***************************************************************************)
(* What a step can do to reports, their findings and the rows they were    *)
(* made from.                                                              *)
(***************************************************************************)
Replaces(j) ==
    \E rows \in BatchRows(j) : Retain(versions, RowsLeft(ajob[j].version) \cup rows)

LEMMA WhatChangesReports ==
  ASSUME [Next]_vars
  PROVE  \/ \E j \in ReportJob : ReportStep(j) /\ UNCHANGED << deps, analysisVars >>
         \/ \E j \in ReportJob, v \in versions :
               ReportRequest(j, v) /\ UNCHANGED analysisVars
         \/ /\ Restart
            /\ UNCHANGED << deps, reports, summary, findings, requested, analyses >>
         \/ /\ \E V : Retain(V, deps)
            /\ UNCHANGED << reportVars, analysisVars >>
         \/ \E j \in AnalysisJob :
               /\ ajob[j].pc = "analyze" /\ Replaces(j)
               /\ ajob' = [ajob EXCEPT ![j] = IdleAnalysis]
               /\ UNCHANGED << reportVars, analyses >>
         \/ /\ \E j \in AnalysisJob, v \in versions : AnalyzeRequest(j, v)
            /\ UNCHANGED << deps, reports, summary, findings, reportVars >>
         \/ /\ UNCHANGED << deps, reports, summary, findings, reportVars, analyses >>
            /\ \/ ajob' = ajob
               \/ \E j \in AnalysisJob : \E job :
                     /\ ajob[j].pc # "idle"
                     /\ job.pc = "idle" \/ job.batch = ajob[j].batch
                     /\ ajob' = [ajob EXCEPT ![j] = job]
<1>1. ASSUME NEW j \in AnalysisJob, AnalysisProceeds(j)
      PROVE  \/ /\ ajob[j].pc = "analyze" /\ Replaces(j)
                /\ ajob' = [ajob EXCEPT ![j] = IdleAnalysis]
                /\ UNCHANGED << reportVars, analyses >>
             \/ /\ UNCHANGED << deps, reports, summary, findings, reportVars, analyses >>
                /\ \E job : /\ ajob[j].pc # "idle"
                            /\ job.pc = "idle" \/ job.batch = ajob[j].batch
                            /\ ajob' = [ajob EXCEPT ![j] = job]
  <2> DEFINE Elsewhere == UNCHANGED << deps, reports, summary, findings, reportVars, analyses >>
             Moves(job) == /\ ajob[j].pc # "idle"
                           /\ job.pc = "idle" \/ job.batch = ajob[j].batch
                           /\ ajob' = [ajob EXCEPT ![j] = job]
  <2>1. UNCHANGED reportVars
    BY <1>1 DEF AnalysisProceeds
  <2>2. IdleAnalysis.pc = "idle"
    BY DEF IdleAnalysis
  <2>3. \A todo, found : Analyzing(j, todo, found).batch = ajob[j].batch
    BY DEF Analyzing
  <2>4. ASSUME LookupVersion(j)
        PROVE  Elsewhere /\ \E job : Moves(job)
    <3> DEFINE on == [ajob[j] EXCEPT !.pc = "checkout"]
    <3>1. on.batch = ajob[j].batch
      OBVIOUS
    <3>2. ajob' = [ajob EXCEPT ![j] = on] \/ ajob' = [ajob EXCEPT ![j] = IdleAnalysis]
      BY <2>4 DEF LookupVersion
    <3>3. ajob[j].pc # "idle" /\ Elsewhere
      BY <2>1, <2>4 DEF LookupVersion, tables
    <3> HIDE DEF on
    <3>4. Moves(on) \/ Moves(IdleAnalysis)
      BY <2>2, <3>1, <3>2, <3>3
    <3> QED
      BY <3>3, <3>4
  <2>5. ASSUME Checkout(j) \/ CheckoutFails(j)
        PROVE  Elsewhere /\ \E job : Moves(job)
    <3>1. Moves(Analyzing(j, Analyzer, {})) \/ Moves(IdleAnalysis)
      BY <2>2, <2>3, <2>5 DEF Checkout, CheckoutFails
    <3> QED
      BY <2>1, <2>5, <3>1 DEF Checkout, CheckoutFails, tables
  <2>6. ASSUME NEW a \in Analyzer, RunAnalyzer(j, a) \/ AnalyzerFails(j, a)
        PROVE  Elsewhere /\ \E job : Moves(job)
    <3>1. \E todo, found : ajob' = [ajob EXCEPT ![j] = Analyzing(j, todo, found)]
      BY <2>6 DEF RunAnalyzer, AnalyzerFails
    <3>2. ajob[j].pc # "idle" /\ Elsewhere
      BY <2>1, <2>6 DEF RunAnalyzer, AnalyzerFails, tables
    <3> QED
      BY <2>3, <3>1, <3>2
  <2>7. ASSUME StoreDependencies(j), ~ Replaces(j)
        PROVE  Elsewhere /\ \E job : Moves(job)
    <3>1. Moves(IdleAnalysis)
      BY <2>2, <2>7 DEF StoreDependencies
    <3> QED
      BY <2>1, <2>7, <3>1 DEF StoreDependencies, Replaces, tables
  <2>8. ASSUME StoreDependencies(j), Replaces(j)
        PROVE  /\ ajob[j].pc = "analyze" /\ Replaces(j)
               /\ ajob' = [ajob EXCEPT ![j] = IdleAnalysis]
               /\ UNCHANGED << reportVars, analyses >>
    BY <2>1, <2>8 DEF StoreDependencies
  <2>9. \/ LookupVersion(j) \/ Checkout(j) \/ CheckoutFails(j)
        \/ \E a \in Analyzer : RunAnalyzer(j, a) \/ AnalyzerFails(j, a)
        \/ StoreDependencies(j)
    BY <1>1 DEF AnalysisProceeds, AnalysisStep
  <2> HIDE DEF Elsewhere, Moves
  <2>10. \/ Elsewhere /\ \E job : Moves(job)
         \/ StoreDependencies(j) /\ Replaces(j)
    BY <2>4, <2>5, <2>6, <2>7, <2>9
  <2> QED
    BY <2>8, <2>10 DEF Elsewhere, Moves
<1>2. ASSUME NEW j \in ReportJob, ReportProceeds(j)
      PROVE  ReportStep(j) /\ UNCHANGED << deps, analysisVars >>
  BY <1>2 DEF ReportProceeds, ReportStep, InsertReport, LoadDependencies,
              MatchDependency, InsertFinding, UpdateReportSummary, CarryOverMitigations, tables
<1>3. ASSUME \/ LinkingProceeds \/ Crash \/ UNCHANGED vars
             \/ \E w \in Writer : WritingProceeds(w)
             \/ \E p \in Project, r \in Ref : SyncVersion(p, r)
             \/ \E w \in Writer, c \in Cve, s \in Severity : UpsertCve(w, c, s)
             \/ /\ \/ \E fs \in BulkRequests : \E f \in fs : CreateMitigation(fs, f)
                   \/ \E f \in findings : RemoveMitigation(f)
                /\ UNCHANGED << writing, analysisVars, reportVars, boundVars >>
      PROVE  UNCHANGED << deps, reports, summary, findings, reportVars, analyses, ajob >>
  BY <1>3 DEF LinkingProceeds, LinkMitigation, Crash, vars, WritingProceeds, SyncVersion,
              UpsertCve, CreateMitigation, RemoveMitigation, tables, analysisVars
<1>4. ASSUME \/ \E v \in versions : RemoveVersion(v)
             \/ \E p \in projects : RemoveProject(p)
      PROVE  (\E V : Retain(V, deps)) /\ UNCHANGED << reportVars, analysisVars >>
  BY <1>4 DEF RemoveVersion, RemoveProject
<1>5. Restart => UNCHANGED << deps, reports, summary, findings, requested, analyses >>
  BY DEF Restart, tables
<1>6. ASSUME NEW j \in AnalysisJob, NEW v \in versions, AnalyzeRequest(j, v),
             UNCHANGED << writing, reportVars, mitigationVars, boundVars >>
      PROVE  UNCHANGED << deps, reports, summary, findings, reportVars >>
  BY <1>6 DEF AnalyzeRequest, tables
<1> QED
  BY <1>1, <1>2, <1>3, <1>4, <1>5, <1>6 DEF Next, Request

(***************************************************************************)
(* The cascade, seen from one report and the dependencies of its version:  *)
(* all stay, or no finding stays and no row of the version.                *)
(***************************************************************************)
LEMMA RemovalWhole ==
  ASSUME Consistent, NEW V, Retain(V, deps), NEW r
  PROVE  \/ FindingsOf(r)' = FindingsOf(r) /\ DepsOf(r.version)' = DepsOf(r.version)
         \/ FindingsOf(r)' = {} /\ DepsOf(r.version)' = {}
<1>1. \A f \in findings : f.report \in reports /\ f.dep \in deps
                          /\ f.report.version = f.dep.version
  BY DEF Consistent, ForeignKeys, FindingWithinVersion
<1>2. CASE r.version \in V
  BY <1>1, <1>2 DEF Retain, FindingsOf, DepsOf
<1>3. CASE r.version \notin V
  BY <1>1, <1>3 DEF Retain, FindingsOf, DepsOf
<1> QED
  BY <1>2, <1>3

LEMMA ReplacementWhole ==
  ASSUME TypeOK, DepsFinite, Consistent, BatchesNumbered,
         NEW j \in AnalysisJob, ajob[j].pc = "analyze", Replaces(j), NEW r
  PROVE  \/ FindingsOf(r)' = FindingsOf(r) /\ DepsOf(r.version)' = DepsOf(r.version)
         \/ /\ FindingsOf(r)' = {}
            /\ \A d \in DepsOf(r.version)' : d.batch = ajob[j].batch
<1> DEFINE v == ajob[j].version
<1>1. PICK rows \in BatchRows(j) : Retain(versions, RowsLeft(v) \cup rows)
  BY DEF Replaces
<1>2. \A d \in rows : d.version = v /\ d.batch = ajob[j].batch
  <2>1. v \in VersionRow /\ IsFiniteSet(ajob[j].deps) /\ AnalysisTypeOK
    BY DEF TypeOK, AnalysisTypeOK, DepsFinite
  <2> QED
    BY <2>1, BatchRowsTyped
<1>3. \A f \in findings : /\ f.report \in reports /\ f.dep \in deps
                          /\ f.report.version = f.dep.version
                          /\ f.report.version \in versions
  BY DEF Consistent, ForeignKeys, FindingWithinVersion
<1>4. \A d \in deps : d.batch # ajob[j].batch /\ d.version \in versions
  BY DEF BatchesNumbered, Consistent, ForeignKeys
<1>5. CASE r.version # v
  BY <1>1, <1>2, <1>3, <1>4, <1>5 DEF Retain, RowsLeft, FindingsOf, DepsOf
<1>6. CASE r.version = v
  BY <1>1, <1>2, <1>3, <1>4, <1>6 DEF Retain, RowsLeft, FindingsOf, DepsOf
<1> QED
  BY <1>5, <1>6

LEMMA RetainReports ==
  ASSUME SchemaTypeOK, NEW V, NEW D, Retain(V, D), NEW r \in reports'
  PROVE  r \in reports /\ summary'[r] = summary[r]
BY DEF Retain, SchemaTypeOK

-----------------------------------------------------------------------------

(***************************************************************************)
(* A step of report job j, as to what it holds: it stays at its report and *)
(* looks at rows it has or at rows of the table.                           *)
(***************************************************************************)
LEMMA ReportStepHolds ==
  ASSUME TypeOK, NEW j \in ReportJob, ReportStep(j)
  PROVE  /\ rjob[j].pc # "idle"
         /\ \E job : /\ rjob' = [rjob EXCEPT ![j] = job]
                     /\ job.pc # "idle" => job.report = rjob[j].report
                     /\ job.pc = "insert" => reports' = reports /\ rjob[j].pc = "insert"
                     /\ Held(job) \subseteq Held(rjob[j]) \cup deps
         /\ \A r \in reports' : r \in reports \/ (r = rjob[j].report /\ rjob'[j].pc # "insert")
         /\ deps' = deps /\ requested' = requested
<1> DEFINE Holds(job) == /\ rjob' = [rjob EXCEPT ![j] = job]
                         /\ job.pc # "idle" => job.report = rjob[j].report
                         /\ job.pc = "insert" => reports' = reports /\ rjob[j].pc = "insert"
                         /\ Held(job) \subseteq Held(rjob[j]) \cup deps
<1>1. \A loaded, rows, dep, ms, c :
         LET job == Scanning(j, loaded, rows, dep, ms, c) IN
         /\ job.pc \in {"next", "finding"} /\ job.report = rjob[j].report
         /\ job.deps = rows
         /\ ms # {} => Held(job) = loaded \cup rows \cup {dep}
         /\ ms = {} => Held(job) = loaded \cup rows
  BY DEF Scanning, Held
<1>2. ASSUME rjob' = rjob, reports' = reports
      PROVE  \E job : Holds(job)
  <2>1. rjob' = [rjob EXCEPT ![j] = rjob[j]]
    BY <1>2 DEF TypeOK, ReportTypeOK
  <2> QED
    BY <1>2, <2>1
<1>3. CASE InsertReport(j)
  <2>1. CASE rjob[j].report.version \notin versions
    <3>1. rjob[j].pc # "idle" /\ rjob' = rjob /\ UNCHANGED << reports, deps, requested >>
      BY <1>3, <2>1 DEF InsertReport
    <3> QED
      BY <1>2, <3>1
  <2>2. CASE rjob[j].report.version \in versions
    <3> DEFINE job == [rjob[j] EXCEPT !.pc = "load"]
    <3>1. job.pc = "load" /\ job.report = rjob[j].report /\ job.deps = rjob[j].deps
                      /\ job.loaded = rjob[j].loaded
      BY DEF TypeOK, ReportTypeOK
    <3>2. rjob' = [rjob EXCEPT ![j] = job]
      BY <1>3, <2>2 DEF InsertReport
    <3> HIDE DEF job
    <3>3. Held(job) \subseteq Held(rjob[j])
      BY <3>1 DEF Held
    <3>4. Holds(job)
      BY <3>1, <3>2, <3>3
    <3>5. rjob'[j].pc = "load"
      BY <3>1, <3>2 DEF TypeOK, ReportTypeOK
    <3> QED
      BY <1>3, <3>4, <3>5 DEF InsertReport
  <2> QED
    BY <2>1, <2>2
<1>4. CASE LoadDependencies(j)
  <2>1. PICK rows, c : /\ rows \subseteq deps
                       /\ rjob' = [rjob EXCEPT ![j] = Scanning(j, rows, rows, NoRow, {}, c)]
    BY <1>4 DEF LoadDependencies, RowsToScan, DepsOf
  <2>2. Holds(Scanning(j, rows, rows, NoRow, {}, c))
    BY <1>1, <2>1
  <2> QED
    BY <1>4, <2>2 DEF LoadDependencies, tables
<1>5. CASE MatchDependency(j)
  <2>1. PICK d \in rjob[j].deps :
           rjob' = [rjob EXCEPT ![j] = Scanning(j, rjob[j].loaded, rjob[j].deps \ {d}, d,
                                                MatchingCves(d), rjob[j].counts)]
    BY <1>5 DEF MatchDependency, Rest
  <2> DEFINE job == Scanning(j, rjob[j].loaded, rjob[j].deps \ {d}, d, MatchingCves(d),
                             rjob[j].counts)
  <2>2. Held(job) \subseteq rjob[j].loaded \cup rjob[j].deps
    BY <1>1
  <2>3. rjob[j].loaded \cup rjob[j].deps \subseteq Held(rjob[j])
    BY DEF Held
  <2>4. Holds(job)
    BY <1>1, <2>1, <2>2, <2>3
  <2> QED
    BY <1>5, <2>4 DEF MatchDependency, tables
<1>6. CASE InsertFinding(j)
  <2>1. CASE rjob' = rjob
    BY <1>2, <1>6, <2>1 DEF InsertFinding
  <2>2. CASE rjob' # rjob
    <3>1. PICK ms, c :
             rjob' = [rjob EXCEPT ![j] = Scanning(j, rjob[j].loaded, rjob[j].deps, rjob[j].dep,
                                                  ms, c)]
      BY <1>6, <2>2 DEF InsertFinding
    <3> DEFINE job == Scanning(j, rjob[j].loaded, rjob[j].deps, rjob[j].dep, ms, c)
    <3>2. rjob[j].loaded \cup rjob[j].deps \cup {rjob[j].dep} = Held(rjob[j])
      BY <1>6 DEF Held, InsertFinding
    <3>3. Held(job) \subseteq Held(rjob[j])
      BY <1>1, <3>2
    <3>4. Holds(job)
      BY <1>1, <3>1, <3>3
    <3> QED
      BY <1>6, <3>4 DEF InsertFinding
  <2> QED
    BY <2>1, <2>2
<1>7. CASE UpdateReportSummary(j)
  <2> DEFINE job == [rjob[j] EXCEPT !.pc = "carry"]
  <2>1. job.pc = "carry" /\ job.report = rjob[j].report /\ job.deps = rjob[j].deps
                      /\ job.loaded = rjob[j].loaded
    BY DEF TypeOK, ReportTypeOK
  <2>2. rjob' = [rjob EXCEPT ![j] = job]
    BY <1>7 DEF UpdateReportSummary
  <2> HIDE DEF job
  <2>3. Held(job) \subseteq Held(rjob[j])
    BY <2>1 DEF Held
  <2>4. Holds(job)
    BY <2>1, <2>2, <2>3
  <2> QED
    BY <1>7, <2>4 DEF UpdateReportSummary
<1>8. CASE CarryOverMitigations(j)
  <2>1. Holds(IdleReport)
    BY <1>8 DEF CarryOverMitigations, IdleReport, Held
  <2> QED
    BY <1>8, <2>1 DEF CarryOverMitigations
<1> QED
  BY <1>3, <1>4, <1>5, <1>6, <1>7, <1>8 DEF ReportStep

LEMMA ReportsNumberedKept ==
  TypeOK /\ ReportsNumbered /\ [Next]_vars => ReportsNumbered'
<1> SUFFICES ASSUME TypeOK, ReportsNumbered, [Next]_vars
             PROVE  ReportsNumbered'
  OBVIOUS
<1>0. /\ requested \in Nat /\ \A r \in reports : r.id \in Nat
      /\ \A j \in ReportJob : rjob[j].pc # "idle" => rjob[j].report.id \in Nat
      /\ rjob \in [ReportJob -> {rjob[j] : j \in ReportJob}]
  BY DEF TypeOK, ReportTypeOK, SchemaTypeOK, ReportRow
<1>1. ASSUME NEW j \in ReportJob, ReportStep(j)
      PROVE  ReportsNumbered'
  <2>1. PICK job : /\ rjob' = [rjob EXCEPT ![j] = job]
                   /\ job.pc # "idle" => job.report = rjob[j].report
                   /\ job.pc = "insert" => reports' = reports /\ rjob[j].pc = "insert"
    BY <1>1, ReportStepHolds
  <2>2. /\ rjob[j].pc # "idle" /\ requested' = requested
        /\ \A r \in reports' : r \in reports \/ (r = rjob[j].report /\ rjob'[j].pc # "insert")
    BY <1>1, ReportStepHolds
  <2>3. \A i \in ReportJob : rjob'[i].pc # "idle" =>
           /\ rjob[i].pc # "idle" /\ rjob'[i].report = rjob[i].report
           /\ rjob'[i].pc = "insert" => rjob[i].pc = "insert"
    BY <1>0, <2>1, <2>2
  <2>4. \A r \in reports' : r.id <= requested
    BY <2>2 DEF ReportsNumbered
  <2>5. ASSUME NEW i \in ReportJob, rjob'[i].pc = "insert"
        PROVE  rjob[i].report \notin reports'
    BY <2>2, <2>3, <2>5 DEF ReportsNumbered
  <2> QED
    BY <2>2, <2>3, <2>4, <2>5 DEF ReportsNumbered
<1>2. ASSUME NEW j \in ReportJob, NEW v \in versions, ReportRequest(j, v)
      PROVE  ReportsNumbered'
  <2> DEFINE r == [id |-> requested + 1, version |-> v]
  <2>1. /\ requested' = requested + 1 /\ reports' = reports
        /\ rjob'[j].report = r /\ r.id = requested + 1
        /\ \A i \in ReportJob : i # j => rjob'[i] = rjob[i]
    BY <1>0, <1>2 DEF ReportRequest, tables
  <2> HIDE DEF r
  <2>2. /\ \A x \in reports : x.id < requested'
        /\ \A i \in ReportJob : i # j /\ rjob[i].pc # "idle" => rjob[i].report.id < requested'
    BY <1>0, <2>1 DEF ReportsNumbered
  <2>3. \A i \in ReportJob : rjob'[i].pc # "idle" => rjob'[i].report.id <= requested'
    BY <1>0, <2>1, <2>2
  <2>4. \A i \in ReportJob : rjob'[i].pc = "insert" => rjob'[i].report \notin reports'
    BY <1>0, <2>1, <2>2 DEF ReportsNumbered
  <2>5. \A i, k \in ReportJob : rjob'[i].pc # "idle" /\ rjob'[k].pc # "idle"
                                /\ rjob'[i].report = rjob'[k].report => i = k
    BY <1>0, <2>1, <2>2 DEF ReportsNumbered
  <2>6. \A x \in reports' : x.id <= requested'
    BY <1>0, <2>1, <2>2
  <2> QED
    BY <2>3, <2>4, <2>5, <2>6 DEF ReportsNumbered
<1>3. CASE Restart /\ UNCHANGED << reports, requested >>
  BY <1>3 DEF Restart, IdleReport, ReportsNumbered
<1>4. CASE reports' \subseteq reports /\ UNCHANGED reportVars
  BY <1>4 DEF reportVars, ReportsNumbered
<1>5. ASSUME NEW V, NEW D, Retain(V, D)
      PROVE  reports' \subseteq reports
  BY <1>5 DEF Retain
<1>6. \A j \in AnalysisJob : Replaces(j) => reports' \subseteq reports
  BY <1>5 DEF Replaces
<1> QED
  BY <1>1, <1>2, <1>3, <1>4, <1>5, <1>6, WhatChangesReports

LEMMA BatchesNumberedKept ==
  TypeOK /\ DepsFinite /\ BatchesNumbered /\ [Next]_vars => BatchesNumbered'
<1> SUFFICES ASSUME TypeOK, DepsFinite, BatchesNumbered, [Next]_vars
             PROVE  BatchesNumbered'
  OBVIOUS
<1> DEFINE Known == deps \cup UNION {Held(rjob[j]) : j \in ReportJob}
<1>0. /\ analyses \in Nat
      /\ \A i \in AnalysisJob : ajob[i].batch \in Nat
      /\ ajob \in [AnalysisJob -> {ajob[i] : i \in AnalysisJob}]
      /\ rjob \in [ReportJob -> {rjob[j] : j \in ReportJob}]
      /\ \A d \in Known : d.batch \in Nat
  BY DEF TypeOK, AnalysisTypeOK, ReportTypeOK, SchemaTypeOK, DependencyRow, Held
<1>1. ASSUME Known' \subseteq Known, analyses' = analyses, ajob' = ajob
      PROVE  BatchesNumbered'
  BY <1>1 DEF BatchesNumbered
<1>2. ASSUME NEW j \in AnalysisJob, NEW job, ajob[j].pc # "idle",
             job.pc = "idle" \/ job.batch = ajob[j].batch,
             ajob' = [ajob EXCEPT ![j] = job],
             Known' \subseteq Known, analyses' = analyses
      PROVE  BatchesNumbered'
  <2>1. \A i \in AnalysisJob : ajob'[i].pc # "idle" =>
           ajob[i].pc # "idle" /\ ajob'[i].batch = ajob[i].batch
    BY <1>0, <1>2
  <2> QED
    BY <1>2, <2>1 DEF BatchesNumbered
<1>3. \A d \in Known' : d \in deps' \/ \E j \in ReportJob : d \in Held(rjob'[j])
  BY DEF Held
<1>4. ASSUME NEW j \in ReportJob, ReportStep(j), UNCHANGED << deps, analysisVars >>
      PROVE  BatchesNumbered'
  <2>1. PICK job : /\ rjob' = [rjob EXCEPT ![j] = job]
                   /\ Held(job) \subseteq Held(rjob[j]) \cup deps
    BY <1>4, ReportStepHolds
  <2>2. \A i \in ReportJob : Held(rjob'[i]) \subseteq Held(rjob[i]) \cup deps
    BY <1>0, <2>1
  <2>3. Known' \subseteq Known
    BY <1>3, <1>4, <2>2
  <2> QED
    BY <1>1, <1>4, <2>3 DEF analysisVars
<1>5. ASSUME NEW j \in ReportJob, NEW v \in versions, ReportRequest(j, v), UNCHANGED analysisVars
      PROVE  BatchesNumbered'
  <2>1. \A i \in ReportJob : Held(rjob'[i]) \subseteq Held(rjob[i])
    BY <1>0, <1>5 DEF ReportRequest, Held
  <2>2. Known' \subseteq Known
    BY <1>3, <1>5, <2>1 DEF ReportRequest, tables
  <2> QED
    BY <1>1, <1>5, <2>2 DEF analysisVars
<1>6. CASE Restart /\ UNCHANGED << deps, analyses >>
  <2>1. \A j \in ReportJob : Held(rjob'[j]) = {}
    BY <1>6 DEF Restart, IdleReport, Held
  <2>2. Known' \subseteq Known
    BY <1>3, <1>6, <2>1
  <2>3. \A i \in AnalysisJob : ajob'[i].pc = "idle"
    BY <1>6 DEF Restart, IdleAnalysis
  <2> QED
    BY <1>6, <2>2, <2>3 DEF BatchesNumbered
<1>7. ASSUME NEW V, Retain(V, deps), UNCHANGED << reportVars, analysisVars >>
      PROVE  BatchesNumbered'
  <2>1. Known' \subseteq Known
    BY <1>3, <1>7 DEF Retain, reportVars
  <2> QED
    BY <1>1, <1>7, <2>1 DEF analysisVars
<1>8. ASSUME NEW j \in AnalysisJob, ajob[j].pc = "analyze", Replaces(j),
             ajob' = [ajob EXCEPT ![j] = IdleAnalysis], UNCHANGED << reportVars, analyses >>
      PROVE  BatchesNumbered'
  <2>1. PICK rows \in BatchRows(j) : Retain(versions, RowsLeft(ajob[j].version) \cup rows)
    BY <1>8 DEF Replaces
  <2>2. \A d \in rows : d.batch = ajob[j].batch
    <3>1. ajob[j].version \in VersionRow /\ IsFiniteSet(ajob[j].deps) /\ AnalysisTypeOK
      BY <1>8 DEF TypeOK, AnalysisTypeOK, DepsFinite
    <3> QED
      BY <3>1, BatchRowsTyped
  <2>3. \A d \in Known' : d \in Known \/ d.batch = ajob[j].batch
    BY <1>3, <1>8, <2>1, <2>2 DEF Retain, RowsLeft, reportVars
  <2>4. \A i \in AnalysisJob : ajob'[i].pc # "idle" =>
           i # j /\ ajob[i].pc # "idle" /\ ajob'[i].batch = ajob[i].batch
    BY <1>0, <1>8 DEF IdleAnalysis
  <2>5. \A i \in AnalysisJob : ajob'[i].pc # "idle" => ajob[i].batch # ajob[j].batch
    BY <1>8, <2>4 DEF BatchesNumbered
  <2>6. ajob[j].batch <= analyses
    BY <1>8 DEF BatchesNumbered
  <2> HIDE DEF Known
  <2>7. \A d \in Known' : /\ d.batch <= analyses
                         /\ \A i \in AnalysisJob : ajob'[i].pc # "idle" => d.batch # ajob'[i].batch
    BY <2>3, <2>4, <2>5, <2>6 DEF BatchesNumbered, Known
  <2>8. \A i \in AnalysisJob : ajob'[i].pc # "idle" =>
           /\ ajob'[i].batch <= analyses
           /\ \A k \in AnalysisJob :
                ajob'[k].pc # "idle" /\ ajob'[k].batch = ajob'[i].batch => k = i
    BY <2>4 DEF BatchesNumbered
  <2> QED
    BY <1>8, <2>7, <2>8 DEF BatchesNumbered, Known
<1>9. ASSUME NEW j \in AnalysisJob, NEW v \in versions, AnalyzeRequest(j, v),
             UNCHANGED << deps, reportVars >>
      PROVE  BatchesNumbered'
  <2>1. Known' \subseteq Known
    BY <1>3, <1>9 DEF reportVars
  <2>2. /\ analyses' = analyses + 1 /\ ajob'[j].batch = analyses + 1
        /\ \A i \in AnalysisJob : i # j => ajob'[i] = ajob[i]
    BY <1>0, <1>9 DEF AnalyzeRequest
  <2> HIDE DEF Known
  <2>3. \A d \in Known : d.batch <= analyses
                        /\ \A i \in AnalysisJob : ajob[i].pc # "idle" => d.batch # ajob[i].batch
    BY DEF BatchesNumbered, Known
  <2>4. \A i \in AnalysisJob : i # j /\ ajob[i].pc # "idle" => ajob[i].batch <= analyses
    BY DEF BatchesNumbered
  <2>5. \A d \in Known' : /\ d.batch <= analyses'
                         /\ \A i \in AnalysisJob : ajob'[i].pc # "idle" => d.batch # ajob'[i].batch
    BY <1>0, <2>1, <2>2, <2>3
  <2>6. \A i \in AnalysisJob : ajob'[i].pc # "idle" =>
           /\ ajob'[i].batch <= analyses'
           /\ \A k \in AnalysisJob :
                ajob'[k].pc # "idle" /\ ajob'[k].batch = ajob'[i].batch => k = i
    BY <1>0, <2>2, <2>4 DEF BatchesNumbered
  <2> QED
    BY <2>5, <2>6 DEF BatchesNumbered, Known
<1>10. ASSUME UNCHANGED << deps, reportVars >>
       PROVE  Known' \subseteq Known
  BY <1>3, <1>10 DEF reportVars
<1> QED
  BY <1>1, <1>2, <1>4, <1>5, <1>6, <1>7, <1>8, <1>9, <1>10, WhatChangesReports

-----------------------------------------------------------------------------

(***************************************************************************)
(* A job that does not move keeps what it relies on, if its report's       *)
(* findings and rows stay or all go.                                       *)
(***************************************************************************)
LEMMA ScanStays ==
  ASSUME NEW i \in ReportJob, ScanFits(i), rjob'[i] = rjob[i],
         NEW r, r = rjob[i].report,
         r \in reports' => r \in reports /\ summary'[r] = summary[r],
         \/ FindingsOf(r)' = FindingsOf(r) /\ DepsOf(r.version)' = DepsOf(r.version)
         \/ FindingsOf(r)' = {} /\ Held(rjob[i]) \cap DepsOf(r.version)' = {}
  PROVE  ScanFits(i)'
<1>1. /\ FindingsOf(rjob[i].report)' = FindingsOf(r)'
      /\ DepsOf(rjob[i].report.version)' = DepsOf(r.version)'
  BY DEF FindingsOf, DepsOf
<1>2. rjob[i].pc = "load" => FindingsOf(r)' = {}
  BY DEF ScanFits
<1>3. rjob[i].pc \in {"load", "next", "finding"} /\ r \in reports' =>
        summary'[r] = EmptySummary
  BY DEF ScanFits
<1>4. rjob[i].pc \in {"next", "finding"} =>
        \/ Intact(rjob[i], FindingsOf(r)', DepsOf(r.version)')
        \/ Overtaken(rjob[i], FindingsOf(r)', DepsOf(r.version)')
  <2>1. rjob[i].pc \in {"next", "finding"} =>
          \/ Intact(rjob[i], FindingsOf(r), DepsOf(r.version))
          \/ Overtaken(rjob[i], FindingsOf(r), DepsOf(r.version))
    BY DEF ScanFits
  <2>2. FindingsOf(r)' = {} /\ Held(rjob[i]) \cap DepsOf(r.version)' = {} =>
          Overtaken(rjob[i], FindingsOf(r)', DepsOf(r.version)')
    BY DEF Overtaken
  <2> QED
    BY <2>1, <2>2
<1> QED
  BY <1>1, <1>2, <1>3, <1>4 DEF ScanFits

(***************************************************************************)
(* The counters of a report go on fitting, if its findings and rows stay   *)
(* or its findings all go.                                                 *)
(***************************************************************************)
CountersFit(r) ==
    FindingsOf(r) # {} /\ summary[r] # EmptySummary =>
        Agrees(summary[r], FindingsOf(r), DepsOf(r.version))

LEMMA CountersFitAll == SummaryCountsFindings <=> \A r \in reports : CountersFit(r)
BY DEF SummaryCountsFindings, CountersFit, Agrees

LEMMA CountersStay ==
  ASSUME SummaryCountsFindings, NEW r, r \in reports, summary'[r] = summary[r],
         \/ FindingsOf(r)' = FindingsOf(r) /\ DepsOf(r.version)' = DepsOf(r.version)
         \/ FindingsOf(r)' = {}
  PROVE  CountersFit(r)'
<1>1. CountersFit(r)
  BY CountersFitAll
<1> QED
  BY <1>1 DEF CountersFit

(***************************************************************************)
(* A step of a report job leaves every other report alone.                 *)
(***************************************************************************)
LEMMA OtherReports ==
  ASSUME TypeOK, NEW j \in ReportJob, ReportStep(j), deps' = deps,
         NEW r, r # rjob[j].report
  PROVE  /\ FindingsOf(r)' = FindingsOf(r) /\ DepsOf(r.version)' = DepsOf(r.version)
         /\ r \in reports' => r \in reports /\ summary'[r] = summary[r]
<1>1. CASE UNCHANGED << reports, summary, findings >>
  BY <1>1 DEF FindingsOf, DepsOf
<1>2. CASE InsertReport(j)
  BY <1>2 DEF InsertReport, FindingsOf, DepsOf, TypeOK, SchemaTypeOK
<1>3. CASE InsertFinding(j)
  <2>1. \E f : f.report = rjob[j].report /\ findings' \in {findings, findings \cup {f}}
    BY <1>3 DEF InsertFinding
  <2>2. UNCHANGED << reports, summary >>
    BY <1>3 DEF InsertFinding
  <2>3. FindingsOf(r)' = FindingsOf(r)
    BY <2>1 DEF FindingsOf
  <2> QED
    BY <2>2, <2>3 DEF DepsOf
<1>4. CASE UpdateReportSummary(j)
  BY <1>4 DEF UpdateReportSummary, FindingsOf, DepsOf, TypeOK, SchemaTypeOK
<1>5. LoadDependencies(j) \/ MatchDependency(j) \/ CarryOverMitigations(j)
        => UNCHANGED << reports, summary, findings >>
  BY DEF LoadDependencies, MatchDependency, CarryOverMitigations, tables
<1> QED
  BY <1>1, <1>2, <1>3, <1>4, <1>5 DEF ReportStep

LEMMA OtherScans ==
  ASSUME TypeOK, ReportsNumbered, Scans, SummaryCountsFindings,
         NEW j \in ReportJob, ReportStep(j), deps' = deps
  PROVE  /\ \A i \in ReportJob : i # j => ScanFits(i)'
         /\ \A r \in reports' : r # rjob[j].report => CountersFit(r)'
<1>1. ASSUME NEW i \in ReportJob, i # j
      PROVE  ScanFits(i)'
  <2>1. rjob'[i] = rjob[i]
    <3>1. \E job : rjob' = [rjob EXCEPT ![j] = job]
      BY ReportStepHolds
    <3> QED
      BY <1>1, <3>1 DEF TypeOK, ReportTypeOK
  <2>2. CASE rjob[i].pc = "idle"
    BY <2>1, <2>2 DEF ScanFits
  <2>3. CASE rjob[i].pc # "idle"
    <3>1. PICK r : r = rjob[i].report
      OBVIOUS
    <3>2. r # rjob[j].report
      BY <1>1, <2>3, <3>1, ReportStepHolds DEF ReportsNumbered
    <3>3. ScanFits(i)
      BY DEF Scans
    <3> QED
      BY <2>1, <3>1, <3>2, <3>3, OtherReports, ScanStays
  <2> QED
    BY <2>2, <2>3
<1>2. ASSUME NEW r \in reports', r # rjob[j].report
      PROVE  CountersFit(r)'
  BY <1>2, OtherReports, CountersStay
<1> QED
  BY <1>1, <1>2

(***************************************************************************)
(* The job's own report: each statement keeps what the job relies on, and  *)
(* the last one but the carry-over writes counters that fit.               *)
(***************************************************************************)
LEMMA OwnScan ==
  ASSUME TypeOK, Consistent, ReportsNumbered, Scans, SummaryCountsFindings,
         NEW j \in ReportJob, ReportStep(j), deps' = deps,
         NEW r, r = rjob[j].report
  PROVE  ScanFits(j)' /\ (r \in reports' => CountersFit(r)')
<1> DEFINE ds == DepsOf(r.version)
           fs == FindingsOf(r)
           Fits(job, gs) ==
             /\ job.pc = "load" => gs = {}
             /\ job.pc \in {"load", "next", "finding"} /\ r \in reports' =>
                  summary'[r] = EmptySummary
             /\ job.pc \in {"next", "finding"} => Intact(job, gs, ds) \/ Overtaken(job, gs, ds)
<1>1. ASSUME NEW job, rjob' = [rjob EXCEPT ![j] = job], job.report = r \/ job.pc = "idle",
             Fits(job, FindingsOf(r)')
      PROVE  ScanFits(j)'
  <2>1. rjob'[j] = job
    BY <1>1 DEF TypeOK, ReportTypeOK
  <2>2. job.report = r =>
           /\ FindingsOf(rjob[j].report)' = FindingsOf(r)'
           /\ DepsOf(rjob[j].report.version)' = ds
    BY <2>1 DEF FindingsOf, DepsOf
  <2> HIDE DEF ds
  <2> QED
    BY <1>1, <2>1, <2>2 DEF ScanFits
<1>2. /\ rjob[j].pc = "load" => fs = {}
      /\ rjob[j].pc \in {"load", "next", "finding"} /\ r \in reports => summary[r] = EmptySummary
      /\ rjob[j].pc \in {"next", "finding"} =>
           Intact(rjob[j], fs, ds) \/ Overtaken(rjob[j], fs, ds)
  BY DEF Scans, ScanFits
<1>3. r \in reports => CountersFit(r)
  BY CountersFitAll
<1>4. UNCHANGED << reports, summary, findings >> => (r \in reports' => CountersFit(r)')
  BY <1>3 DEF CountersFit, FindingsOf, DepsOf
<1>5. \A loaded, rows, dep, ms, c :
         LET job == Scanning(j, loaded, rows, dep, ms, c) IN
         /\ job.pc = IF ms = {} THEN "next" ELSE "finding"
         /\ job.report = r /\ job.loaded = loaded /\ job.deps = rows /\ job.dep = dep
         /\ job.matches = ms /\ job.counts = c
  BY DEF Scanning
<1>6. CASE InsertReport(j)
  <2>1. CASE rjob' = rjob /\ reports' = reports /\ summary' = summary
    <3>1. rjob[j].pc = "insert"
      BY <1>6 DEF InsertReport
    <3>2. ScanFits(j)'
      BY <2>1, <3>1 DEF ScanFits
    <3> QED
      BY <1>4, <1>6, <2>1, <3>2 DEF InsertReport
  <2>2. CASE rjob' = [rjob EXCEPT ![j].pc = "load"]
    <3> DEFINE job == [rjob[j] EXCEPT !.pc = "load"]
    <3>1. job.pc = "load" /\ job.report = r
      BY DEF TypeOK, ReportTypeOK
    <3>2. rjob' = [rjob EXCEPT ![j] = job]
      BY <2>2
    <3> HIDE DEF job
    <3>3. r \notin reports
      BY <1>6 DEF InsertReport, ReportsNumbered
    <3>4. FindingsOf(r)' = {}
      BY <1>6, <3>3 DEF InsertReport, FindingsOf, Consistent, ForeignKeys
    <3>5. r \in reports' => summary'[r] = EmptySummary
      BY <1>6, <3>3 DEF InsertReport
    <3> QED
      BY <1>1, <3>1, <3>2, <3>4, <3>5 DEF CountersFit
  <2> QED
    BY <1>6, <2>1, <2>2 DEF InsertReport
<1>7. CASE LoadDependencies(j)
  <2>1. UNCHANGED << reports, summary, findings >>
    BY <1>7 DEF LoadDependencies, tables
  <2> DEFINE c   == [EmptySummary EXCEPT !.total = Cardinality(ds)]
             job == Scanning(j, ds, ds, NoRow, {}, c)
  <2>2. rjob' = [rjob EXCEPT ![j] = job] /\ rjob[j].pc = "load"
    BY <1>7 DEF LoadDependencies, RowsToScan
  <2>3. FindingsOf(r)' = {}
    BY <1>2, <2>1, <2>2 DEF FindingsOf
  <2>4. Agrees(c, {}, ds)
    BY NothingCountedYet
  <2>5. job.pc = "next" /\ job.report = r /\ job.loaded = ds /\ job.deps = ds /\ job.counts = c
    BY <1>5
  <2> HIDE DEF job, c
  <2>6. Intact(job, {}, ds)
    BY <2>4, <2>5, FS_EmptySet DEF Intact, Held
  <2> QED
    BY <1>1, <1>2, <1>4, <2>1, <2>2, <2>3, <2>5, <2>6
<1>8. CASE MatchDependency(j)
  <2>1. UNCHANGED << reports, summary, findings >>
    BY <1>8 DEF MatchDependency, tables
  <2>2. PICK d \in rjob[j].deps :
           rjob' = [rjob EXCEPT ![j] = Scanning(j, rjob[j].loaded, rjob[j].deps \ {d}, d,
                                                MatchingCves(d), rjob[j].counts)]
    BY <1>8 DEF MatchDependency, Rest
  <2> DEFINE job == Scanning(j, rjob[j].loaded, rjob[j].deps \ {d}, d, MatchingCves(d),
                             rjob[j].counts)
  <2>3. /\ job.pc = IF MatchingCves(d) = {} THEN "next" ELSE "finding"
        /\ job.report = r /\ job.loaded = rjob[j].loaded
        /\ job.deps = rjob[j].deps \ {d} /\ job.dep = d
        /\ job.matches = MatchingCves(d) /\ job.counts = rjob[j].counts
    BY <1>5
  <2>4. \A m, n \in MatchingCves(d) : m.cve = n.cve => m = n
    BY DEF MatchingCves
  <2>5. rjob[j].pc = "next"
    BY <1>8 DEF MatchDependency
  <2> HIDE DEF job
  <2>6. Intact(job, fs, ds) \/ Overtaken(job, fs, ds)
    BY <1>2, <2>3, <2>4, <2>5, ScanNextRow
  <2>7. FindingsOf(r)' = fs
    BY <2>1 DEF FindingsOf
  <2> QED
    BY <1>1, <1>2, <1>4, <2>1, <2>2, <2>3, <2>5, <2>6, <2>7 DEF job
<1>9. CASE InsertFinding(j)
  <2> DEFINE d == rjob[j].dep
             f(m) == [report |-> r, dep |-> d, cve |-> m.cve, severity |-> m.severity]
             next(m) == Scanning(j, rjob[j].loaded, rjob[j].deps, d, rjob[j].matches \ {m},
                                 Count(m.severity, rjob[j].counts))
  <2>0. rjob[j].pc = "finding" /\ UNCHANGED << reports, summary >>
    BY <1>9 DEF InsertFinding
  <2>1. CASE rjob' = rjob /\ findings' = findings
    <3>1. rjob' = [rjob EXCEPT ![j] = rjob[j]]
      BY <2>1 DEF TypeOK, ReportTypeOK
    <3>2. FindingsOf(r)' = fs
      BY <2>1 DEF FindingsOf
    <3> QED
      BY <1>1, <1>2, <1>4, <2>0, <2>1, <3>1, <3>2
  <2>2. ASSUME NEW m \in rjob[j].matches, r \in reports, d \in deps,
               findings' = findings \cup {f(m)}, rjob' = [rjob EXCEPT ![j] = next(m)]
        PROVE  ScanFits(j)' /\ (r \in reports' => CountersFit(r)')
    <3>1. d \in ds /\ d \in Held(rjob[j])
      BY <2>0, <2>2 DEF DepsOf, Held, Consistent, ScansOwnVersion
    <3>2. Intact(rjob[j], fs, ds)
      BY <1>2, <2>0, <3>1 DEF Overtaken
    <3>3. FindingsOf(r)' = fs \cup {f(m)}
      BY <2>2 DEF FindingsOf
    <3>4. /\ next(m).pc = IF rjob[j].matches \ {m} = {} THEN "next" ELSE "finding"
          /\ next(m).report = r /\ next(m).loaded = rjob[j].loaded
          /\ next(m).deps = rjob[j].deps /\ next(m).dep = d
          /\ next(m).matches = rjob[j].matches \ {m}
          /\ next(m).counts = Count(m.severity, rjob[j].counts)
      BY <1>5
    <3>5. f(m).dep = d /\ f(m).cve = m.cve /\ f(m).severity = m.severity
      OBVIOUS
    <3>6. rjob[j].counts \in Summary
      BY DEF TypeOK, ReportTypeOK
    <3> HIDE DEF f, next, fs, ds
    <3>7. Intact(next(m), fs \cup {f(m)}, ds)
      BY <2>0, <3>2, <3>4, <3>5, <3>6, ScanNextMatch
    <3>8. next(m).pc # "load" /\ summary'[r] = EmptySummary
      BY <1>2, <2>0, <2>2, <3>4
    <3>9. ScanFits(j)'
      BY <1>1, <2>2, <3>3, <3>4, <3>7, <3>8
    <3> QED
      BY <3>8, <3>9 DEF CountersFit
  <2> QED
    BY <1>9, <2>1, <2>2 DEF InsertFinding
<1>10. CASE UpdateReportSummary(j)
  <2> DEFINE job == [rjob[j] EXCEPT !.pc = "carry"]
  <2>1. rjob' = [rjob EXCEPT ![j] = job] /\ rjob[j].pc = "next" /\ rjob[j].deps = {}
    BY <1>10 DEF UpdateReportSummary
  <2>2. job.pc = "carry" /\ job.report = r
    BY DEF TypeOK, ReportTypeOK
  <2> HIDE DEF job
  <2>3. ScanFits(j)'
    BY <1>1, <2>1, <2>2
  <2>4. FindingsOf(r)' = fs /\ DepsOf(r.version)' = ds
    BY <1>10 DEF UpdateReportSummary, FindingsOf, DepsOf
  <2>5. fs # {} => Agrees(rjob[j].counts, fs, ds)
    BY <1>2, <2>1 DEF Intact, Overtaken
  <2>6. r \in reports' => summary'[r] = rjob[j].counts
    BY <1>10 DEF UpdateReportSummary
  <2> QED
    BY <2>3, <2>4, <2>5, <2>6 DEF CountersFit
<1>11. CASE CarryOverMitigations(j)
  <2>1. rjob' = [rjob EXCEPT ![j] = IdleReport] /\ IdleReport.pc = "idle"
    BY <1>11 DEF CarryOverMitigations, IdleReport
  <2>2. UNCHANGED << reports, summary, findings >>
    BY <1>11 DEF CarryOverMitigations
  <2> HIDE DEF CountersFit
  <2> QED
    BY <1>1, <1>4, <2>1, <2>2
<1> QED
  BY <1>6, <1>7, <1>8, <1>9, <1>10, <1>11 DEF ReportStep

(***************************************************************************)
(* Every other step leaves the jobs where they are, starts one or ends     *)
(* them all; no report appears and no summary changes; and a report's      *)
(* findings and rows stay, or all that a job could rely on goes.           *)
(***************************************************************************)
Whole(r) ==
    \/ FindingsOf(r)' = FindingsOf(r) /\ DepsOf(r.version)' = DepsOf(r.version)
    \/ /\ FindingsOf(r)' = {}
       /\ \A i \in ReportJob : Held(rjob[i]) \cap DepsOf(r.version)' = {}

LEMMA WholeOrGone ==
  ASSUME TypeOK, DepsFinite, Consistent, BatchesNumbered, [Next]_vars
  PROVE  \/ \E j \in ReportJob : ReportStep(j) /\ deps' = deps
         \/ /\ \A i \in ReportJob : rjob'[i] = rjob[i] \/ rjob'[i].pc \in {"idle", "insert"}
            /\ \A r \in reports' : r \in reports /\ summary'[r] = summary[r]
            /\ \A r : Whole(r)
<1> DEFINE Stand  == \A i \in ReportJob : rjob'[i] = rjob[i] \/ rjob'[i].pc \in {"idle", "insert"}
           NoMore == \A r \in reports' : r \in reports /\ summary'[r] = summary[r]
<1>1. UNCHANGED << deps, reports, summary, findings >> => NoMore /\ \A r : Whole(r)
  BY DEF Whole, FindingsOf, DepsOf
<1>2. UNCHANGED reportVars => Stand
  BY DEF reportVars
<1>3. ASSUME NEW j \in ReportJob, NEW v \in versions, ReportRequest(j, v)
      PROVE  Stand /\ UNCHANGED << deps, reports, summary, findings >>
  BY <1>3 DEF ReportRequest, tables, TypeOK, ReportTypeOK
<1>4. Restart => Stand
  BY DEF Restart, IdleReport
<1>5. ASSUME NEW V, Retain(V, deps)
      PROVE  NoMore /\ \A r : Whole(r)
  <2>1. NoMore
    BY <1>5, RetainReports DEF TypeOK
  <2>2. ASSUME NEW r
        PROVE  Whole(r)
    BY <1>5, RemovalWhole DEF Whole
  <2> QED
    BY <2>1, <2>2
<1>6. ASSUME NEW j \in AnalysisJob, ajob[j].pc = "analyze", Replaces(j)
      PROVE  NoMore /\ \A r : Whole(r)
  <2>1. PICK V, D : Retain(V, D)
    BY <1>6 DEF Replaces
  <2>2. NoMore
    BY <2>1, RetainReports DEF TypeOK
  <2>3. \A i \in ReportJob : \A d \in Held(rjob[i]) : d.batch # ajob[j].batch
    BY <1>6 DEF BatchesNumbered
  <2>4. ASSUME NEW r
        PROVE  Whole(r)
    BY <1>6, <2>3, ReplacementWhole DEF Whole
  <2> QED
    BY <2>2, <2>4
<1> HIDE DEF Stand, NoMore
<1>7. (\E j \in ReportJob : ReportStep(j) /\ deps' = deps) \/ (Stand /\ NoMore /\ \A r : Whole(r))
  BY <1>1, <1>2, <1>3, <1>4, <1>5, <1>6, WhatChangesReports
<1> QED
  BY <1>7 DEF Stand, NoMore

LEMMA ScansKept ==
  TypeOK /\ DepsFinite /\ Consistent /\ SummaryInv /\ [Next]_vars =>
      Scans' /\ SummaryCountsFindings'
<1> SUFFICES ASSUME TypeOK, DepsFinite, Consistent, SummaryInv, [Next]_vars
             PROVE  Scans' /\ (\A r \in reports' : CountersFit(r)')
  <2>1. SummaryCountsFindings' <=> \A r \in reports' : CountersFit(r)'
    BY DEF SummaryCountsFindings, CountersFit, Agrees
  <2> QED
    BY <2>1
<1> USE DEF SummaryInv
<1>1. ASSUME NEW j \in ReportJob, ReportStep(j), deps' = deps
      PROVE  Scans' /\ \A r \in reports' : CountersFit(r)'
  <2>1. PICK r : r = rjob[j].report
    OBVIOUS
  <2>2. ScanFits(j)' /\ (r \in reports' => CountersFit(r)')
    BY <1>1, <2>1, OwnScan
  <2>3. /\ \A i \in ReportJob : i # j => ScanFits(i)'
        /\ \A x \in reports' : x # r => CountersFit(x)'
    BY <1>1, <2>1, OtherScans
  <2> QED
    BY <2>2, <2>3 DEF Scans
<1>2. ASSUME \A i \in ReportJob : rjob'[i] = rjob[i] \/ rjob'[i].pc \in {"idle", "insert"},
             \A r \in reports' : r \in reports /\ summary'[r] = summary[r],
             \A r : Whole(r)
      PROVE  Scans' /\ \A r \in reports' : CountersFit(r)'
  <2>1. ASSUME NEW i \in ReportJob
        PROVE  ScanFits(i)'
    <3>1. CASE rjob'[i] = rjob[i]
      <4>1. PICK r : r = rjob[i].report
        OBVIOUS
      <4>2. ScanFits(i) /\ Whole(r)
        BY <1>2 DEF Scans
      <4> QED
        BY <1>2, <3>1, <4>1, <4>2, ScanStays DEF Whole
    <3>2. CASE rjob'[i].pc \in {"idle", "insert"}
      BY <3>2 DEF ScanFits
    <3> QED
      BY <1>2, <3>1, <3>2
  <2>2. ASSUME NEW r \in reports'
        PROVE  CountersFit(r)'
    BY <1>2, CountersStay DEF Whole
  <2> QED
    BY <2>1, <2>2 DEF Scans
<1> QED
  BY <1>1, <1>2, WholeOrGone

LEMMA InitCounts == Init => SummaryInv
<1> SUFFICES ASSUME Init PROVE SummaryInv
  OBVIOUS
<1>1. /\ reports = {} /\ deps = {}
      /\ \A j \in ReportJob : rjob[j].pc = "idle" /\ Held(rjob[j]) = {}
      /\ \A i \in AnalysisJob : ajob[i].pc = "idle"
  BY DEF Init, EmptyTables, ReportInit, IdleReport, AnalysisInit, IdleAnalysis, Held
<1>2. ReportsNumbered /\ BatchesNumbered /\ SummaryCountsFindings
  BY <1>1 DEF ReportsNumbered, BatchesNumbered, SummaryCountsFindings
<1>3. Scans
  BY <1>1 DEF Scans, ScanFits
<1> QED
  BY <1>2, <1>3 DEF SummaryInv

LEMMA AlwaysCounted ==
  Spec => [](TypeOK /\ DepsFinite /\ CveConsistent /\ Consistent /\ SummaryInv)
<1>1. TypeOK /\ DepsFinite /\ Consistent /\ SummaryInv /\ [Next]_vars => SummaryInv'
  BY ReportsNumberedKept, BatchesNumberedKept, ScansKept DEF SummaryInv
<1> QED
  BY <1>1, InitCounts, AlwaysConsistent, PTL DEF Spec

(***************************************************************************)
(* A report with findings and a summary has as many findings, in all and   *)
(* of each rating, as its counters say, and its total counts the rows of   *)
(* its version: for any number of jobs, requests, imports and crashes      *)
(* between the statements of ReportEngine::generateReport, which no        *)
(* transaction joins.                                                      *)
(***************************************************************************)
THEOREM SummariesCount == Spec => []SummaryCountsFindings
BY AlwaysCounted, PTL DEF SummaryInv

-----------------------------------------------------------------------------

(***************************************************************************)
(* With no import, the CVE tables stay as they are: each record has the    *)
(* ranges its source gives it.                                             *)
(***************************************************************************)
NothingImported ==
    /\ \A w \in Writer : writing[w].todo = {}
    /\ \A c \in Cve : AffectedRanges(c) = IF severity[c] # NotImported THEN AffectedBy[c] ELSE {}

\* The pairs of a dependency of v and a CVE that match.
Hits(v) == {x \in DepsOf(v) \X Cve : /\ severity[x[2]] # NotImported
                                     /\ << x[1].package, x[1].ver >> \in AffectedBy[x[2]]}

Pairs(fs) == {<< f.dep, f.cve >> : f \in fs}

(***************************************************************************)
(* A job in its loop has inserted exactly the matches hits, but for those  *)
(* of the rows and matches it has still to look at.                        *)
(***************************************************************************)
ExactSoFar(job, fs, hits) ==
    /\ Pairs(fs) = {x \in hits : /\ x[1] \notin job.deps
                                 /\ job.pc = "finding" /\ x[1] = job.dep =>
                                      \A m \in job.matches : m.cve # x[2]}
    /\ job.pc = "finding" => \A m \in job.matches : << job.dep, m.cve >> \in hits

ScanExact(j) ==
    rjob[j].pc \in {"next", "finding"} =>
        \/ ExactSoFar(rjob[j], FindingsOf(rjob[j].report), Hits(rjob[j].report.version))
        \/ Overtaken(rjob[j], FindingsOf(rjob[j].report), DepsOf(rjob[j].report.version))

ListExact(r) ==
    FindingsOf(r) # {} /\ summary[r] # EmptySummary => Pairs(FindingsOf(r)) = Hits(r.version)

ExactInv ==
    /\ NothingImported
    /\ \A j \in ReportJob : ScanExact(j)
    /\ \A r \in reports : ListExact(r)

LEMMA NothingImportedStays ==
  ASSUME TypeOK, MaxUpserts = 0, NothingImported, [Next]_vars
  PROVE  NothingImported' /\ severity' = severity
<1> DEFINE cveVars == << severity, affected >>
<1>1. CASE UNCHANGED cveVars /\ \A w \in Writer : writing'[w].todo = {}
  BY <1>1 DEF NothingImported, AffectedRanges
<1>2. ASSUME NEW j \in AnalysisJob, AnalysisProceeds(j)
      PROVE  UNCHANGED << cveVars, writing >>
  BY <1>2 DEF AnalysisProceeds, AnalysisStep, LookupVersion, Checkout, CheckoutFails,
              RunAnalyzer, AnalyzerFails, StoreDependencies, tables
<1>3. ASSUME NEW j \in ReportJob, ReportProceeds(j)
      PROVE  UNCHANGED << cveVars, writing >>
  BY <1>3 DEF ReportProceeds, ReportStep, InsertReport, LoadDependencies, MatchDependency,
              InsertFinding, UpdateReportSummary, CarryOverMitigations, tables
<1>4. ASSUME LinkingProceeds \/ Crash \/ UNCHANGED vars
      PROVE  UNCHANGED << cveVars, writing >>
  BY <1>4 DEF LinkingProceeds, LinkMitigation, Crash, vars, tables
<1>5. ASSUME NEW w \in Writer, WritingProceeds(w)
      PROVE  FALSE
  BY <1>5 DEF WritingProceeds, NothingImported
<1>6. ASSUME Restart
      PROVE  UNCHANGED cveVars /\ \A w \in Writer : writing'[w].todo = {}
  BY <1>6 DEF Restart, IdleWriter, tables
<1>7. ASSUME NEW w \in Writer, NEW c \in Cve, NEW s \in Severity, UpsertCve(w, c, s)
      PROVE  FALSE
  BY <1>7 DEF UpsertCve, TypeOK
<1>8. ASSUME Request
      PROVE  UNCHANGED << cveVars, writing >>
  BY <1>7, <1>8
     DEF Request, AnalyzeRequest, ReportRequest, CreateMitigation, RemoveMitigation,
         SyncVersion, RemoveVersion, RemoveProject, tables
<1>9. UNCHANGED << cveVars, writing >> =>
        UNCHANGED cveVars /\ \A w \in Writer : writing'[w].todo = {}
  BY DEF NothingImported
<1>10. UNCHANGED cveVars /\ (\A w \in Writer : writing'[w].todo = {}) =>
         NothingImported' /\ severity' = severity
  BY <1>1
<1> HIDE DEF cveVars
<1> QED
  BY <1>1, <1>2, <1>3, <1>4, <1>5, <1>6, <1>8, <1>9, <1>10 DEF Next

(***************************************************************************)
(* The matches of a row, once nothing is imported any more.                *)
(***************************************************************************)
LEMMA MatchingIsHits ==
  ASSUME NothingImported, NEW v, NEW d \in DepsOf(v)
  PROVE  /\ \A m \in MatchingCves(d) : << d, m.cve >> \in Hits(v)
         /\ \A x \in Hits(v) : x[1] = d => \E m \in MatchingCves(d) : m.cve = x[2]
<1>1. ASSUME NEW m \in MatchingCves(d)
      PROVE  << d, m.cve >> \in Hits(v)
  <2>1. m.cve \in Cve /\ << d.package, d.ver >> \in AffectedRanges(m.cve)
    BY DEF MatchingCves
  <2> QED
    BY <2>1 DEF NothingImported, Hits
<1>2. ASSUME NEW x \in Hits(v), x[1] = d
      PROVE  \E m \in MatchingCves(d) : m.cve = x[2]
  <2>1. x[2] \in Cve /\ << d.package, d.ver >> \in AffectedRanges(x[2])
    BY <1>2 DEF NothingImported, Hits
  <2>2. [cve |-> x[2], severity |-> severity[x[2]]] \in MatchingCves(d)
    BY <2>1 DEF MatchingCves
  <2> QED
    BY <2>2
<1> QED
  BY <1>1, <1>2

LEMMA ExactNextRow ==
  ASSUME NEW job, NEW fs, NEW hits, ExactSoFar(job, fs, hits), job.pc = "next",
         NEW d \in job.deps, NEW ms, NEW next,
         next.pc = IF ms = {} THEN "next" ELSE "finding",
         next.deps = job.deps \ {d}, next.dep = d, next.matches = ms,
         \A m \in ms : << d, m.cve >> \in hits,
         \A x \in hits : x[1] = d => \E m \in ms : m.cve = x[2]
  PROVE  ExactSoFar(next, fs, hits)
<1>1. \A x \in hits :
         (/\ x[1] \notin next.deps
          /\ next.pc = "finding" /\ x[1] = next.dep => \A m \in next.matches : m.cve # x[2])
         <=> x[1] \notin job.deps
  OBVIOUS
<1> QED
  BY <1>1 DEF ExactSoFar

LEMMA ExactNextMatch ==
  ASSUME NEW job, NEW fs, NEW hits, ExactSoFar(job, fs, hits), job.pc = "finding",
         job.dep \notin job.deps, \A m, n \in job.matches : m.cve = n.cve => m = n,
         \A x \in hits : x = << x[1], x[2] >>,
         NEW m \in job.matches, NEW f, f.dep = job.dep, f.cve = m.cve, NEW next,
         next.pc = IF job.matches \ {m} = {} THEN "next" ELSE "finding",
         next.deps = job.deps, next.dep = job.dep, next.matches = job.matches \ {m}
  PROVE  ExactSoFar(next, fs \cup {f}, hits)
<1> DEFINE p == << job.dep, m.cve >>
           Done(k, x) == /\ x[1] \notin k.deps
                         /\ k.pc = "finding" /\ x[1] = k.dep => \A n \in k.matches : n.cve # x[2]
<1>1. Pairs(fs \cup {f}) = Pairs(fs) \cup {p}
  BY DEF Pairs
<1>2. p \in hits /\ Done(next, p)
  BY DEF ExactSoFar
<1>3. \A x \in hits : Done(next, x) <=> Done(job, x) \/ (x[1] = job.dep /\ x[2] = m.cve)
  OBVIOUS
<1>4. \A x \in hits : x[1] = job.dep /\ x[2] = m.cve <=> x = p
  OBVIOUS
<1>5. Pairs(fs) = {x \in hits : Done(job, x)}
  BY DEF ExactSoFar
<1>6. next.pc = "finding" => \A n \in next.matches : << next.dep, n.cve >> \in hits
  BY DEF ExactSoFar
<1> HIDE DEF p, Done
<1>7. Pairs(fs \cup {f}) = {x \in hits : Done(next, x)}
  BY <1>1, <1>2, <1>3, <1>4, <1>5
<1> QED
  BY <1>6, <1>7 DEF ExactSoFar, Done

LEMMA ExactStays ==
  ASSUME severity' = severity, NEW i \in ReportJob, ScanExact(i), rjob'[i] = rjob[i],
         NEW r, r = rjob[i].report,
         \/ FindingsOf(r)' = FindingsOf(r) /\ DepsOf(r.version)' = DepsOf(r.version)
         \/ FindingsOf(r)' = {} /\ Held(rjob[i]) \cap DepsOf(r.version)' = {}
  PROVE  ScanExact(i)'
<1>1. /\ FindingsOf(rjob[i].report)' = FindingsOf(r)'
      /\ DepsOf(rjob[i].report.version)' = DepsOf(r.version)'
      /\ Hits(rjob[i].report.version)' = Hits(r.version)'
  BY DEF FindingsOf, DepsOf, Hits
<1>2. DepsOf(r.version)' = DepsOf(r.version) => Hits(r.version)' = Hits(r.version)
  BY DEF Hits
<1>3. rjob[i].pc \in {"next", "finding"} =>
        \/ ExactSoFar(rjob[i], FindingsOf(r), Hits(r.version))
        \/ Overtaken(rjob[i], FindingsOf(r), DepsOf(r.version))
  BY DEF ScanExact
<1>4. FindingsOf(r)' = {} /\ Held(rjob[i]) \cap DepsOf(r.version)' = {} =>
        Overtaken(rjob[i], FindingsOf(r)', DepsOf(r.version)')
  BY DEF Overtaken
<1>5. rjob[i].pc \in {"next", "finding"} =>
        \/ ExactSoFar(rjob[i], FindingsOf(r)', Hits(r.version)')
        \/ Overtaken(rjob[i], FindingsOf(r)', DepsOf(r.version)')
  BY <1>2, <1>3, <1>4
<1> QED
  BY <1>1, <1>5 DEF ScanExact

LEMMA ListStays ==
  ASSUME severity' = severity, NEW r, ListExact(r), summary'[r] = summary[r],
         \/ FindingsOf(r)' = FindingsOf(r) /\ DepsOf(r.version)' = DepsOf(r.version)
         \/ FindingsOf(r)' = {}
  PROVE  ListExact(r)'
<1>1. DepsOf(r.version)' = DepsOf(r.version) => Hits(r.version)' = Hits(r.version)
  BY DEF Hits
<1> QED
  BY <1>1 DEF ListExact

(***************************************************************************)
(* The job's own report: each statement keeps the list exact so far, and   *)
(* when the counters are written nothing is left to look at.               *)
(***************************************************************************)
LEMMA OwnExact ==
  ASSUME TypeOK, Consistent, ReportsNumbered, Scans, ExactInv, severity' = severity,
         NEW j \in ReportJob, ReportStep(j), deps' = deps,
         NEW r, r = rjob[j].report
  PROVE  ScanExact(j)' /\ (r \in reports' => ListExact(r)')
<1> DEFINE ds == DepsOf(r.version)
           fs == FindingsOf(r)
           hits == Hits(r.version)
<1>1. ASSUME NEW job, rjob' = [rjob EXCEPT ![j] = job], job.report = r \/ job.pc = "idle",
             job.pc \in {"next", "finding"} =>
                 ExactSoFar(job, FindingsOf(r)', hits) \/ Overtaken(job, FindingsOf(r)', ds)
      PROVE  ScanExact(j)'
  <2>1. rjob'[j] = job
    BY <1>1 DEF TypeOK, ReportTypeOK
  <2>2. job.report = r =>
           /\ FindingsOf(rjob[j].report)' = FindingsOf(r)'
           /\ DepsOf(rjob[j].report.version)' = ds
           /\ Hits(rjob[j].report.version)' = hits
    BY <2>1 DEF FindingsOf, DepsOf, Hits
  <2> HIDE DEF ds, hits
  <2> QED
    BY <1>1, <2>1, <2>2 DEF ScanExact
<1>2. /\ rjob[j].pc \in {"next", "finding"} => ExactSoFar(rjob[j], fs, hits)
                                               \/ Overtaken(rjob[j], fs, ds)
      /\ rjob[j].pc \in {"next", "finding"} => Intact(rjob[j], fs, ds)
                                               \/ Overtaken(rjob[j], fs, ds)
      /\ rjob[j].pc = "load" => fs = {}
      /\ rjob[j].pc \in {"load", "next", "finding"} /\ r \in reports => summary[r] = EmptySummary
  BY DEF ExactInv, ScanExact, Scans, ScanFits
<1>3. UNCHANGED << reports, summary, findings >> => (r \in reports' => ListExact(r)')
  BY DEF ExactInv, ListExact, FindingsOf, DepsOf, Hits
<1>4. UNCHANGED findings => FindingsOf(r)' = fs
  BY DEF FindingsOf
<1>5. \A loaded, rows, dep, ms, c :
         LET job == Scanning(j, loaded, rows, dep, ms, c) IN
         /\ job.pc = IF ms = {} THEN "next" ELSE "finding"
         /\ job.report = r /\ job.loaded = loaded /\ job.deps = rows /\ job.dep = dep
         /\ job.matches = ms /\ job.counts = c
  BY DEF Scanning
<1>6. NothingImported
  BY DEF ExactInv
<1>7. CASE InsertReport(j)
  <2>1. CASE rjob' = rjob /\ reports' = reports /\ summary' = summary
    <3>1. rjob[j].pc = "insert"
      BY <1>7 DEF InsertReport
    <3>2. ScanExact(j)'
      BY <2>1, <3>1 DEF ScanExact
    <3> QED
      BY <1>3, <1>7, <2>1, <3>2 DEF InsertReport
  <2>2. CASE rjob' = [rjob EXCEPT ![j].pc = "load"] /\ r \in reports'
    <3>1. rjob'[j].pc = "load"
      BY <2>2 DEF TypeOK, ReportTypeOK
    <3>2. r \notin reports
      BY <1>7 DEF InsertReport, ReportsNumbered
    <3>3. summary'[r] = EmptySummary
      BY <1>7, <2>2, <3>2 DEF InsertReport
    <3> QED
      BY <3>1, <3>3 DEF ScanExact, ListExact
  <2> QED
    BY <1>7, <2>1, <2>2 DEF InsertReport
<1>8. CASE LoadDependencies(j)
  <2>1. UNCHANGED << reports, summary, findings >>
    BY <1>8 DEF LoadDependencies, tables
  <2> DEFINE c   == [EmptySummary EXCEPT !.total = Cardinality(ds)]
             job == Scanning(j, ds, ds, NoRow, {}, c)
  <2>2. rjob' = [rjob EXCEPT ![j] = job] /\ rjob[j].pc = "load"
    BY <1>8 DEF LoadDependencies, RowsToScan
  <2>3. job.pc = "next" /\ job.report = r /\ job.deps = ds
    BY <1>5
  <2> HIDE DEF job
  <2>4. ExactSoFar(job, {}, hits)
    BY <2>3 DEF ExactSoFar, Pairs, Hits
  <2> QED
    BY <1>1, <1>2, <1>3, <1>4, <2>1, <2>2, <2>3, <2>4
<1>9. CASE MatchDependency(j)
  <2>1. UNCHANGED << reports, summary, findings >>
    BY <1>9 DEF MatchDependency, tables
  <2>2. PICK d \in rjob[j].deps :
           rjob' = [rjob EXCEPT ![j] = Scanning(j, rjob[j].loaded, rjob[j].deps \ {d}, d,
                                                MatchingCves(d), rjob[j].counts)]
    BY <1>9 DEF MatchDependency, Rest
  <2> DEFINE job == Scanning(j, rjob[j].loaded, rjob[j].deps \ {d}, d, MatchingCves(d),
                             rjob[j].counts)
  <2>3. /\ job.pc = IF MatchingCves(d) = {} THEN "next" ELSE "finding"
        /\ job.report = r /\ job.loaded = rjob[j].loaded
        /\ job.deps = rjob[j].deps \ {d} /\ job.dep = d
        /\ job.matches = MatchingCves(d) /\ job.counts = rjob[j].counts
    BY <1>5
  <2>4. \A m, n \in MatchingCves(d) : m.cve = n.cve => m = n
    BY DEF MatchingCves
  <2>5. rjob[j].pc = "next"
    BY <1>9 DEF MatchDependency
  <2> HIDE DEF job
  <2>6. CASE Overtaken(rjob[j], fs, ds)
    <3>1. Overtaken(job, fs, ds)
      BY <2>3, <2>4, <2>6, ScanNextRow
    <3> QED
      BY <1>1, <1>3, <1>4, <2>1, <2>2, <2>3, <3>1 DEF job
  <2>7. CASE Intact(rjob[j], fs, ds) /\ ExactSoFar(rjob[j], fs, hits)
    <3>1. d \in ds
      BY <2>7 DEF Intact, Held
    <3>2. /\ \A m \in MatchingCves(d) : << d, m.cve >> \in hits
          /\ \A x \in hits : x[1] = d => \E m \in MatchingCves(d) : m.cve = x[2]
      BY <1>6, <3>1, MatchingIsHits
    <3> HIDE DEF hits
    <3>3. ExactSoFar(job, fs, hits)
      BY <2>3, <2>5, <2>7, <3>2, ExactNextRow
    <3> QED
      BY <1>1, <1>3, <1>4, <2>1, <2>2, <2>3, <3>3 DEF job
  <2> QED
    BY <1>2, <2>5, <2>6, <2>7
<1>10. CASE InsertFinding(j)
  <2> DEFINE d == rjob[j].dep
             f(m) == [report |-> r, dep |-> d, cve |-> m.cve, severity |-> m.severity]
             next(m) == Scanning(j, rjob[j].loaded, rjob[j].deps, d, rjob[j].matches \ {m},
                                 Count(m.severity, rjob[j].counts))
  <2>0. rjob[j].pc = "finding" /\ UNCHANGED << reports, summary >>
    BY <1>10 DEF InsertFinding
  <2>1. CASE rjob' = rjob /\ findings' = findings
    <3>1. rjob' = [rjob EXCEPT ![j] = rjob[j]]
      BY <2>1 DEF TypeOK, ReportTypeOK
    <3> QED
      BY <1>1, <1>2, <1>3, <1>4, <2>0, <2>1, <3>1
  <2>2. ASSUME NEW m \in rjob[j].matches, r \in reports, d \in deps,
               findings' = findings \cup {f(m)}, rjob' = [rjob EXCEPT ![j] = next(m)]
        PROVE  ScanExact(j)' /\ (r \in reports' => ListExact(r)')
    <3>1. d \in ds /\ d \in Held(rjob[j])
      BY <2>0, <2>2 DEF DepsOf, Held, Consistent, ScansOwnVersion
    <3>2. Intact(rjob[j], fs, ds) /\ ExactSoFar(rjob[j], fs, hits)
      BY <1>2, <2>0, <3>1 DEF Overtaken
    <3>3. FindingsOf(r)' = fs \cup {f(m)}
      BY <2>2 DEF FindingsOf
    <3>4. /\ next(m).pc = IF rjob[j].matches \ {m} = {} THEN "next" ELSE "finding"
          /\ next(m).report = r /\ next(m).loaded = rjob[j].loaded
          /\ next(m).deps = rjob[j].deps /\ next(m).dep = d
          /\ next(m).matches = rjob[j].matches \ {m}
      BY <1>5
    <3>5. f(m).dep = d /\ f(m).cve = m.cve
      OBVIOUS
    <3>6. \A x \in hits : x = << x[1], x[2] >>
      BY DEF Hits
    <3>7. /\ d \notin rjob[j].deps
          /\ \A k, n \in rjob[j].matches : k.cve = n.cve => k = n
      BY <2>0, <3>2 DEF Intact
    <3> HIDE DEF f, next, fs, ds, hits
    <3>8. ExactSoFar(next(m), fs \cup {f(m)}, hits)
      BY <2>0, <3>2, <3>4, <3>5, <3>6, <3>7, ExactNextMatch
    <3>9. ScanExact(j)'
      BY <1>1, <2>2, <3>3, <3>4, <3>8
    <3>10. summary'[r] = EmptySummary
      BY <1>2, <2>0, <2>2
    <3> QED
      BY <3>9, <3>10 DEF ListExact
  <2> QED
    BY <1>10, <2>1, <2>2 DEF InsertFinding
<1>11. CASE UpdateReportSummary(j)
  <2>1. rjob'[j].pc = "carry" /\ rjob[j].pc = "next" /\ rjob[j].deps = {}
    BY <1>11 DEF UpdateReportSummary, TypeOK, ReportTypeOK
  <2>2. FindingsOf(r)' = fs /\ Hits(r.version)' = hits
    BY <1>11 DEF UpdateReportSummary, FindingsOf, DepsOf, Hits
  <2>3. fs # {} => Pairs(fs) = hits
    BY <1>2, <2>1 DEF ExactSoFar, Overtaken
  <2> HIDE DEF fs, hits
  <2> QED
    BY <2>1, <2>2, <2>3 DEF ScanExact, ListExact
<1>12. CASE CarryOverMitigations(j)
  <2>1. rjob' = [rjob EXCEPT ![j] = IdleReport] /\ IdleReport.pc = "idle"
    BY <1>12 DEF CarryOverMitigations, IdleReport
  <2>2. UNCHANGED << reports, summary, findings >>
    BY <1>12 DEF CarryOverMitigations
  <2> HIDE DEF ListExact
  <2> QED
    BY <1>1, <1>3, <2>1, <2>2
<1> QED
  BY <1>7, <1>8, <1>9, <1>10, <1>11, <1>12 DEF ReportStep

LEMMA ExactKept ==
  ASSUME MaxUpserts = 0
  PROVE  TypeOK /\ DepsFinite /\ Consistent /\ SummaryInv /\ ExactInv /\ [Next]_vars => ExactInv'
<1> SUFFICES ASSUME TypeOK, DepsFinite, Consistent, SummaryInv, ExactInv, [Next]_vars
             PROVE  ExactInv'
  OBVIOUS
<1> USE DEF SummaryInv
<1>1. NothingImported' /\ severity' = severity
  BY NothingImportedStays DEF ExactInv
<1>2. ASSUME NEW j \in ReportJob, ReportStep(j), deps' = deps
      PROVE  ExactInv'
  <2>1. PICK r : r = rjob[j].report
    OBVIOUS
  <2>2. ScanExact(j)' /\ (r \in reports' => ListExact(r)')
    BY <1>1, <1>2, <2>1, OwnExact
  <2>3. ASSUME NEW i \in ReportJob, i # j
        PROVE  ScanExact(i)'
    <3>1. rjob'[i] = rjob[i]
      <4>1. \E job : rjob' = [rjob EXCEPT ![j] = job]
        BY <1>2, ReportStepHolds
      <4> QED
        BY <2>3, <4>1 DEF TypeOK, ReportTypeOK
    <3>2. CASE rjob[i].pc = "idle"
      BY <3>1, <3>2 DEF ScanExact
    <3>3. CASE rjob[i].pc # "idle"
      <4>1. PICK x : x = rjob[i].report
        OBVIOUS
      <4>2. x # r
        BY <1>2, <2>1, <2>3, <3>3, <4>1, ReportStepHolds DEF ReportsNumbered
      <4>3. ScanExact(i)
        BY DEF ExactInv
      <4> QED
        BY <1>1, <1>2, <2>1, <3>1, <4>1, <4>2, <4>3, OtherReports, ExactStays
    <3> QED
      BY <3>2, <3>3
  <2>4. ASSUME NEW x \in reports', x # r
        PROVE  ListExact(x)'
    <3>1. x \in reports /\ summary'[x] = summary[x]
      BY <1>2, <2>1, <2>4, OtherReports
    <3>2. ListExact(x)
      BY <3>1 DEF ExactInv
    <3> QED
      BY <1>1, <1>2, <2>1, <2>4, <3>1, <3>2, OtherReports, ListStays
  <2> QED
    BY <1>1, <2>2, <2>3, <2>4 DEF ExactInv
<1>3. ASSUME \A i \in ReportJob : rjob'[i] = rjob[i] \/ rjob'[i].pc \in {"idle", "insert"},
             \A r \in reports' : r \in reports /\ summary'[r] = summary[r],
             \A r : Whole(r)
      PROVE  ExactInv'
  <2>1. ASSUME NEW i \in ReportJob
        PROVE  ScanExact(i)'
    <3>1. CASE rjob'[i] = rjob[i]
      <4>1. PICK r : r = rjob[i].report
        OBVIOUS
      <4>2. ScanExact(i) /\ Whole(r)
        BY <1>3 DEF ExactInv
      <4> QED
        BY <1>1, <1>3, <3>1, <4>1, <4>2, ExactStays DEF Whole
    <3>2. CASE rjob'[i].pc \in {"idle", "insert"}
      BY <3>2 DEF ScanExact
    <3> QED
      BY <1>3, <3>1, <3>2
  <2>2. ASSUME NEW r \in reports'
        PROVE  ListExact(r)'
    <3>1. ListExact(r) /\ summary'[r] = summary[r] /\ Whole(r)
      BY <1>3 DEF ExactInv
    <3> QED
      BY <1>1, <3>1, ListStays DEF Whole
  <2> QED
    BY <1>1, <2>1, <2>2 DEF ExactInv
<1> QED
  BY <1>2, <1>3, WholeOrGone

LEMMA InitExact == Init => ExactInv
<1> SUFFICES ASSUME Init PROVE ExactInv
  OBVIOUS
<1>1. ASSUME NEW c \in Cve
      PROVE  AffectedRanges(c) = IF severity[c] # NotImported THEN AffectedBy[c] ELSE {}
  <2>1. AffectedBy[c] \subseteq VersionedPackage
    BY FeedAssumption
  <2>2. \A x \in VersionedPackage :
           /\ [cve |-> c, range |-> x] \in AffectedRow
           /\ affected[[cve |-> c, range |-> x]] > 0 <=>
                severity[c] # NotImported /\ x \in AffectedBy[c]
    <3> SUFFICES ASSUME NEW x \in VersionedPackage
                 PROVE  /\ [cve |-> c, range |-> x] \in AffectedRow
                        /\ affected[[cve |-> c, range |-> x]] > 0 <=>
                             severity[c] # NotImported /\ x \in AffectedBy[c]
      OBVIOUS
    <3> DEFINE row == [cve |-> c, range |-> x]
    <3>1. row \in AffectedRow /\ row.cve = c /\ row.range = x
      BY DEF AffectedRow, VersionedPackage
    <3> HIDE DEF row
    <3>2. affected[row] = IF severity[c] # NotImported /\ x \in AffectedBy[c] THEN 1 ELSE 0
      BY <3>1 DEF Init
    <3>3. affected[row] > 0 <=> severity[c] # NotImported /\ x \in AffectedBy[c]
      BY <3>2
    <3> QED
      BY <3>1, <3>3 DEF row
  <2> QED
    BY <2>1, <2>2 DEF AffectedRanges, VersionedPackage
<1>2. NothingImported
  BY <1>1 DEF Init, IdleWriter, NothingImported
<1>3. reports = {} /\ \A j \in ReportJob : rjob[j].pc = "idle"
  BY DEF Init, EmptyTables, ReportInit, IdleReport
<1> QED
  BY <1>2, <1>3 DEF ExactInv, ScanExact

LEMMA AlwaysExact == Spec => [](MaxUpserts = 0 => ExactInv)
<1>1. /\ TypeOK /\ DepsFinite /\ Consistent /\ SummaryInv
      /\ (MaxUpserts = 0 => ExactInv) /\ [Next]_vars
      => (MaxUpserts = 0 => ExactInv)'
  BY ExactKept
<1>2. Init => (MaxUpserts = 0 => ExactInv)
  BY InitExact
<1> QED
  BY <1>1, <1>2, AlwaysCounted, PTL DEF Spec

(***************************************************************************)
(* With nothing imported meanwhile, a completed report that still has its  *)
(* findings lists every pair of a dependency and a CVE that match and no   *)
(* other, however analyses, deletions and other reports come between its   *)
(* statements (ReportEngine::generateReport, findMatchingCves).            *)
(***************************************************************************)
THEOREM ReportsExact == Spec => []ReportIsExact
<1>1. (MaxUpserts = 0 => ExactInv) => ReportIsExact
  BY DEF ExactInv, ListExact, Pairs, Hits, ReportIsExact
<1> QED
  BY <1>1, AlwaysExact, PTL

-----------------------------------------------------------------------------

(***************************************************************************)
(* What a job in its loop looks at are rows it loaded, and its total       *)
(* counts them; without any, its counters stay at zero.                    *)
(***************************************************************************)
InLoop(job) == job.pc \in {"next", "finding"}

OfLoaded(job) ==
    /\ IsFiniteSet(job.loaded)
    /\ job.deps \subseteq job.loaded
    /\ job.pc = "finding" => job.dep \in job.loaded
    /\ job.counts.total = Cardinality(job.loaded)
    /\ job.loaded = {} => job.counts = EmptySummary

ScansLoaded == \A j \in ReportJob : InLoop(rjob[j]) => OfLoaded(rjob[j])

LEMMA OwnLoaded ==
  ASSUME TypeOK, DepsFinite, ScansLoaded, NEW j \in ReportJob, ReportStep(j)
  PROVE  \E job : rjob' = [rjob EXCEPT ![j] = job] /\ (InLoop(job) => OfLoaded(job))
<1> DEFINE Good(job) == rjob' = [rjob EXCEPT ![j] = job] /\ (InLoop(job) => OfLoaded(job))
<1>1. \A loaded, rows, dep, ms, c :
         LET job == Scanning(j, loaded, rows, dep, ms, c) IN
         /\ job.pc = IF ms = {} THEN "next" ELSE "finding"
         /\ job.loaded = loaded /\ job.deps = rows /\ job.dep = dep /\ job.counts = c
  BY DEF Scanning
<1>2. ASSUME rjob' = rjob
      PROVE  \E job : Good(job)
  <2>1. rjob' = [rjob EXCEPT ![j] = rjob[j]]
    BY <1>2 DEF TypeOK, ReportTypeOK
  <2> QED
    BY <2>1 DEF ScansLoaded
<1>3. ASSUME NEW pc \in {"load", "carry"}, rjob' = [rjob EXCEPT ![j].pc = pc]
      PROVE  \E job : Good(job)
  <2> DEFINE job == [rjob[j] EXCEPT !.pc = pc]
  <2>1. job.pc = pc
    BY DEF TypeOK, ReportTypeOK
  <2>2. Good(job)
    BY <1>3, <2>1 DEF InLoop
  <2> QED
    BY <2>2
<1>4. CASE InsertReport(j)
  BY <1>2, <1>3, <1>4 DEF InsertReport
<1>5. CASE LoadDependencies(j)
  <2> DEFINE rows == RowsToScan(rjob[j].report.version)
             c    == [EmptySummary EXCEPT !.total = Cardinality(rows)]
             job  == Scanning(j, rows, rows, NoRow, {}, c)
  <2>1. IsFiniteSet(rows)
    BY FS_Subset DEF DepsFinite, RowsToScan, DepsOf
  <2>2. c.total = Cardinality(rows) /\ (Cardinality(rows) = 0 => c = EmptySummary)
    BY DEF EmptySummary
  <2>3. job.pc = "next" /\ job.loaded = rows /\ job.deps = rows /\ job.counts = c
    BY <1>1
  <2>4. rjob' = [rjob EXCEPT ![j] = job]
    BY <1>5 DEF LoadDependencies
  <2> HIDE DEF job, c, rows
  <2>5. OfLoaded(job)
    BY <2>1, <2>2, <2>3, FS_EmptySet DEF OfLoaded
  <2> QED
    BY <2>4, <2>5
<1>6. CASE MatchDependency(j)
  <2>1. PICK d \in rjob[j].deps :
           rjob' = [rjob EXCEPT ![j] = Scanning(j, rjob[j].loaded, rjob[j].deps \ {d}, d,
                                                MatchingCves(d), rjob[j].counts)]
    BY <1>6 DEF MatchDependency, Rest
  <2> DEFINE job == Scanning(j, rjob[j].loaded, rjob[j].deps \ {d}, d, MatchingCves(d),
                             rjob[j].counts)
  <2>2. /\ job.loaded = rjob[j].loaded /\ job.deps = rjob[j].deps \ {d} /\ job.dep = d
        /\ job.counts = rjob[j].counts
    BY <1>1
  <2> HIDE DEF job
  <2>3. OfLoaded(rjob[j])
    BY <1>6 DEF MatchDependency, ScansLoaded, InLoop
  <2>4. OfLoaded(job)
    BY <2>2, <2>3 DEF OfLoaded
  <2> QED
    BY <2>1, <2>4 DEF job
<1>7. CASE InsertFinding(j)
  <2>1. CASE rjob' = rjob
    BY <1>2, <2>1
  <2>2. CASE rjob' # rjob
    <3>1. PICK m :
             rjob' = [rjob EXCEPT ![j] = Scanning(j, rjob[j].loaded, rjob[j].deps, rjob[j].dep,
                         rjob[j].matches \ {m}, Count(m.severity, rjob[j].counts))]
      BY <1>7, <2>2 DEF InsertFinding
    <3> DEFINE c   == Count(m.severity, rjob[j].counts)
               job == Scanning(j, rjob[j].loaded, rjob[j].deps, rjob[j].dep,
                               rjob[j].matches \ {m}, c)
    <3>2. /\ job.loaded = rjob[j].loaded /\ job.deps = rjob[j].deps /\ job.dep = rjob[j].dep
          /\ job.counts = c
      BY <1>1
    <3>3. c.total = rjob[j].counts.total
      BY DEF Count
    <3> HIDE DEF job, c
    <3>4. OfLoaded(rjob[j]) /\ rjob[j].dep \in rjob[j].loaded
      BY <1>7 DEF InsertFinding, ScansLoaded, InLoop, OfLoaded
    <3>5. OfLoaded(job)
      BY <3>2, <3>3, <3>4 DEF OfLoaded
    <3> QED
      BY <3>1, <3>5 DEF job, c
  <2> QED
    BY <2>1, <2>2
<1>8. CASE UpdateReportSummary(j)
  BY <1>3, <1>8 DEF UpdateReportSummary
<1>9. CASE CarryOverMitigations(j)
  <2>1. Good(IdleReport)
    BY <1>9 DEF CarryOverMitigations, IdleReport, InLoop
  <2> QED
    BY <2>1
<1> QED
  BY <1>4, <1>5, <1>6, <1>7, <1>8, <1>9 DEF ReportStep

LEMMA ScansLoadedKept ==
  TypeOK /\ DepsFinite /\ Consistent /\ SummaryInv /\ ScansLoaded /\ [Next]_vars => ScansLoaded'
<1> SUFFICES ASSUME TypeOK, DepsFinite, Consistent, SummaryInv, ScansLoaded, [Next]_vars
             PROVE  ScansLoaded'
  OBVIOUS
<1>1. ASSUME NEW j \in ReportJob, ReportStep(j)
      PROVE  ScansLoaded'
  <2>1. PICK job : rjob' = [rjob EXCEPT ![j] = job] /\ (InLoop(job) => OfLoaded(job))
    BY <1>1, OwnLoaded
  <2>2. rjob'[j] = job /\ \A i \in ReportJob : i # j => rjob'[i] = rjob[i]
    BY <2>1 DEF TypeOK, ReportTypeOK
  <2> QED
    BY <2>1, <2>2 DEF ScansLoaded
<1>2. ASSUME \A i \in ReportJob : rjob'[i] = rjob[i] \/ rjob'[i].pc \in {"idle", "insert"}
      PROVE  ScansLoaded'
  BY <1>2 DEF ScansLoaded, InLoop
<1> QED
  BY <1>1, <1>2, WholeOrGone DEF SummaryInv

-----------------------------------------------------------------------------

(***************************************************************************)
(* What the move of one job does to the reports being made.                *)
(***************************************************************************)
Making(job) == IF InLoop(job) THEN {[report |-> job.report, rows |-> job.loaded]} ELSE {}

LEMMA BegunMoves ==
  ASSUME TypeOK, ReportsNumbered, NEW j \in ReportJob, rjob[j].pc # "idle",
         NEW job, rjob' = [rjob EXCEPT ![j] = job]
  PROVE  \E others : /\ Begun = others \cup Making(rjob[j])
                     /\ Begun' = others \cup Making(job)
                     /\ \A b \in others : b.report # rjob[j].report
<1> DEFINE B(i)   == [report |-> rjob[i].report, rows |-> rjob[i].loaded]
           Other  == {i \in ReportJob : i # j /\ InLoop(rjob[i])}
           others == {B(i) : i \in Other}
<1>1. rjob'[j] = job /\ \A i \in ReportJob : i # j => rjob'[i] = rjob[i]
  BY DEF TypeOK, ReportTypeOK
<1>2. Begun = others \cup Making(rjob[j])
  BY DEF Begun, Making, InLoop
<1>3. Begun' = others \cup Making(job)
  BY <1>1 DEF Begun, Making, InLoop
<1>4. \A b \in others : b.report # rjob[j].report
  BY DEF ReportsNumbered, InLoop
<1> HIDE DEF others
<1> QED
  BY <1>2, <1>3, <1>4

LEMMA PublishedStays ==
  ASSUME \A r : (r \in reports' /\ summary'[r] # EmptySummary)
                <=> (r \in reports /\ summary[r] # EmptySummary),
         \A r \in reports : summary[r] # EmptySummary =>
                summary'[r] = summary[r] /\ FindingsOf(r)' = FindingsOf(r)
  PROVE  Published' = Published
<1> DEFINE D == {r \in reports : summary[r] # EmptySummary}
<1>1. {r \in reports' : summary'[r] # EmptySummary} = D
  OBVIOUS
<1>2. \A r \in D : summary'[r] = summary[r] /\ FindingsOf(r)' = FindingsOf(r)
  OBVIOUS
<1>3. Published = [r \in D |-> [list |-> FindingsOf(r), counts |-> summary[r]]]
  BY DEF Published
<1>4. Published' = [r \in D |-> [list |-> FindingsOf(r)', counts |-> summary'[r]]]
  BY <1>1 DEF Published
<1> HIDE DEF D
<1> QED
  BY <1>2, <1>3, <1>4

LEMMA SameCardinality ==
  ASSUME NEW S
  PROVE  A!Cardinality(S) = Cardinality(S)
BY DEF A!Cardinality, Cardinality

LEMMA SameRanges ==
  UNCHANGED affected => [c \in Cve |-> AffectedRanges(c)]' = [c \in Cve |-> AffectedRanges(c)]
BY DEF AffectedRanges

(***************************************************************************)
(* A step of a report job that touches no finished report.                 *)
(***************************************************************************)
LEMMA FinishedReportsStay ==
  ASSUME TypeOK, NEW j \in ReportJob, ReportStep(j), deps' = deps,
         NEW r, r = rjob[j].report,
         r \in reports => summary[r] = EmptySummary,
         r \in reports' => summary'[r] = EmptySummary
  PROVE  Published' = Published
<1>1. reports \subseteq reports'
  BY DEF ReportStep, InsertReport, LoadDependencies, MatchDependency, InsertFinding,
         UpdateReportSummary, CarryOverMitigations, tables
<1>2. ASSUME NEW x, x # r
      PROVE  /\ x \in reports' <=> x \in reports
             /\ x \in reports => summary'[x] = summary[x] /\ FindingsOf(x)' = FindingsOf(x)
  BY <1>1, <1>2, OtherReports
<1>3. \A x : (x \in reports' /\ summary'[x] # EmptySummary)
             <=> (x \in reports /\ summary[x] # EmptySummary)
  <2> TAKE x
  <2>1. CASE x = r
    BY <2>1
  <2>2. CASE x # r
    BY <1>2, <2>2
  <2> QED
    BY <2>1, <2>2
<1>4. ASSUME NEW x \in reports, summary[x] # EmptySummary
      PROVE  summary'[x] = summary[x] /\ FindingsOf(x)' = FindingsOf(x)
  BY <1>2, <1>4
<1> QED
  BY <1>3, <1>4, PublishedStays

(***************************************************************************)
(* updateReportSummary publishes the report, unless it is gone or has no   *)
(* rows.                                                                   *)
(***************************************************************************)
LEMMA SummaryPublishes ==
  ASSUME TypeOK, Consistent, SummaryInv, ScansLoaded, MaxUpserts = 0 => ExactInv,
         NEW j \in ReportJob, UpdateReportSummary(j)
  PROVE  A!Publish \/ A!Abandon
<1> DEFINE job == [rjob[j] EXCEPT !.pc = "carry"]
           r   == rjob[j].report
           b   == [report |-> r, rows |-> rjob[j].loaded]
           c   == rjob[j].counts
           fs  == FindingsOf(r)
           ds  == DepsOf(r.version)
<1>1. /\ rjob[j].pc = "next" /\ rjob[j].deps = {}
      /\ rjob' = [rjob EXCEPT ![j] = job]
      /\ summary' = [x \in reports |-> IF x = r THEN c ELSE summary[x]]
      /\ UNCHANGED << reports, findings, deps, affected >>
  BY DEF UpdateReportSummary
<1>2. job.pc = "carry"
  BY DEF TypeOK, ReportTypeOK
<1>3. UNCHANGED << deps, [x \in Cve |-> AffectedRanges(x)] >>
  BY <1>1, SameRanges
<1>4. r \in reports => summary[r] = EmptySummary
  BY <1>1 DEF SummaryInv, Scans, ScanFits
<1>5. OfLoaded(rjob[j])
  BY <1>1 DEF ScansLoaded, InLoop
<1>6. b \in Begun /\ Begun' = Begun \ {b}
  <2>1. PICK others : /\ Begun = others \cup Making(rjob[j])
                      /\ Begun' = others \cup Making(job)
                      /\ \A x \in others : x.report # rjob[j].report
    <3> HIDE DEF job
    <3> QED
      BY <1>1, BegunMoves DEF SummaryInv
  <2>2. Making(rjob[j]) = {b} /\ Making(job) = {}
    BY <1>1, <1>2 DEF Making, InLoop
  <2>3. b.report = rjob[j].report
    OBVIOUS
  <2> HIDE DEF b
  <2> QED
    BY <2>1, <2>2, <2>3
<1>7. CASE r \notin reports \/ c = EmptySummary
  <2>1. ReportStep(j) /\ deps' = deps
    BY <1>1 DEF ReportStep
  <2>2. r \in reports' => summary'[r] = EmptySummary
    BY <1>1, <1>7
  <2> HIDE DEF r
  <2>3. Published' = Published
    BY <1>4, <2>1, <2>2, FinishedReportsStay DEF r
  <2> QED
    BY <1>3, <1>6, <2>3 DEF A!Abandon
<1>8. CASE r \in reports /\ c # EmptySummary
  <2> DEFINE D == {x \in reports : summary[x] # EmptySummary}
             p == [list |-> fs, counts |-> c]
  <2>1. Published = [x \in D |-> [list |-> FindingsOf(x), counts |-> summary[x]]]
    BY DEF Published
  <2>2. /\ {x \in reports' : summary'[x] # EmptySummary} = D \cup {r}
        /\ \A x \in D : x # r /\ summary'[x] = summary[x]
        /\ summary'[r] = c
    BY <1>1, <1>4, <1>8
  <2>3. \A x : FindingsOf(x)' = FindingsOf(x)
    BY <1>1 DEF FindingsOf
  <2>4. Published' = [x \in D \cup {r} |-> [list |-> FindingsOf(x)', counts |-> summary'[x]]]
    BY <2>2 DEF Published
  <2> HIDE DEF D
  <2>5. /\ DOMAIN Published' = DOMAIN Published \cup {r}
        /\ \A x \in DOMAIN Published : Published'[x] = Published[x]
        /\ Published'[r] = p
    BY <2>1, <2>2, <2>3, <2>4
  <2>6. c.total = Cardinality(rjob[j].loaded) /\ rjob[j].loaded # {}
    BY <1>5, <1>8 DEF OfLoaded
  <2>7. A!RowsOf(r.version) = ds
    BY DEF A!RowsOf, DepsOf
  <2>8. Intact(rjob[j], fs, ds) \/ Overtaken(rjob[j], fs, ds)
    BY <1>1 DEF SummaryInv, Scans, ScanFits
  <2>9. ASSUME ds = rjob[j].loaded
        PROVE  A!Complete(ds, fs, c)
    <3>1. Intact(rjob[j], fs, ds) /\ ~ Overtaken(rjob[j], fs, ds)
      BY <2>6, <2>8, <2>9 DEF Overtaken, Held
    <3>2. Agrees(c, fs, ds) /\ \A f, g \in fs : f.dep = g.dep /\ f.cve = g.cve => f = g
      BY <3>1 DEF Intact
    <3>3. \A f \in fs : f.dep \in ds
      BY DEF Consistent, ForeignKeys, FindingWithinVersion, FindingsOf, DepsOf
    <3>4. ASSUME MaxUpserts = 0
          PROVE  {<< f.dep, f.cve >> : f \in fs} =
                 {x \in ds \X Cve : << x[1].package, x[1].ver >> \in AffectedRanges(x[2])}
      <4>1. ExactSoFar(rjob[j], fs, Hits(r.version))
        BY <1>1, <3>1, <3>4 DEF ExactInv, ScanExact
      <4>2. Pairs(fs) = Hits(r.version)
        BY <1>1, <4>1 DEF ExactSoFar
      <4>3. NothingImported
        BY <3>4 DEF ExactInv
      <4>4. Hits(r.version) =
               {x \in ds \X Cve : << x[1].package, x[1].ver >> \in AffectedRanges(x[2])}
        BY <4>3 DEF Hits, NothingImported
      <4> QED
        BY <4>2, <4>4 DEF Pairs
    <3> DEFINE M == [x \in Cve |-> AffectedRanges(x)]
    <3>5. {x \in ds \X DOMAIN M : << x[1].package, x[1].ver >> \in M[x[2]]} =
          {x \in ds \X Cve : << x[1].package, x[1].ver >> \in AffectedRanges(x[2])}
      OBVIOUS
    <3> HIDE DEF fs, ds, c, M
    <3>6. /\ Cardinality(fs) = c.vulnerable
          /\ \A s \in Counted : Cardinality({f \in fs : f.severity = s}) = c.by[s]
      BY <3>2 DEF Agrees
    <3>7. MaxUpserts = 0 => {<< f.dep, f.cve >> : f \in fs} =
                            {x \in ds \X DOMAIN M : << x[1].package, x[1].ver >> \in M[x[2]]}
      BY <3>4, <3>5
    <3> QED
      BY <3>2, <3>3, <3>6, <3>7, SameCardinality DEF A!Complete, M
  <2>10. ASSUME ds # rjob[j].loaded
         PROVE  fs = {}
    BY <2>8, <2>10 DEF Intact, Overtaken, Held
  <2>11. b.report = r /\ b.rows = rjob[j].loaded /\ p.list = fs /\ p.counts = c
    OBVIOUS
  <2> DEFINE q == Published'[b.report]
  <2> HIDE DEF b, p, r, c, fs, ds
  <2>12. q.list = fs /\ q.counts = c
    BY <2>5, <2>11
  <2>13. IF A!RowsOf(b.report.version) = b.rows
         THEN A!Complete(b.rows, q.list, q.counts)
         ELSE q.list = {}
    BY <2>7, <2>9, <2>10, <2>11, <2>12
  <2>14. q.counts.total = Cardinality(b.rows)
    BY <2>6, <2>11, <2>12
  <2>15. /\ DOMAIN Published' = DOMAIN Published \cup {b.report}
         /\ \A x \in DOMAIN Published : Published'[x] = Published[x]
    BY <2>5, <2>11
  <2> QED
    BY <1>3, <1>6, <2>13, <2>14, <2>15, SameCardinality DEF A!Publish
<1> QED
  BY <1>7, <1>8

(***************************************************************************)
(* The other statements of a report job: loading the rows begins a report, *)
(* and nothing else is seen from outside.                                  *)
(***************************************************************************)
LEMMA ReportStepAppears ==
  ASSUME TypeOK, Consistent, SummaryInv, ScansLoaded, MaxUpserts = 0 => ExactInv,
         NEW j \in ReportJob, ReportStep(j)
  PROVE  A!Next \/ UNCHANGED A!vars
<1> DEFINE r == rjob[j].report
           b == [report |-> r, rows |-> DepsOf(r.version)]
<1>1. UNCHANGED << deps, affected >> /\ rjob[j].pc # "idle"
  BY DEF ReportStep, InsertReport, LoadDependencies, MatchDependency, InsertFinding,
         UpdateReportSummary, CarryOverMitigations, tables
<1>2. UNCHANGED << deps, [x \in Cve |-> AffectedRanges(x)] >>
  BY <1>1, SameRanges
<1>3. /\ rjob[j].pc = "insert" => r \notin reports
      /\ rjob[j].pc \in {"load", "next", "finding"} /\ r \in reports =>
           summary[r] = EmptySummary
  BY DEF SummaryInv, ReportsNumbered, Scans, ScanFits
<1>4. \A loaded, rows, dep, ms, c :
         LET job == Scanning(j, loaded, rows, dep, ms, c) IN
         InLoop(job) /\ job.report = r /\ job.loaded = loaded
  BY DEF Scanning, InLoop
<1>5. ASSUME NEW job, rjob' = [rjob EXCEPT ![j] = job], Making(job) = Making(rjob[j])
      PROVE  Begun' = Begun
  BY <1>1, <1>5, BegunMoves DEF SummaryInv
<1>6. ASSUME rjob[j].pc # "carry", r \in reports' => summary'[r] = EmptySummary
      PROVE  Published' = Published
  <2>1. r \in reports => summary[r] = EmptySummary
    BY <1>1, <1>3, <1>6 DEF TypeOK, ReportTypeOK, ReportPc
  <2> HIDE DEF r
  <2> QED
    BY <1>1, <1>6, <2>1, FinishedReportsStay DEF r
<1>7. Begun' = Begun /\ Published' = Published => UNCHANGED A!vars
  BY <1>2 DEF A!vars
<1>8. CASE InsertReport(j)
  <2>1. Begun' = Begun
    <3>1. CASE rjob' = rjob
      BY <3>1 DEF Begun
    <3>2. CASE rjob' = [rjob EXCEPT ![j].pc = "load"]
      <4> DEFINE job == [rjob[j] EXCEPT !.pc = "load"]
      <4>1. job.pc = "load" /\ rjob[j].pc = "insert"
        BY <1>8 DEF InsertReport, TypeOK, ReportTypeOK
      <4>2. rjob' = [rjob EXCEPT ![j] = job]
        BY <3>2
      <4> HIDE DEF job
      <4>3. Making(job) = Making(rjob[j])
        BY <4>1 DEF Making, InLoop
      <4> QED
        BY <1>5, <4>2, <4>3
    <3> QED
      BY <1>8, <3>1, <3>2 DEF InsertReport
  <2>2. r \in reports' => summary'[r] = EmptySummary
    BY <1>3, <1>8 DEF InsertReport
  <2> QED
    BY <1>6, <1>7, <1>8, <2>1, <2>2 DEF InsertReport
<1>9. CASE LoadDependencies(j)
  <2>1. PICK c : rjob' = [rjob EXCEPT ![j] = Scanning(j, DepsOf(r.version), DepsOf(r.version),
                                                      NoRow, {}, c)]
    BY <1>9 DEF LoadDependencies, RowsToScan
  <2> DEFINE job == Scanning(j, DepsOf(r.version), DepsOf(r.version), NoRow, {}, c)
  <2>2. rjob[j].pc = "load" /\ UNCHANGED << reports, summary >>
    BY <1>9 DEF LoadDependencies, tables
  <2>3. Published' = Published
    BY <1>3, <1>6, <2>2
  <2>4. Making(job) = {b} /\ Making(rjob[j]) = {}
    BY <1>4, <2>2 DEF Making, InLoop
  <2>5. /\ Begun' = Begun \cup {b}
        /\ \A x \in Begun : x.report # r
    <3> HIDE DEF job, b
    <3>1. PICK others : /\ Begun = others \cup Making(rjob[j])
                        /\ Begun' = others \cup Making(job)
                        /\ \A x \in others : x.report # rjob[j].report
      BY <1>1, <2>1, BegunMoves DEF SummaryInv, job
    <3> QED
      BY <2>4, <3>1
  <2>6. r \notin DOMAIN Published
    BY <1>3, <2>2 DEF Published
  <2>7. b.report = r /\ b.rows = A!RowsOf(r.version)
    BY DEF A!RowsOf, DepsOf
  <2> HIDE DEF b, r
  <2>8. b \in Begun' /\ b.report \notin DOMAIN Published \cup {x.report : x \in Begun}
    BY <2>5, <2>6, <2>7
  <2>9. A!Begin
    BY <1>2, <2>3, <2>5, <2>7, <2>8 DEF A!Begin
  <2> QED
    BY <2>9 DEF A!Next
<1>10. CASE MatchDependency(j)
  <2>1. PICK rows, dep, ms, c :
           rjob' = [rjob EXCEPT ![j] = Scanning(j, rjob[j].loaded, rows, dep, ms, c)]
    BY <1>10 DEF MatchDependency
  <2> DEFINE job == Scanning(j, rjob[j].loaded, rows, dep, ms, c)
  <2>2. rjob[j].pc = "next" /\ UNCHANGED << reports, summary >>
    BY <1>10 DEF MatchDependency, tables
  <2>3. Making(job) = Making(rjob[j])
    BY <1>4, <2>2 DEF Making, InLoop
  <2> HIDE DEF job
  <2>4. Begun' = Begun
    BY <1>5, <2>1, <2>3 DEF job
  <2> QED
    BY <1>3, <1>6, <1>7, <2>2, <2>4
<1>11. CASE InsertFinding(j)
  <2>1. rjob[j].pc = "finding" /\ UNCHANGED << reports, summary >>
    BY <1>11 DEF InsertFinding
  <2>2. Begun' = Begun
    <3>1. CASE rjob' = rjob
      BY <3>1 DEF Begun
    <3>2. CASE rjob' # rjob
      <4>1. PICK rows, dep, ms, c :
               rjob' = [rjob EXCEPT ![j] = Scanning(j, rjob[j].loaded, rows, dep, ms, c)]
        BY <1>11, <3>2 DEF InsertFinding
      <4> DEFINE job == Scanning(j, rjob[j].loaded, rows, dep, ms, c)
      <4>2. Making(job) = Making(rjob[j])
        BY <1>4, <2>1 DEF Making, InLoop
      <4> HIDE DEF job
      <4> QED
        BY <1>5, <4>1, <4>2 DEF job
    <3> QED
      BY <3>1, <3>2
  <2> QED
    BY <1>3, <1>6, <1>7, <2>1, <2>2
<1>12. CASE UpdateReportSummary(j)
  BY <1>12, SummaryPublishes DEF A!Next
<1>13. CASE CarryOverMitigations(j)
  <2>1. /\ rjob[j].pc = "carry" /\ UNCHANGED << reports, summary, findings >>
        /\ rjob' = [rjob EXCEPT ![j] = IdleReport]
    BY <1>13 DEF CarryOverMitigations
  <2>2. Making(IdleReport) = Making(rjob[j])
    BY <2>1 DEF Making, InLoop, IdleReport
  <2>3. Begun' = Begun
    BY <1>5, <2>1, <2>2
  <2>4. Published' = Published
    BY <2>1, PublishedStays DEF FindingsOf
  <2> QED
    BY <1>7, <2>3, <2>4
<1> QED
  BY <1>8, <1>9, <1>10, <1>11, <1>12, <1>13 DEF ReportStep

(***************************************************************************)
(* Only a CVE writer changes affected ranges, and it changes nothing else  *)
(* a report is made from.                                                  *)
(***************************************************************************)
LEMMA RangesOrReports ==
  ASSUME [Next]_vars
  PROVE  UNCHANGED affected \/ UNCHANGED << deps, reports, summary, findings, rjob >>
<1>1. ASSUME NEW j \in AnalysisJob, AnalysisProceeds(j)
      PROVE  UNCHANGED affected
  BY <1>1 DEF AnalysisProceeds, AnalysisStep, LookupVersion, Checkout, CheckoutFails,
              RunAnalyzer, AnalyzerFails, StoreDependencies, tables
<1>2. ASSUME NEW j \in ReportJob, ReportProceeds(j)
      PROVE  UNCHANGED affected
  BY <1>2 DEF ReportProceeds, ReportStep, InsertReport, LoadDependencies, MatchDependency,
              InsertFinding, UpdateReportSummary, CarryOverMitigations, tables
<1>3. ASSUME LinkingProceeds \/ Crash \/ Restart \/ UNCHANGED vars
      PROVE  UNCHANGED affected
  BY <1>3 DEF LinkingProceeds, LinkMitigation, Crash, Restart, vars, tables
<1>4. ASSUME NEW w \in Writer, WritingProceeds(w)
      PROVE  UNCHANGED << deps, reports, summary, findings, rjob >>
  BY <1>4 DEF WritingProceeds, reportVars
<1>5. ASSUME Request
      PROVE  UNCHANGED affected
  BY <1>5
     DEF Request, AnalyzeRequest, ReportRequest, CreateMitigation, RemoveMitigation,
         SyncVersion, RemoveVersion, RemoveProject, UpsertCve, UpsertCveRecord, tables
<1> QED
  BY <1>1, <1>2, <1>3, <1>4, <1>5 DEF Next

(***************************************************************************)
(* A step that leaves rows, findings and jobs alone is not seen, unless it *)
(* imports.                                                                *)
(***************************************************************************)
LEMMA ImportAppears ==
  ASSUME TypeOK, MaxUpserts = 0 => ExactInv, [Next]_vars,
         UNCHANGED << deps, reports, summary, findings, rjob >>
  PROVE  A!Next \/ UNCHANGED A!vars
<1> DEFINE M == [x \in Cve |-> AffectedRanges(x)]
<1>1. UNCHANGED << deps, Begun, Published >>
  BY DEF Begun, Published, FindingsOf
<1>2. CASE MaxUpserts = 0
  <2>1. NothingImported /\ NothingImported' /\ severity' = severity
    BY <1>2, NothingImportedStays DEF ExactInv
  <2>2. \A x \in Cve : AffectedRanges(x)' = AffectedRanges(x)
    BY <2>1 DEF NothingImported
  <2>3. M' = M
    BY <2>2
  <2> QED
    BY <1>1, <2>3 DEF A!vars
<1>3. CASE MaxUpserts # 0
  BY <1>1, <1>3 DEF A!Next, A!Import
<1> QED
  BY <1>2, <1>3

LEMMA RemovalAppears ==
  ASSUME TypeOK, Consistent, NEW V, Retain(V, deps), UNCHANGED << rjob, affected >>
  PROVE  A!Next
<1> DEFINE K == {d.version : d \in deps} \cup {r.version : r \in DOMAIN Published}
           W == K \ V
           D == {r \in reports : summary[r] # EmptySummary}
           E == {r \in D : r.version \in V}
<1>1. UNCHANGED << Begun, [x \in Cve |-> AffectedRanges(x)] >>
  BY SameRanges DEF Begun
<1>2. Published = [r \in D |-> [list |-> FindingsOf(r), counts |-> summary[r]]]
  BY DEF Published
<1>3. deps' = {d \in deps : d.version \notin W}
  BY DEF Retain
<1>4. ASSUME NEW r \in reports, r.version \in V
      PROVE  r \in reports' /\ summary'[r] = summary[r] /\ FindingsOf(r)' = FindingsOf(r)
  <2>1. r \in reports' /\ summary'[r] = summary[r]
    BY <1>4 DEF Retain
  <2>2. FindingsOf(r)' = FindingsOf(r)
    BY <1>4 DEF Retain, FindingsOf, Consistent, ForeignKeys, FindingWithinVersion
  <2> QED
    BY <2>1, <2>2
<1>5. \A r \in reports' : r \in reports /\ r.version \in V
  BY DEF Retain
<1>6. {r \in reports' : summary'[r] # EmptySummary} = E
  BY <1>4, <1>5
<1>7. Published' = [r \in E |-> [list |-> FindingsOf(r)', counts |-> summary'[r]]]
  BY <1>6 DEF Published
<1>8. {r \in DOMAIN Published : r.version \notin W} = E
  BY <1>2
<1>9. Published' = [r \in {x \in DOMAIN Published : x.version \notin W} |-> Published[r]]
  <2>1. \A r \in E : r \in D /\ FindingsOf(r)' = FindingsOf(r) /\ summary'[r] = summary[r]
    BY <1>4
  <2> HIDE DEF D, E, W
  <2>2. \A r \in E : Published[r] = [list |-> FindingsOf(r)', counts |-> summary'[r]]
    BY <1>2, <2>1
  <2> QED
    BY <1>7, <1>8, <2>2
<1>10. W \in SUBSET K
  OBVIOUS
<1> HIDE DEF W
<1>11. A!Forget(W)
  BY <1>1, <1>3, <1>9 DEF A!Forget
<1> QED
  BY <1>10, <1>11 DEF A!Next

LEMMA ReplacementAppears ==
  ASSUME TypeOK, DepsFinite, Consistent, BatchesNumbered,
         NEW j \in AnalysisJob, ajob[j].pc = "analyze", Replaces(j),
         UNCHANGED << rjob, affected >>
  PROVE  A!Next \/ UNCHANGED A!vars
<1> DEFINE v     == ajob[j].version
           fresh == deps' \ deps
           D     == {r \in reports : summary[r] # EmptySummary}
<1>1. UNCHANGED << Begun, [x \in Cve |-> AffectedRanges(x)] >>
  BY SameRanges DEF Begun
<1>2. Published = [r \in D |-> [list |-> FindingsOf(r), counts |-> summary[r]]]
  BY DEF Published
<1>3. PICK rows \in BatchRows(j) : Retain(versions, RowsLeft(v) \cup rows)
  BY DEF Replaces
<1>4. \A d \in rows : d.version = v /\ d.batch = ajob[j].batch
  <2>1. v \in VersionRow /\ IsFiniteSet(ajob[j].deps) /\ AnalysisTypeOK
    BY DEF TypeOK, AnalysisTypeOK, DepsFinite
  <2> QED
    BY <2>1, BatchRowsTyped
<1>5. /\ \A d \in deps : d.version \in versions /\ d.batch # ajob[j].batch
      /\ \A b \in Begun : \A d \in b.rows : d.batch # ajob[j].batch
  BY DEF Consistent, ForeignKeys, BatchesNumbered, Begun, Held
<1>6. deps' = {d \in RowsLeft(v) \cup rows : d.version \in versions}
  BY <1>3 DEF Retain
<1>7. /\ deps' = {d \in deps : d.version # v} \cup fresh
      /\ \A d \in fresh : d.version = v /\ \A b \in Begun : d \notin b.rows
  BY <1>4, <1>5, <1>6 DEF RowsLeft
<1>8. reports' = reports /\ \A r \in reports : summary'[r] = summary[r]
  BY <1>3 DEF Retain, Consistent, ForeignKeys
<1>9. \A f \in findings : /\ f.report \in reports /\ f.dep \in deps
                          /\ f.report.version = f.dep.version
  BY DEF Consistent, ForeignKeys, FindingWithinVersion
<1>10. findings' = {f \in findings : f.report \in reports /\ f.dep \in deps'}
  BY <1>3, <1>8 DEF Retain
<1>11. ASSUME NEW r \in reports
       PROVE  FindingsOf(r)' = IF r.version = v THEN {} ELSE FindingsOf(r)
  BY <1>4, <1>5, <1>6, <1>9, <1>10 DEF FindingsOf, RowsLeft
<1>12. Published' = [r \in D |-> [list |-> FindingsOf(r)', counts |-> summary'[r]]]
  <2>1. {r \in reports' : summary'[r] # EmptySummary} = D
    BY <1>8
  <2> QED
    BY <2>1 DEF Published
<1>13. D = DOMAIN Published /\ \A r \in D : r \in reports
  BY <1>2
<1> HIDE DEF D, v, fresh
<1>14. Published' = [r \in DOMAIN Published |->
                        IF r \in A!ReportsOf(v) THEN [Published[r] EXCEPT !.list = {}]
                                                ELSE Published[r]]
  <2>1. \A r \in D : r \in A!ReportsOf(v) <=> r.version = v
    BY <1>13 DEF A!ReportsOf
  <2>2. \A r \in D : Published[r] = [list |-> FindingsOf(r), counts |-> summary[r]]
    BY <1>2
  <2>3. ASSUME NEW r \in D
        PROVE  [list |-> FindingsOf(r)', counts |-> summary'[r]] =
                 IF r \in A!ReportsOf(v) THEN [Published[r] EXCEPT !.list = {}]
                                         ELSE Published[r]
    <3>1. \A x, y : [[list |-> x, counts |-> y] EXCEPT !.list = {}] = [list |-> {}, counts |-> y]
      OBVIOUS
    <3>2. /\ summary'[r] = summary[r]
          /\ FindingsOf(r)' = IF r.version = v THEN {} ELSE FindingsOf(r)
      BY <1>8, <1>11, <1>13
    <3>3. [Published[r] EXCEPT !.list = {}] = [list |-> {}, counts |-> summary[r]]
      <4>1. PICK p : p = Published[r]
        OBVIOUS
      <4>2. p = [list |-> FindingsOf(r), counts |-> summary[r]]
        BY <2>2, <4>1
      <4>3. [p EXCEPT !.list = {}] = [list |-> {}, counts |-> summary[r]]
        BY <3>1, <4>2
      <4> QED
        BY <4>1, <4>3
    <3>4. CASE r.version = v
      BY <2>1, <3>2, <3>3, <3>4
    <3>5. CASE r.version # v
      BY <2>1, <2>2, <3>2, <3>5
    <3> QED
      BY <3>4, <3>5
  <2> QED
    BY <1>12, <1>13, <2>3
<1>15. CASE v \in {d.version : d \in deps \cup deps'}
  <2>1. A!Replace(v)
    BY <1>1, <1>7, <1>14 DEF A!Replace, fresh
  <2> QED
    BY <1>15, <2>1 DEF A!Next
<1>16. CASE v \notin {d.version : d \in deps \cup deps'}
  <2>1. deps' = deps
    BY <1>7, <1>16 DEF fresh
  <2>2. \A r \in reports : FindingsOf(r)' = FindingsOf(r)
    BY <1>9, <1>11, <1>16 DEF FindingsOf
  <2>3. Published' = Published
    BY <1>2, <1>8, <1>12, <1>13, <2>2
  <2> QED
    BY <1>1, <2>1, <2>3 DEF A!vars
<1> QED
  BY <1>15, <1>16

(***************************************************************************)
(* Every step of the daemon is a step of AtomicReports or none.            *)
(***************************************************************************)
LEMMA StepAppears ==
  ASSUME TypeOK, DepsFinite, Consistent, SummaryInv, ScansLoaded, MaxUpserts = 0 => ExactInv,
         [Next]_vars
  PROVE  A!Next \/ UNCHANGED A!vars
<1>1. CASE UNCHANGED << deps, reports, summary, findings, rjob >>
  BY <1>1, ImportAppears
<1>2. CASE UNCHANGED affected
  <2>1. ASSUME UNCHANGED << deps, reports, summary, findings, rjob >>
        PROVE  A!Next \/ UNCHANGED A!vars
    BY <2>1, ImportAppears
  <2>2. ASSUME NEW j \in ReportJob, ReportStep(j)
        PROVE  A!Next \/ UNCHANGED A!vars
    BY <2>2, ReportStepAppears
  <2>3. ASSUME NEW j \in ReportJob, NEW v \in versions, ReportRequest(j, v)
        PROVE  A!Next \/ UNCHANGED A!vars
    <3>1. rjob[j].pc = "idle" /\ rjob'[j].pc = "insert"
          /\ \A i \in ReportJob : i # j => rjob'[i] = rjob[i]
      BY <2>3 DEF ReportRequest, TypeOK, ReportTypeOK
    <3>2. Begun' = Begun
      BY <3>1 DEF Begun
    <3>3. UNCHANGED << deps, Published >>
      BY <2>3 DEF ReportRequest, tables, Published, FindingsOf
    <3> QED
      BY <1>2, <3>2, <3>3, SameRanges DEF A!vars
  <2>4. ASSUME Restart, UNCHANGED << deps, reports, summary, findings >>
        PROVE  A!Next \/ UNCHANGED A!vars
    <3>1. Begun' = {}
      BY <2>4 DEF Begun, Restart, IdleReport
    <3>2. UNCHANGED << deps, Published >>
      BY <2>4 DEF Published, FindingsOf
    <3> QED
      BY <1>2, <3>1, <3>2, SameRanges DEF A!Next, A!Abandon
  <2>5. ASSUME NEW V, Retain(V, deps), UNCHANGED reportVars
        PROVE  A!Next \/ UNCHANGED A!vars
    BY <1>2, <2>5, RemovalAppears DEF reportVars
  <2>6. ASSUME NEW j \in AnalysisJob, ajob[j].pc = "analyze", Replaces(j), UNCHANGED reportVars
        PROVE  A!Next \/ UNCHANGED A!vars
    BY <1>2, <2>6, ReplacementAppears DEF reportVars, SummaryInv
  <2>7. UNCHANGED reportVars => UNCHANGED rjob
    BY DEF reportVars
  <2> QED
    BY <2>1, <2>2, <2>3, <2>4, <2>5, <2>6, <2>7, WhatChangesReports
<1> QED
  BY <1>1, <1>2, RangesOrReports

(***************************************************************************)
(* Whatever else runs, a report is made as in one step, from the rows of   *)
(* one moment, and published once; afterwards it only loses its findings,  *)
(* and all of them at once (ReportEngine::generateReport).                 *)
(***************************************************************************)
THEOREM ReportsAreAtomic == Spec => ImplementsAtomicReports
<1>1. Init => A!Init
  BY DEF Init, EmptyTables, ReportInit, IdleReport, A!Init, Begun, Published
<1>2. Init => ScansLoaded
  BY DEF Init, ReportInit, IdleReport, ScansLoaded, InLoop
<1>3. TypeOK /\ DepsFinite /\ Consistent /\ SummaryInv /\ ScansLoaded /\ [Next]_vars => ScansLoaded'
  BY ScansLoadedKept
<1>4. /\ TypeOK /\ DepsFinite /\ Consistent /\ SummaryInv /\ ScansLoaded
      /\ (MaxUpserts = 0 => ExactInv) /\ [Next]_vars
      => [A!Next]_A!vars
  BY StepAppears
<1> QED
  BY <1>1, <1>2, <1>3, <1>4, AlwaysCounted, AlwaysExact, PTL
     DEF Spec, ImplementsAtomicReports, A!Spec
=============================================================================
