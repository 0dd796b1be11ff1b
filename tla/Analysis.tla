------------------------------ MODULE Analysis ------------------------------
(***************************************************************************)
(* AnalysisService and the handler that starts it.  An analysis job is one *)
(* DbLoop thread inside VersionController::analyze's callback: async_run   *)
(* runs the coroutine inline, so the thread stays with the job until it    *)
(* ends.  Jobs of several threads interleave; nothing locks the working    *)
(* tree, which is one directory per project (GitRepository::repoPath).     *)
(* All of them, and the report jobs, share the one connection of           *)
(* Database::blockingClient, so a transaction of theirs is alone on it.    *)
(***************************************************************************)
EXTENDS Schema

CONSTANTS
    Analyzer,    \* the loaded dependency analyzers
    Manifest,    \* Manifest[p][r][a]: what analyzer a finds in ref r of p
    AnalysisJob, \* DbLoop threads that may run an analysis
    MaxAnalyses  \* bound on the analyses requested

ASSUME ManifestAssumption ==
    /\ Manifest \in [Project -> [Ref -> [Analyzer -> SUBSET (Package \X PkgVersion)]]]
    /\ \A p \in Project, r \in Ref, a \in Analyzer : IsFiniteSet(Manifest[p][r][a])

VARIABLES
    tree,    \* tree[p]: the project and ref whose files are in directory p
    ajob,    \* the local variables of each analysis job
    analyses \* how many analyses were requested; numbers their rows

analysisVars == << tree, ajob, analyses >>

Checkedout == [project : Project, ref : Ref]

AnalysisPc == {"idle", "lookup", "checkout", "analyze"}

IdleAnalysis == [pc |-> "idle", version |-> NoRow, batch |-> 0,
                 todo |-> {}, deps |-> {}]

\* Job j in the loop over the analyzers, todo left to run and found so far.
Analyzing(j, todo, found) ==
    [pc |-> "analyze", version |-> ajob[j].version, batch |-> ajob[j].batch,
     todo |-> todo, deps |-> found]

AnalysisTypeOK ==
    /\ tree \in [Project -> Checkedout]
    /\ ajob \in [AnalysisJob ->
                   [pc : AnalysisPc, version : VersionRow \cup {NoRow}, batch : Nat,
                    todo : SUBSET Analyzer, deps : SUBSET (Package \X PkgVersion)]]
    /\ \A j \in AnalysisJob : ajob[j].pc # "idle" => ajob[j].version \in VersionRow
    /\ analyses \in Nat

AnalysisInit ==
    /\ tree \in {t \in [Project -> Checkedout] : \A p \in Project : t[p].project = p}
    /\ ajob = [j \in AnalysisJob |-> IdleAnalysis]
    /\ analyses = 0

-----------------------------------------------------------------------------

\* VersionController::analyze: the version row exists, so the job starts.
AnalyzeRequest(j, v) ==
    /\ up /\ ajob[j].pc = "idle" /\ analyses < MaxAnalyses
    /\ v \in versions
    /\ analyses' = analyses + 1
    /\ ajob' = [ajob EXCEPT ![j] = 
                    [pc |-> "lookup", version |-> v, batch |-> analyses + 1,
                     todo |-> {}, deps |-> {}]]
    /\ UNCHANGED << tables, tree, up >>

\* analyzeVersion(id): look the row up once more; gone means give up.
LookupVersion(j) ==
    /\ up /\ ajob[j].pc = "lookup"
    /\ ajob' = IF ajob[j].version \in versions
               THEN [ajob EXCEPT ![j].pc = "checkout"]
               ELSE [ajob EXCEPT ![j] = IdleAnalysis]
    /\ UNCHANGED << tables, tree, analyses, up >>

\* A slip: one directory for every project.
RepoPathShared(p) == CHOOSE q \in Project : TRUE

\* GitRepository::repoPath: the directory project p is cloned into.
RepoPath(p) == p

\* The tree of job j's project with its ref checked out.
CheckedOut(j) ==
    [tree EXCEPT ![RepoPath(ajob[j].version.project)] =
        [project |-> ajob[j].version.project, ref |-> ajob[j].version.ref]]

\* GitRepository::checkout: force the ref into the shared working tree.
Checkout(j) ==
    /\ up /\ ajob[j].pc = "checkout"
    /\ tree' = CheckedOut(j)
    /\ ajob' = [ajob EXCEPT ![j] = Analyzing(j, Analyzer, {})]
    /\ UNCHANGED << tables, analyses, up >>

\* A slip: the empty hash of a failed checkout is not looked at.
CheckoutFailsIgnored(j) ==
    /\ up /\ ajob[j].pc = "checkout"
    /\ tree' \in {tree, CheckedOut(j)}
    /\ ajob' = [ajob EXCEPT ![j] = Analyzing(j, Analyzer, {})]
    /\ UNCHANGED << tables, analyses, up >>

\* The same, failing (an index.lock held by another checkout, an I/O error)
\* before or after the files were written: the analysis ends.
CheckoutFails(j) ==
    /\ up /\ ajob[j].pc = "checkout"
    /\ tree' \in {tree, CheckedOut(j)}
    /\ ajob' = [ajob EXCEPT ![j] = IdleAnalysis]
    /\ UNCHANGED << tables, analyses, up >>

\* One analyzer of the loop reads the working tree as it is now; one that
\* meets an exception (PythonAnalyzer) succeeds with what it has so far.
RunAnalyzer(j, a) ==
    /\ up /\ ajob[j].pc = "analyze" /\ a \in ajob[j].todo
    /\ LET t == tree[RepoPath(ajob[j].version.project)] IN
       \E found \in SUBSET Manifest[t.project][t.ref][a] :
          ajob' = [ajob EXCEPT ![j] = Analyzing(j, ajob[j].todo \ {a}, ajob[j].deps \cup found)]
    /\ UNCHANGED << tables, tree, analyses, up >>

\* An analyzer that reports an error is skipped and the loop goes on.
AnalyzerFails(j, a) ==
    /\ up /\ ajob[j].pc = "analyze" /\ a \in ajob[j].todo
    /\ ajob' = [ajob EXCEPT ![j] = Analyzing(j, ajob[j].todo \ {a}, ajob[j].deps)]
    /\ UNCHANGED << tables, tree, analyses, up >>

\* The rows the INSERTs of job j leave: one for each package, ON CONFLICT
\* keeping the version of the last of several entries.
BatchRows(j) ==
    LET found    == ajob[j].deps
        names    == {x[1] : x \in found}
        row(n,w) == [batch |-> ajob[j].batch, version |-> ajob[j].version,
                     package |-> n, ver |-> w]
    IN {{row(n, ver[n]) : n \in names} :
           ver \in {w \in [names -> PkgVersion] : \A n \in names : << n, w[n] >> \in found}}

\* A slip: the rows are added to those of the last analysis.
RowsLeftNoDelete(v) == deps

\* The rows the DELETE of storeDependencies leaves.
RowsLeft(v) == {d \in deps : d.version # v}

\* storeDependencies: one transaction, so one step.  With the version row
\* gone an INSERT violates its foreign key and the exception terminates the
\* process; with no dependency to insert the transaction changes nothing.
StoreDependencies(j) ==
    /\ up /\ ajob[j].pc = "analyze" /\ ajob[j].todo = {}
    /\ LET v == ajob[j].version IN
       \/ /\ v \in versions
          /\ \E rows \in BatchRows(j) : Retain(versions, RowsLeft(v) \cup rows)
          /\ analyzed' = analyzed \cup {v}
          /\ UNCHANGED << projects, severity, affected, up >>
       \/ /\ v \notin versions /\ ajob[j].deps # {}
          /\ up' = FALSE
          /\ UNCHANGED tables
       \/ /\ v \notin versions /\ ajob[j].deps = {}
          /\ UNCHANGED << tables, up >>
    /\ ajob' = [ajob EXCEPT ![j] = IdleAnalysis]
    /\ UNCHANGED << tree, analyses >>

AnalysisStep(j) ==
    \/ LookupVersion(j)
    \/ Checkout(j)
    \/ CheckoutFails(j)
    \/ \E a \in Analyzer : RunAnalyzer(j, a)
    \/ \E a \in Analyzer : AnalyzerFails(j, a)
    \/ StoreDependencies(j)
=============================================================================
