SPECIFICATION Spec
CONSTANTS
    p1 = p1  p2 = p2  main = main  tag = tag  npm = npm  cmake = cmake
    lib = lib  app = app  old = old  new = new  NoRow = NoRow
    j1 = j1  j2 = j2
    Project = {p1}
    Ref = {main}
    Package = {lib, app}
    PkgVersion = {old, new}
    Cve = {1, 2}
    Writer = {1}
    Analyzer = {npm, cmake}
    Manifest <- MCManifest
    AffectedBy <- MCAffectedBy
    Feed <- MCFeed
    AnalysisJob = {1}
    ReportJob = {j1, j2}
    MaxAnalyses = 2
    MaxReports = 2
    MaxMitigations = 0
    MaxBulk = 1
    MaxVersions = 1
    MaxUpserts = 1
    MaxCrashes = 0
INVARIANTS
    TypeOK
    OneBatchPerVersion
    SummaryCountsFindings
PROPERTIES
    ImplementsAtomicReports
SYMMETRY Jobs
CHECK_DEADLOCK FALSE
