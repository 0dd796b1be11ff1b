SPECIFICATION Spec
CONSTANTS
    p1 = p1  p2 = p2  main = main  tag = tag  npm = npm  cmake = cmake
    lib = lib  app = app  old = old  new = new  NoRow = NoRow
    j1 = j1  j2 = j2
    Project = {p1}
    Ref = {main, tag}
    Package = {lib, app}
    PkgVersion = {old, new}
    Cve = {1}
    Writer = {}
    Analyzer = {npm, cmake}
    Manifest <- MCManifest
    AffectedBy <- MCAffectedBy
    Feed <- MCFeed
    AnalysisJob = {1}
    ReportJob = {1}
    MaxAnalyses = 2
    MaxReports = 2
    MaxMitigations = 2
    MaxBulk = 1
    MaxVersions = 2
    MaxUpserts = 0
    MaxCrashes = 1
INVARIANTS
    FindingWithinVersion
    MitigationFitsFinding
    ReportIsExact
    DependenciesOfOwnRef
PROPERTIES
    MitigationKept
CHECK_DEADLOCK FALSE
