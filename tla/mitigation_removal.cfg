SPECIFICATION Spec
CONSTANTS
    p1 = p1  p2 = p2  main = main  tag = tag  npm = npm  cmake = cmake
    lib = lib  app = app  old = old  new = new  NoRow = NoRow
    j1 = j1  j2 = j2
    Project = {p1}
    Ref = {main}
    Package = {lib, app}
    PkgVersion = {old, new}
    Cve = {1}
    Writer = {}
    Analyzer = {npm, cmake}
    Manifest <- MCManifest
    AffectedBy <- MCAffectedBy
    Feed <- MCFeed
    AnalysisJob = {1}
    ReportJob = {1}
    MaxAnalyses = 1
    MaxReports = 1
    MaxMitigations = 1
    MaxBulk = 1
    MaxVersions = 1
    MaxUpserts = 0
    MaxCrashes = 0
PROPERTIES
    RemovedWithLastLink
CHECK_DEADLOCK FALSE
