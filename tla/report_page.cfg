SPECIFICATION Spec
CONSTANTS
    p1 = p1  main = main  lib = lib  app = app  old = old
    Project = {p1}
    Ref = {main}
    Package = {lib, app}
    PkgVersion = {old}
    Cve = {1}
    Writer = {}
    NoRow = NoRow
    Order <- MCOrder
    MaxMitigations = 2
    MaxBulk = 2
    MaxSaves = 2
    MaxOutside = 1
INVARIANTS
    TypeOK
    AnsweredWhenLinked
    OwnMitigationShown
    NamesOpenFindings
    SavesAnswered
CHECK_DEADLOCK FALSE
