SPECIFICATION Spec
CONSTANTS
    lib = lib  old = old  new = new  NoRow = NoRow
    Package = {lib}
    PkgVersion = {old}
    Cve = {1, 2, 3}
    Writer = {1, 2}
    NvdRecord <- MCNvdRecord
    PageSize = 1
    Archive <- MCArchive
    MaxCrashes = 1
INVARIANTS
    NvdImportedInFull
    ArchiveCountedInFull
    
PROPERTIES
    SyncsEnd
CHECK_DEADLOCK FALSE
