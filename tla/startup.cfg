SPECIFICATION Spec
CONSTANTS
    nvd = nvd  npm = npm  npm2 = npm2  bad = bad  alien = alien
    source = source  ecosystem = ecosystem  NoPlugin = NoPlugin
    Daemon = {1, 2}
    Release <- MCReleases
    Directory <- MCDirectory
    Verdict <- MCVerdict
    Key <- MCKey
    MaxFailures = 2
    MaxCrashes = 1
INVARIANTS
    TypeOK
    MigrationsOnceInOrder
    RunningHasItsSchema
    PluginsAvailable
PROPERTIES
    DaemonsComeUp
    ImplementsRollout
CHECK_DEADLOCK FALSE
