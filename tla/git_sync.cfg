SPECIFICATION Spec
CONSTANTS
    main = main  dev = dev  v1 = v1  NoRow = NoRow
    Branch = {main, dev}
    Tag = {main, v1}
    Default = main
    SyncJob = {1, 2}
    MaxPushes = 2
    MaxChecks = 1
    MaxMishaps = 1
INVARIANTS
    VersionsResolvable
PROPERTIES
    CommitNeverGoesBack
    ListedTagGetsRow
    ImplementsVersionTable
CHECK_DEADLOCK FALSE
