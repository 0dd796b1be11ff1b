SPECIFICATION Spec
CONSTANTS
    main = main  dev = dev  v1 = v1  NoRow = NoRow
    Branch = {main, dev}
    Tag = {v1}
    Default = main
    SyncJob = {1}
    MaxPushes = 2
    MaxChecks = 0
    MaxMishaps = 0
INVARIANTS
    TrackedBranchesHaveRows
CHECK_DEADLOCK FALSE
