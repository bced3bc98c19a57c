CONSTANTS
    readme = readme
    commit = commit
    main = main
    other = other
    op1 = op1
    op2 = op2
    a = a
    u1 = u1
    NoObject = NoObject
    NoOp = NoOp
    NoState = NoState
    NoLedger = NoLedger
    DefaultBranch = main
    Readme = readme
    Object = {readme, commit}
    Commit = {readme, commit}
    Links <- CommitLinks
    RefName = {main, other}
    Branch = {main, other}
    Directory <- Nested
    MaxGeneration = 3
    Op = {op1, op2}
    LfsObject <- Announced
    Genuine <- Right
    Upload = {u1}
    MaxRepositoryBytes = 2
    MaxRecords = 2
    MaxReservations = 2
    Faults = FALSE
SPECIFICATION TwoSpec
CHECK_DEADLOCK FALSE
INVARIANT LockSound
PROPERTIES LockedWorkEnds UploadEnds
